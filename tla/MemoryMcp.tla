----------------------------- MODULE MemoryMcp -----------------------------
(***************************************************************************)
(* The memory service and its MCP tools over the agentic store.  A tool    *)
(* call is one step: it derives the trusted context, asks the policy       *)
(* resolver, runs one operation of the store under its lock and projects   *)
(* the result.  A peer brick may also call the service directly, with      *)
(* records larger than the tools admit.                                    *)
(*                                                                         *)
(* The policy resolver is a port.  It answers as the static resolver does, *)
(* or repeats a decision it issued earlier, or returns a decision whose    *)
(* grant was changed after it was digested.                                *)
(***************************************************************************)
EXTENDS AgenticStore, FiniteSetsExt

CONSTANTS
    Contexts,               \* what TrustedContextSource may resolve to
    Grants,                 \* entries of the static policy resolver
    RememberInputs,         \* inputs of memory_remember
    TypedRequests,          \* requests of a peer brick, each with its tenant
    Addresses,              \* namespace and key of memory_recall and memory_forget
    SearchInputs,           \* inputs of memory_search
    Config,                 \* the deployment's MemoryConfigV1
    MaxRequestBytes,        \* MAX_MCP_REQUEST_BYTES
    MaxMcpContentBytes, MaxMcpTags, MaxMcpQueryLimit,
    MaxResultBytes,         \* MAX_MCP_SERIALIZED_RESULT_BYTES
    KeyBytes,               \* bytes of a key in a response
    RecordBytes,            \* bytes of a projected record beside its content
    FrameBytes,             \* bytes of a search response beside its lists
    Times,                  \* what the clock may read
    MaxNodes                \* bound: nodes of all graphs

VARIABLES
    tenants,                \* tenant -> namespace -> partition
    answer                  \* the last call and its result

vars == <<tenants, answer>>

None == "none"

MAX_MCP_ESCAPED_TOOL_TEXT_BYTES == 2 * MaxResultBytes
MAX_MCP_RECORD_PROJECTION_BYTES == MaxMcpContentBytes + RecordBytes
DEFERRAL_RESERVE_BYTES == MaxMcpQueryLimit * KeyBytes + FrameBytes

(* MemorySettings::from_config, which validates a deployment's settings. *)
from_config(config) ==
    IF config.max_query_limit \notin 1 .. MaxQueryLimit THEN Err("LimitExceeded")
    ELSE IF ~NewId(config.default_namespace).ok THEN NewId(config.default_namespace)
    ELSE Ok(config)

(* MemoryService::with_result_ceiling narrows the ceiling, never widens it. *)
with_result_ceiling(ceiling) ==
    IF ceiling \notin 1 .. MaxQueryLimit THEN Err("LimitExceeded")
    ELSE Ok([result_ceiling |-> ceiling])

settings == from_config(Config)
service == with_result_ceiling(settings.value.max_query_limit)
resolver == NewResolver(Grants)

(* The composition root starts only with valid settings and grants; the     *)
(* second conjunct is the compile-time assertion of the surface.           *)
ASSUME SurfaceAssumption ==
    /\ settings.ok /\ service.ok /\ resolver.ok
    /\ MaxMcpQueryLimit * MAX_MCP_RECORD_PROJECTION_BYTES + DEFERRAL_RESERVE_BYTES
         <= MaxResultBytes

(*************************** the memory service ***************************)

remember(state, tenant, request, now, failing) ==
    LET record == [tenant |-> tenant, namespace |-> request.namespace, key |-> request.key,
                   kind |-> request.kind, content |-> request.content, tags |-> request.tags,
                   metadata |-> request.metadata,
                   provenance |-> IF request.run = <<>> THEN <<>>
                                  ELSE <<[run |-> Head(request.run), at |-> now]>>]
    IN  IF ~validate_record(record).ok THEN Result(validate_record(record), state)
        ELSE put(state, record, failing)

(* key is an Option: a query spans keys. *)
is_addressed(tenant, namespace, key, record) ==
    /\ record.tenant = tenant /\ record.namespace = namespace
    /\ key # <<>> => record.key = Head(key)

recall(state, tenant, namespace, key) ==
    SelectSeq(get(state, tenant, namespace, key),
              LAMBDA r : is_addressed(tenant, namespace, <<key>>, r))

search(state, tenant, namespace, q) ==
    LET found == query(state, tenant, namespace, q)
        addressed == SelectSeq(found.value, LAMBDA r : is_addressed(tenant, namespace, <<>>, r))
    IN  IF ~validate_query(q).ok THEN validate_query(q)
        ELSE IF q.limit > service.value.result_ceiling THEN Err("LimitExceeded")
        ELSE IF ~found.ok THEN found
        ELSE Ok(SubSeq(addressed, 1,
                       IF q.limit < Len(addressed) THEN q.limit ELSE Len(addressed)))

forget(state, tenant, namespace, key, failing) == delete(state, tenant, namespace, key, failing)

(***************************** the policy gate ****************************)

(* MemoryPolicyContextResolver::authorize; trusted is the Option of the     *)
(* trusted context source.  The grant is acted on only once the digest     *)
(* binds it to this request.                                               *)
authorize(trusted, capability, decision) ==
    LET canonical == canonical_grant(decision.grant)
        expected == decision_digest([context |-> Head(trusted), capability |-> capability],
                                    Allow(canonical.value, <<>>))
    IN  IF trusted = <<>> \/ decision.kind = "deny" THEN Err("Unauthorized")
        ELSE IF ~canonical.ok THEN Err("Unauthorized")
        ELSE IF ~expected.ok \/ decision.digest # expected.value THEN Err("Unauthorized")
        ELSE IF ~canonical.value.memory THEN Err("Unauthorized")
        ELSE IF ~is_logical_id(Head(trusted).tenant) THEN Err("Unauthorized")
        ELSE Ok(Head(trusted).tenant)

(******************************* projections ******************************)

validate_request(bytes) == IF bytes <= MaxRequestBytes THEN Ok(bytes) ELSE Err("LimitExceeded")

validate_mcp_record(input) ==
    IF input.content.json > MaxMcpContentBytes \/ Len(input.tags) > MaxMcpTags
      THEN Err("LimitExceeded") ELSE Ok(input)

record_output(record) == [key |-> record.key, bytes |-> RecordBytes + record.content.json]

(* Escaping at most doubles the text. *)
framed_len(bytes) == 2 * bytes

serialize(value, bytes) ==
    IF bytes > MaxResultBytes \/ framed_len(bytes) > MAX_MCP_ESCAPED_TOOL_TEXT_BYTES
      THEN Err("LimitExceeded") ELSE Ok(value)

(* serialize_search without the reserve for the lists of keys. *)
serialize_search_NoReserve(records) ==
    LET budget == MaxResultBytes
        Project(page, record) ==
          LET size == record_output(record).bytes
          IN  IF size > budget THEN [page EXCEPT !.oversized = Append(@, record.key)]
              ELSE IF page.used + size > budget
                THEN [page EXCEPT !.deferred = Append(@, record.key)]
              ELSE [page EXCEPT !.used = @ + size, !.records = Append(@, record.key)]
        page == FoldLeft(Project, [records |-> <<>>, deferred |-> <<>>, oversized |-> <<>>,
                                   used |-> 0], records)
        bytes == page.used + KeyBytes * (Len(page.deferred) + Len(page.oversized)) + FrameBytes
    IN  serialize([records |-> page.records, deferred |-> page.deferred,
                   oversized |-> page.oversized], bytes)

serialize_search(records) ==
    LET budget == MaxResultBytes - DEFERRAL_RESERVE_BYTES
        Project(page, record) ==
          LET size == record_output(record).bytes
          IN  IF size > budget THEN [page EXCEPT !.oversized = Append(@, record.key)]
              ELSE IF page.used + size > budget
                THEN [page EXCEPT !.deferred = Append(@, record.key)]
              ELSE [page EXCEPT !.used = @ + size, !.records = Append(@, record.key)]
        page == FoldLeft(Project, [records |-> <<>>, deferred |-> <<>>, oversized |-> <<>>,
                                   used |-> 0], records)
        bytes == page.used + KeyBytes * (Len(page.deferred) + Len(page.oversized)) + FrameBytes
    IN  serialize([records |-> page.records, deferred |-> page.deferred,
                   oversized |-> page.oversized], bytes)

(* The code a caller is shown; anything else is an adapter failure. *)
WireCodes ==
    [InvalidId |-> "invalid_id", InvalidRecord |-> "invalid_record",
     InvalidQuery |-> "invalid_query", LimitExceeded |-> "limit_exceeded",
     NotFound |-> "not_found", TenantMismatch |-> "not_found",
     Unauthorized |-> "unauthorized", AdapterFailure |-> "adapter_failure"]

tool_response(result) ==
    IF result.ok THEN result
    ELSE Err(IF result.error \in DOMAIN WireCodes THEN WireCodes[public_code(result.error)]
             ELSE "adapter_failure")

(******************************** the tools *******************************)

Capabilities == {"memory_remember", "memory_recall", "memory_search", "memory_forget",
                 "memory_status"}

Requests == [context : Contexts, capability : Capabilities]

(* The decisions the resolver may return for a request: its own, one it     *)
(* issued for some request, or one of these with the memory flag raised.   *)
Decisions ==
    LET issued == {StaticAuthorize(resolver.value, request) : request \in Requests}
        Raised(d) == [d EXCEPT !.grant.memory = TRUE]
    IN  issued \cup {deny_decision} \cup {Raised(d) : d \in {e \in issued : e.kind = "allow"}}

(* What the gate makes of each trusted context, an Option, and decision. *)
Gates ==
    [tool \in Capabilities |->
       {[trusted |-> trusted, result |-> authorize(trusted, tool, decision)] :
          trusted \in {<<>>} \cup {<<c>> : c \in Contexts}, decision \in Decisions}]

(* A tool call: the ceilings before the gate refuse, the gate refuses, or   *)
(* Answer gives the result in the tenant of the trusted context.           *)
Call(tool, input, ceilings, Answer(_)) ==
    \E gate \in Gates[tool] :
      LET outcome == IF ~ceilings.ok THEN Result(ceilings, tenants)
                     ELSE IF ~gate.result.ok THEN Result(gate.result, tenants)
                     ELSE Answer(gate.result.value)
      IN  /\ tenants' = outcome.state
          /\ answer' = [tool |-> tool, trusted |-> gate.trusted, input |-> input,
                        result |-> tool_response(outcome.result)]

(* The graphs number at most MaxNodes nodes between them. *)
Room ==
    LET partitions == {<<t, n>> \in (DOMAIN tenants) \X LogicalIds : n \in DOMAIN tenants[t]}
    IN  MapThenSumSet(LAMBDA p : tenants[p[1]][p[2]].next, partitions) < MaxNodes

(* RememberInput::into_core: no metadata crosses the surface. *)
RememberCore(input) ==
    IF ~NewId(input.namespace).ok THEN NewId(input.namespace)
    ELSE IF ~NewKey(input.key).ok THEN NewKey(input.key)
    ELSE IF input.run # <<>> /\ ~NewId(Head(input.run)).ok THEN Err("InvalidId")
    ELSE Ok([namespace |-> input.namespace, key |-> input.key, kind |-> input.kind,
             content |-> input.content, tags |-> input.tags, metadata |-> {},
             run |-> input.run])

(* RecordAddressInput::into_core *)
AddressCore(input) ==
    IF ~NewId(input.namespace).ok THEN NewId(input.namespace) ELSE NewKey(input.key)

remember_json(input) ==
    \E now \in Times, failing \in Failures :
      LET ceilings == IF ~validate_request(input.bytes).ok THEN validate_request(input.bytes)
                      ELSE validate_mcp_record(input)
          request == RememberCore(input)
          Answer(tenant) ==
            IF ~request.ok THEN Result(request, tenants)
            ELSE remember(tenants, tenant, request.value, now, failing)
      IN  /\ Room
          /\ Call("memory_remember", input, ceilings, Answer)

(* Absence is null; a record too large to project is refused, not absent. *)
recall_json(input) ==
    LET Answer(tenant) ==
          LET found == recall(tenants, tenant, input.namespace, input.key)
              output == record_output(Head(found))
          IN  Result(IF ~AddressCore(input).ok THEN AddressCore(input)
                     ELSE IF found = <<>> THEN Ok(<<>>)
                     ELSE serialize(<<output>>, output.bytes + FrameBytes), tenants)
    IN  Call("memory_recall", input, validate_request(input.bytes), Answer)

search_json(input) ==
    LET ceilings == IF ~validate_request(input.bytes).ok THEN validate_request(input.bytes)
                    ELSE IF input.query.limit \notin 1 .. MaxMcpQueryLimit
                      THEN Err("LimitExceeded") ELSE Ok(TRUE)
        Answer(tenant) ==
          LET found == search(tenants, tenant, input.namespace, input.query)
          IN  Result(IF ~NewId(input.namespace).ok THEN NewId(input.namespace)
                     ELSE IF ~found.ok THEN found
                     ELSE serialize_search(found.value), tenants)
    IN  Call("memory_search", input, ceilings, Answer)

forget_json(input) ==
    \E failing \in Failures :
      LET Answer(tenant) ==
            IF ~AddressCore(input).ok THEN Result(AddressCore(input), tenants)
            ELSE forget(tenants, tenant, input.namespace, input.key, failing)
      IN  Call("memory_forget", input, validate_request(input.bytes), Answer)

(* StoreGuarantees::in_process *)
in_process ==
    [durable_across_restart |-> FALSE, visible_across_processes |-> FALSE,
     crash_atomic |-> FALSE]

status_json ==
    LET ceiling == service.value.result_ceiling
        Answer(tenant) ==
          Result(Ok([guarantees |-> in_process,
                     ceiling |-> IF ceiling < MaxMcpQueryLimit THEN ceiling
                                 ELSE MaxMcpQueryLimit]), tenants)
    IN  Call("memory_status", None, Ok(TRUE), Answer)

(* A peer brick writes through the service, in the tenant it acts for. *)
TypedRemember(request) ==
    \E now \in Times, failing \in Failures :
      LET outcome == remember(tenants, request.tenant, request, now, failing)
      IN  /\ Room
          /\ tenants' = outcome.state
          /\ answer' = [tool |-> "remember", trusted |-> <<>>, input |-> request,
                        result |-> outcome.result]

Init ==
    /\ tenants = Empty
    /\ answer = [tool |-> "start", trusted |-> <<>>, input |-> None, result |-> Ok(None)]

Next ==
    \/ \E input \in RememberInputs : remember_json(input)
    \/ \E input \in Addresses : recall_json(input) \/ forget_json(input)
    \/ \E input \in SearchInputs : search_json(input)
    \/ status_json
    \/ \E request \in TypedRequests : TypedRemember(request)

Spec == Init /\ [][Next]_vars

=============================================================================
