-------------------------- MODULE TelemetryService --------------------------
(***************************************************************************)
(* The telemetry service over the local ring, its MCP tools, the metric    *)
(* adapter of OpenTelemetry and the trace contexts that pass through a     *)
(* process.  A call of the ring is one step, under its lock; a metric is   *)
(* recorded in two, because the instrument leaves the lock as a handle.    *)
(***************************************************************************)
EXTENDS PolicyGate, Telemetry

CONSTANTS
    ObservabilityConfig,    \* ObservabilityConfigV1 of the deployment
    MAX_LOCAL_EVENTS_PER_TENANT, MAX_LOCAL_EVENTS_TOTAL,
    MaxSequence,            \* u64::MAX
    Events,                 \* events other bricks emit
    Queries,                \* inputs of observability_telemetry_query
    MaxTelemetryRequest,    \* MAX_MCP_REQUEST_BYTES
    MaxTelemetryResult,     \* MAX_MCP_SERIALIZED_RESULT_BYTES
    Metrics, Emitters,      \* metrics and the threads that emit them
    Headers, Spans,         \* headers of inbound requests, and spans
    MaxAccepted             \* bound: events accepted by the ring

VARIABLES
    next_sequence, total_events, tenants,   \* State of LocalTelemetry
    accepted,               \* history: the records accepted, in order
    instruments,            \* of OpenTelemetryMetricSink
    handles,                \* what each emitter holds between the two steps
    points,                 \* history: the points recorded
    answer                  \* the last call and its result

ring == <<next_sequence, total_events, tenants, accepted>>
meter == <<instruments, handles, points>>

(* ObservabilitySettings::try_from *)
try_from(config) ==
    LET InRange(n, max) == n \in 1 .. max
    IN  IF config.version # 1 THEN Err("InvalidConfiguration")
        ELSE IF ~InRange(config.max_query_limit, MAX_QUERY_LIMIT) THEN Err("LimitExceeded")
        ELSE IF /\ config.sink.type = "local"
                /\ ~InRange(config.sink.max_events_per_tenant, MAX_LOCAL_EVENTS_PER_TENANT)
          THEN Err("LimitExceeded")
        ELSE Ok([sink |-> config.sink, max_query_limit |-> config.max_query_limit])

(* LocalTelemetry::new and TelemetryService::new *)
NewService(capacity, max_query_limit) ==
    IF \/ capacity \notin 1 .. MAX_LOCAL_EVENTS_PER_TENANT
       \/ max_query_limit \notin 1 .. MAX_QUERY_LIMIT
      THEN Err("LimitExceeded")
    ELSE Ok([capacity_per_tenant |-> capacity, max_query_limit |-> max_query_limit])

settings == try_from(ObservabilityConfig)
service == NewService(settings.value.sink.max_events_per_tenant, settings.value.max_query_limit)

ASSUME TelemetryAssumption ==
    /\ settings.ok /\ service.ok /\ resolver.ok
    /\ MaxSequence > MAX_LOCAL_EVENTS_TOTAL

(******************************* the ring *********************************)

(* Records of a tenant without an entry. *)
RecordsOf(tenant) == IF tenant \in DOMAIN tenants THEN tenants[tenant] ELSE <<>>

(* LocalTelemetry::emit refuses before it changes anything. *)
EmitError(envelope) ==
    LET tenant_is_full == Len(RecordsOf(envelope.tenant_id)) = service.value.capacity_per_tenant
    IN  FirstOf(<<
          validate_envelope(envelope),
          Refuse(~tenant_is_full /\ total_events = MAX_LOCAL_EVENTS_TOTAL, "LimitExceeded"),
          Refuse(next_sequence = MaxSequence, "LimitExceeded")>>)

(* A ring that counts the record that replaces an old one. *)
Push_CountsReplaced(envelope) ==
    LET old == RecordsOf(envelope.tenant_id)
        tenant_is_full == Len(old) = service.value.capacity_per_tenant
        record == [sequence |-> next_sequence, envelope |-> envelope]
        kept == IF tenant_is_full THEN Tail(old) ELSE old
    IN  /\ next_sequence' = next_sequence + 1
        /\ total_events' = total_events + 1
        /\ tenants' = [t \in DOMAIN tenants \cup {envelope.tenant_id} |->
                         IF t = envelope.tenant_id THEN Append(kept, record) ELSE tenants[t]]
        /\ accepted' = Append(accepted, record)

(* The part of LocalTelemetry::emit behind its checks. *)
Push(envelope) ==
    LET old == RecordsOf(envelope.tenant_id)
        tenant_is_full == Len(old) = service.value.capacity_per_tenant
        record == [sequence |-> next_sequence, envelope |-> envelope]
        kept == IF tenant_is_full THEN Tail(old) ELSE old
    IN  /\ next_sequence' = next_sequence + 1
        /\ total_events' = total_events + (IF tenant_is_full THEN 0 ELSE 1)
        /\ tenants' = [t \in DOMAIN tenants \cup {envelope.tenant_id} |->
                         IF t = envelope.tenant_id THEN Append(kept, record) ELSE tenants[t]]
        /\ accepted' = Append(accepted, record)

SinkEmit(envelope) ==
    IF EmitError(envelope) = None THEN Push(envelope) ELSE UNCHANGED ring

(* LocalTelemetry::query: the newest first. *)
ReaderQuery(tenant, query) ==
    LET found == SelectSeq(Reverse(RecordsOf(tenant)), LAMBDA r :
                   /\ validate_record(r) = None /\ r.envelope.tenant_id = tenant
                   /\ record_matches(r, query))
        error == validate_query(query, MAX_QUERY_LIMIT)
    IN  IF error # None THEN Err(error)
        ELSE Ok(SubSeq(found, 1, Min({query.limit, Len(found)})))

(* TelemetryService::query filters what the reader returns once more. *)
ServiceQuery(tenant, query) ==
    LET error == validate_query(query, service.value.max_query_limit)
        read == ReaderQuery(tenant, query)
        kept == SelectSeq(read.value, LAMBDA r :
                  /\ validate_record(r) = None /\ r.envelope.tenant_id = tenant
                  /\ record_matches(r, query))
    IN  IF error # None THEN Err(error)
        ELSE IF ~read.ok THEN read
        ELSE Ok(SubSeq(kept, 1, Min({query.limit, Len(kept)})))

(*************************** the MCP surface ******************************)

ObservabilityTools == {"observability_telemetry_query", "observability_telemetry_status"}

(* ObservabilityPolicyContextResolver::authorize: one error for all. *)
ObservabilityAuthorize(gate) ==
    IF ~gate.ok THEN Err("AdapterFailure")
    ELSE IF validate_tenant_id(gate.value.context.tenant) # None THEN Err("AdapterFailure")
    ELSE Ok(gate.value.context.tenant)

(* RecordOutput: what a page shows of a record. *)
record_output(record) ==
    [sequence |-> record.sequence, timestamp |-> record.envelope.timestamp,
     severity |-> Severity[record.envelope.event.severity],
     event_name |-> record.envelope.event.name, target |-> record.envelope.event.target]

OutputBytes(output) == output.event_name.bytes + output.target.bytes

fits_result_ceiling(outputs) ==
    FoldLeft(LAMBDA n, o : n + OutputBytes(o), 0, outputs) <= MaxTelemetryResult

(* A page that never says it was cut. *)
serialize_records_Silent(records) ==
    LET outputs == [i \in DOMAIN records |-> record_output(records[i])]
        fitting == {n \in 0 .. Len(outputs) : fits_result_ceiling(SubSeq(outputs, 1, n))}
    IN  [records |-> SubSeq(outputs, 1, Max(fitting)), truncated |-> FALSE]

(* The longest prefix that fits; the empty page always does. *)
serialize_records(records) ==
    LET outputs == [i \in DOMAIN records |-> record_output(records[i])]
        fitting == {n \in 0 .. Len(outputs) : fits_result_ceiling(SubSeq(outputs, 1, n))}
    IN  [records |-> SubSeq(outputs, 1, Max(fitting)),
         truncated |-> Max(fitting) < Len(outputs)]

(* TelemetryQueryInput::into_core *)
QueryError(query) ==
    FirstOf(<<
      Refuse(\E n \in ToSet(query.event_name) : validate_event_name(n) # None, "InvalidEvent"),
      Refuse(\E t \in ToSet(query.target) : validate_event_target(t) # None, "InvalidEvent")>>)

query_json(input, gate) ==
    LET context == ObservabilityAuthorize(gate)
        found == ServiceQuery(context.value, input.query)
    IN  IF input.bytes > MaxTelemetryRequest THEN Err("LimitExceeded")
        ELSE IF ~context.ok THEN context
        ELSE IF QueryError(input.query) # None THEN Err(QueryError(input.query))
        ELSE IF ~found.ok THEN found
        ELSE Ok(serialize_records(found.value))

status_json(gate) ==
    IF ~ObservabilityAuthorize(gate).ok THEN ObservabilityAuthorize(gate)
    ELSE Ok(guarantees(local_guarantees, local_guarantees))

(* Trace, span and metric codes are not among the codes a tool may show. *)
tool_response(result) ==
    IF result.ok THEN result
    ELSE IF public_code[result.error] \in {"invalid_trace_context", "invalid_span",
                                            "invalid_metric"}
      THEN Err("operation_failed")
    ELSE Err(public_code[result.error])

Answer(tool, gate, input, result) ==
    answer' = [tool |-> tool, gate |-> gate, input |-> input, result |-> result]

ObservabilityGate == GateOutcomes(ObservabilityTools)

TelemetryQuery(input, gate) ==
    /\ Answer("observability_telemetry_query", gate, input,
              tool_response(query_json(input, gate)))
    /\ UNCHANGED <<ring, meter>>

TelemetryStatus(gate) ==
    /\ Answer("observability_telemetry_status", gate, <<>>,
              tool_response(status_json(gate)))
    /\ UNCHANGED <<ring, meter>>

(* TelemetryService::emit, called by another brick; now is 0 when the clock *)
(* fails.                                                                  *)
Emit(tenant, event, now) ==
    LET envelope == [tenant_id |-> tenant, timestamp |-> now, event |-> event]
        error == FirstOf(<<Refuse(now = 0, "AdapterFailure"), EmitError(envelope)>>)
    IN  /\ Len(accepted) < MaxAccepted
        /\ IF error = None THEN Push(envelope) ELSE UNCHANGED ring
        /\ Answer("emit", <<>>, envelope, IF error = None THEN Ok(None) ELSE Err(error))
        /\ UNCHANGED meter

(* OpenTelemetryLogsSink::emit: an event that is not enabled is dropped and *)
(* reported as emitted; what leaves is the metadata.                       *)
OtelLog(envelope, enabled) ==
    LET event == envelope.event
    IN  IF validate_envelope(envelope) # None THEN Err(validate_envelope(envelope))
        ELSE IF ~enabled THEN Ok(<<>>)
        ELSE Ok(<<[timestamp |-> envelope.timestamp, severity |-> Severity[event.severity],
                   name |-> event.name, target |-> event.target]>>)

Log(tenant, event, now, enabled) ==
    LET envelope == [tenant_id |-> tenant, timestamp |-> now, event |-> event]
    IN  /\ Answer("log", <<>>, envelope, OtelLog(envelope, enabled))
        /\ UNCHANGED <<ring, meter>>

(**************************** metrics and spans ***************************)

(* A cache that is keyed by the name and never compares the kind. *)
instrument_for_AnyKind(name, kind, unit) ==
    IF name \in DOMAIN instruments THEN Ok([instruments[name] EXCEPT !.kind = kind])
    ELSE Ok([kind |-> kind, unit |-> unit])

(* OpenTelemetryMetricSink::instrument_for *)
instrument_for(name, kind, unit) ==
    IF name \in DOMAIN instruments
      THEN IF instruments[name].kind = kind THEN Ok(instruments[name]) ELSE Err("InvalidMetric")
    ELSE Ok([kind |-> kind, unit |-> unit])

(* OpenTelemetryMetricSink::emit, up to the unlock of the cache. *)
EmitMetric(e, tenant, metric) ==
    LET handle == instrument_for(metric.name, metric.kind, metric.unit)
        error == FirstOf(<<validate_tenant_id(tenant), validate_metric(metric)>>)
    IN  /\ handles[e] = <<>>
        /\ IF error # None \/ ~handle.ok
             THEN UNCHANGED <<instruments, handles>>
             ELSE /\ instruments' = [n \in DOMAIN instruments \cup {metric.name} |->
                                       IF n = metric.name THEN handle.value ELSE instruments[n]]
                  /\ handles' = [handles EXCEPT ![e] =
                                   <<[name |-> metric.name, through |-> handle.value]>>]
        /\ UNCHANGED <<ring, points, answer>>

(* Counter::add, Gauge::record or Histogram::record on the handle. *)
RecordPoint(e) ==
    /\ handles[e] # <<>>
    /\ points' = points \cup {Head(handles[e])}
    /\ handles' = [handles EXCEPT ![e] = <<>>]
    /\ UNCHANGED <<ring, instruments, answer>>

(* An inbound request whose context is extracted, carried by a span of this *)
(* process, and injected into an outbound one.                             *)
Hop(headers, span, exported) ==
    LET context == extract(headers.traceparent, headers.trace_state, headers.baggage)
    IN  /\ Answer("hop", <<>>, headers,
             IF ~context.ok THEN context
             ELSE Ok([context |-> context.value, outbound |-> inject(context.value),
                      span |-> EmitSpan(headers.tenant, [context |-> context.value] @@ span,
                                        exported)]))
        /\ UNCHANGED <<ring, meter>>

TelemetryInit ==
    /\ next_sequence = 1 /\ total_events = 0 /\ tenants = <<>> /\ accepted = <<>>
    /\ instruments = Empty /\ handles = [e \in Emitters |-> <<>>] /\ points = {}
    /\ answer = [tool |-> None, result |-> Err(None)]

=============================================================================
