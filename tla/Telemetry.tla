----------------------------- MODULE Telemetry -----------------------------
(***************************************************************************)
(* The model of the observability brick and its validation.  A text is a   *)
(* record of what it says and its length in bytes; a label is well formed  *)
(* unless it says Malformed.  Maps are functions, whose keys are ordered   *)
(* as what they say is.  A validator returns the error or None.            *)
(***************************************************************************)
EXTENDS Policy, FiniteSetsExt

CONSTANTS
    Malformed,              \* a label or a tenant outside the character set
    MAX_IDENTIFIER_BYTES, MAX_BODY_BYTES, MAX_ATTRIBUTES, MAX_ATTRIBUTE_VALUE_BYTES,
    MAX_EVENT_BYTES, MAX_QUERY_LIMIT, MAX_METRIC_UNIT_BYTES, MAX_METRIC_BYTES,
    MAX_SPAN_BYTES, MAX_TRACESTATE_BYTES, MAX_BAGGAGE_ENTRIES, MAX_BAGGAGE_VALUE_BYTES

None == "none"

Text(says, bytes) == [says |-> says, bytes |-> bytes]

(* Severity, in its order. *)
Severity == <<"trace", "debug", "info", "warn", "error">>

(* MetricKind *)
MetricKind == {"Counter", "Gauge", "Histogram"}

(* The first error along a map, whose entries are visited in key order. *)
FirstError(map, ErrorOf(_, _)) ==
    LET keys == SetToSortSeq(DOMAIN map, LAMBDA a, b : a.says < b.says)
        wrong == SelectSeq(keys, LAMBDA k : ErrorOf(k, map[k]) # None)
    IN  IF wrong = <<>> THEN None ELSE ErrorOf(wrong[1], map[wrong[1]])

BytesOf(map) == MapThenSumSet(LAMBDA k : k.bytes + map[k].bytes, DOMAIN map)

(* The validators run one after the other: the first error is the result. *)
FirstOf(errors) ==
    LET wrong == SelectSeq(errors, LAMBDA e : e # None)
    IN  IF wrong = <<>> THEN None ELSE wrong[1]

Refuse(condition, error) == IF condition THEN error ELSE None

validate_label(value) ==
    value.bytes \in 1 .. MAX_IDENTIFIER_BYTES /\ value.says # Malformed

validate_tenant_id(value) == Refuse(value = Malformed, "InvalidId")

validate_event_name(value) == Refuse(~validate_label(value), "InvalidEvent")
validate_event_target(value) == Refuse(~validate_label(value), "InvalidEvent")
validate_attribute_key(value) == Refuse(~validate_label(value), "InvalidEvent")

(* The attributes of an event, a span or a metric, with the error each of   *)
(* them has for a malformed key.                                           *)
validate_attributes(attributes, invalid) ==
    FirstError(attributes, LAMBDA key, value :
        IF validate_attribute_key(key) # None THEN invalid
        ELSE Refuse(value.bytes > MAX_ATTRIBUTE_VALUE_BYTES, "LimitExceeded"))

event_size(event) ==
    event.name.bytes + event.target.bytes + event.body + BytesOf(event.attributes)

validate_event(event) ==
    FirstOf(<<
      validate_event_name(event.name), validate_event_target(event.target),
      Refuse(\/ event.body > MAX_BODY_BYTES
             \/ Cardinality(DOMAIN event.attributes) > MAX_ATTRIBUTES, "LimitExceeded"),
      validate_attributes(event.attributes, "InvalidEvent"),
      Refuse(event_size(event) > MAX_EVENT_BYTES, "LimitExceeded")>>)

validate_envelope(envelope) ==
    FirstOf(<<validate_tenant_id(envelope.tenant_id), validate_event(envelope.event)>>)

validate_record(record) ==
    FirstOf(<<Refuse(record.sequence = 0, "InvalidEvent"), validate_envelope(record.envelope)>>)

(* since, until, minimum_severity, event_name and target are Options. *)
validate_query(query, maximum_limit) ==
    FirstOf(<<
      Refuse(query.limit = 0, "InvalidQuery"),
      Refuse(query.limit > maximum_limit, "LimitExceeded"),
      Refuse(/\ query.since # <<>> /\ query.until # <<>>
             /\ Head(query.since) >= Head(query.until), "InvalidQuery"),
      Refuse(\E name \in ToSet(query.event_name) : validate_event_name(name) # None,
             "InvalidQuery"),
      Refuse(\E target \in ToSet(query.target) : validate_event_target(target) # None,
             "InvalidQuery")>>)

record_matches(record, query) ==
    LET envelope == record.envelope
    IN  /\ \A since \in ToSet(query.since) : envelope.timestamp >= since
        /\ \A until \in ToSet(query.until) : envelope.timestamp < until
        /\ \A severity \in ToSet(query.minimum_severity) : envelope.event.severity >= severity
        /\ \A name \in ToSet(query.event_name) : envelope.event.name = name
        /\ \A target \in ToSet(query.target) : envelope.event.target = target

(* A baggage value says whether it is clean of control bytes and delimiters *)
(* and how many bytes of it are surrounding blanks.                        *)
validate_trace_context(context) ==
    FirstOf(<<
      Refuse(\E s \in ToSet(context.trace_state) : s.bytes > MAX_TRACESTATE_BYTES,
             "LimitExceeded"),
      Refuse(\E s \in ToSet(context.trace_state) : ~s.clean, "InvalidTraceContext"),
      Refuse(Cardinality(DOMAIN context.baggage) > MAX_BAGGAGE_ENTRIES, "LimitExceeded"),
      FirstError(context.baggage, LAMBDA key, value :
        FirstOf(<<Refuse(~validate_label(key), "InvalidTraceContext"),
                  Refuse(value.bytes > MAX_BAGGAGE_VALUE_BYTES, "LimitExceeded"),
                  Refuse(~value.clean, "InvalidTraceContext")>>))>>)

validate_span(span) ==
    FirstOf(<<
      Refuse(validate_event_name(span.name) # None, "InvalidSpan"),
      Refuse(validate_event_target(span.target) # None, "InvalidSpan"),
      Refuse(span.end < span.start, "InvalidSpan"),
      Refuse(Cardinality(DOMAIN span.attributes) > MAX_ATTRIBUTES, "LimitExceeded"),
      validate_attributes(span.attributes, "InvalidSpan"),
      Refuse(span.name.bytes + span.target.bytes + BytesOf(span.attributes) > MAX_SPAN_BYTES,
             "LimitExceeded")>>)

(* unit is an Option of its length. *)
validate_metric(metric) ==
    LET unit == IF metric.unit = <<>> THEN 0 ELSE Head(metric.unit)
    IN  FirstOf(<<
          Refuse(validate_event_name(metric.name) # None, "InvalidMetric"),
          Refuse(~metric.finite, "InvalidMetric"),
          Refuse(unit > MAX_METRIC_UNIT_BYTES, "LimitExceeded"),
          Refuse(Cardinality(DOMAIN metric.attributes) > MAX_ATTRIBUTES, "LimitExceeded"),
          validate_attributes(metric.attributes, "InvalidMetric"),
          Refuse(metric.name.bytes + unit + BytesOf(metric.attributes) > MAX_METRIC_BYTES,
                 "LimitExceeded")>>)

(* ObservabilityError::public_code, as the tools spell it. *)
public_code ==
    [error \in {"InvalidId", "InvalidEvent", "InvalidQuery", "InvalidConfiguration",
                "InvalidTraceContext", "InvalidSpan", "InvalidMetric", "LimitExceeded",
                "AdapterFailure"} |->
       CASE error = "InvalidId" -> "invalid_id"
         [] error = "InvalidEvent" -> "invalid_event"
         [] error = "InvalidQuery" -> "invalid_query"
         [] error = "InvalidConfiguration" -> "invalid_configuration"
         [] error = "InvalidTraceContext" -> "invalid_trace_context"
         [] error = "InvalidSpan" -> "invalid_span"
         [] error = "InvalidMetric" -> "invalid_metric"
         [] error = "LimitExceeded" -> "limit_exceeded"
         [] error = "AdapterFailure" -> "operation_failed"]

-----------------------------------------------------------------------------
(* TelemetryGuarantees of the local ring and of the OpenTelemetry sinks. *)
local_guarantees ==
    [durable_across_restart |-> FALSE, visible_across_processes |-> FALSE,
     delivery_confirmed |-> TRUE, queryable |-> TRUE, may_block |-> FALSE]

(* TelemetryService::guarantees, of a sink and a reader. *)
guarantees(sink, reader) ==
    [durable_across_restart |-> sink.durable_across_restart /\ reader.durable_across_restart,
     visible_across_processes |->
       sink.visible_across_processes /\ reader.visible_across_processes,
     delivery_confirmed |-> sink.delivery_confirmed,
     queryable |-> reader.queryable,
     may_block |-> sink.may_block]

(***************************************************************************)
(* Trace contexts between processes: the headers traceparent, tracestate   *)
(* and baggage, parsed and formatted again at every hop.                   *)
(*                                                                         *)
(* A traceparent is the sequence of its fields, each with its number of    *)
(* digits, whether they are all lower-case hexadecimal, and the number     *)
(* they write.  A baggage header is the sequence of its members: a key, a  *)
(* value behind an equals sign (an Option) and the bytes of properties     *)
(* behind a semicolon.  Texts have surrounding blanks, counted by pad, in  *)
(* addition to their own bytes.                                            *)
(***************************************************************************)

Empty == [k \in {} |-> k]

Hex(digits, number) == [digits |-> digits, lower |-> TRUE, number |-> number]

SUPPORTED_VERSION == Hex(2, 0)

MAX_BAGGAGE_MEMBER_BYTES == MAX_IDENTIFIER_BYTES + 1 + MAX_BAGGAGE_VALUE_BYTES + 1

(* A decoder that also reads upper-case digits. *)
decode_hex_array_AnyCase(n, field) ==
    IF field.digits # 2 * n THEN Err("InvalidTraceContext") ELSE Ok(field.number)

(* decode_hex_array of n bytes, and hex_digit, which admits no upper case. *)
decode_hex_array(n, field) ==
    IF field.digits # 2 * n \/ ~field.lower THEN Err("InvalidTraceContext")
    ELSE Ok(field.number)

encode_hex(n, number) == Hex(2 * n, number)

(* TraceId::new and SpanId::new refuse the identifier of zeros. *)
NewId(decoded) ==
    IF decoded.ok /\ decoded.value = 0 THEN Err("InvalidTraceContext") ELSE decoded

parse_traceparent(value) ==
    LET trace == NewId(decode_hex_array(16, value[2]))
        span == NewId(decode_hex_array(8, value[3]))
        flags == decode_hex_array(1, value[4])
    IN  IF value[1] # SUPPORTED_VERSION \/ Len(value) # 4 THEN Err("InvalidTraceContext")
        ELSE IF ~(trace.ok /\ span.ok /\ flags.ok) THEN Err("InvalidTraceContext")
        ELSE Ok([trace_id |-> trace.value, span_id |-> span.value, flags |-> flags.value])

format_traceparent(trace_id, span_id, flags) ==
    <<SUPPORTED_VERSION, encode_hex(16, trace_id), encode_hex(8, span_id), encode_hex(1, flags)>>

parse_trace_state(value) ==
    IF value.bytes > MAX_TRACESTATE_BYTES THEN Err("LimitExceeded") ELSE Ok(value)

(* A baggage text without its surrounding blanks. *)
Trimmed(text) == [text EXCEPT !.pad = 0]

MemberBytes(member) ==
    LET TextBytes(text) == text.bytes + text.pad
    IN  TextBytes(member.key) + member.properties
          + (IF member.value = <<>> THEN 0 ELSE 1 + TextBytes(Head(member.value)))

(* The length of a header: its members and the commas between them. *)
HeaderBytes(header) == FoldLeft(LAMBDA n, m : n + MemberBytes(m), Len(header) - 1, header)

(* Properties are discarded, empty members skipped, and the last of two     *)
(* values of one key is kept.                                              *)
parse_baggage(header) ==
    LET Insert(parsed, member) ==
          LET key == Trimmed(member.key)
          IN  IF ~parsed.ok THEN parsed
              ELSE IF member.value = <<>> /\ key.bytes = 0 THEN parsed
              ELSE IF member.value = <<>> \/ key.bytes = 0 THEN Err("InvalidTraceContext")
              ELSE IF Cardinality(DOMAIN parsed.value) >= MAX_BAGGAGE_ENTRIES
                THEN Err("LimitExceeded")
              ELSE Ok([k \in DOMAIN parsed.value \cup {key} |->
                         IF k = key THEN Trimmed(Head(member.value)) ELSE parsed.value[k]])
    IN  IF HeaderBytes(header) > MAX_BAGGAGE_ENTRIES * MAX_BAGGAGE_MEMBER_BYTES
          THEN Err("LimitExceeded")
        ELSE FoldLeft(Insert, Ok(Empty), header)

format_baggage(baggage) ==
    LET keys == SetToSortSeq(DOMAIN baggage, LAMBDA a, b : a.says < b.says)
    IN  [i \in DOMAIN keys |->
          [key |-> keys[i], value |-> <<baggage[keys[i]]>>, properties |-> 0]]

(* TraceContextV1::new *)
NewTraceContext(parent, trace_state, baggage) ==
    LET context == [trace_id |-> parent.trace_id, span_id |-> parent.span_id,
                    trace_flags |-> parent.flags, trace_state |-> trace_state,
                    baggage |-> baggage]
    IN  IF validate_trace_context(context) = None THEN Ok(context)
        ELSE Err(validate_trace_context(context))

(* trace_state and baggage are Options. *)
extract(traceparent, trace_state, baggage) ==
    LET parent == parse_traceparent(traceparent)
        state == parse_trace_state(Head(trace_state))
        parsed == parse_baggage(Head(baggage))
    IN  IF ~parent.ok THEN parent
        ELSE IF trace_state # <<>> /\ ~state.ok THEN state
        ELSE IF baggage # <<>> /\ ~parsed.ok THEN parsed
        ELSE NewTraceContext(parent.value, trace_state,
                             IF baggage = <<>> THEN Empty ELSE parsed.value)

inject(context) ==
    [traceparent |-> format_traceparent(context.trace_id, context.span_id, context.trace_flags),
     trace_state |-> context.trace_state,
     baggage |-> IF DOMAIN context.baggage = {} THEN <<>>
                 ELSE <<format_baggage(context.baggage)>>]

-----------------------------------------------------------------------------
(* The span adapter of OpenTelemetry.  Only a tracestate in the format of   *)
(* its parser leaves the process; the tenant and the attributes never do.  *)
otel_span_context(context) ==
    [trace_id |-> context.trace_id, span_id |-> context.span_id,
     flags |-> context.trace_flags,
     trace_state |-> SelectSeq(context.trace_state, LAMBDA s : s.parses)]

otel_status(status) == IF status = "Error" THEN [error |-> 0] ELSE [status |-> status]

span_data(span) ==
    [context |-> otel_span_context(span.context), parent |-> span.parent_span_id,
     name |-> span.name, start |-> span.start, end |-> span.end,
     status |-> otel_status(span.status)]

(* OpenTelemetrySpanSink::emit; exported says how the export ended. *)
EmitSpan(tenant, span, exported) ==
    LET error == FirstOf(<<validate_tenant_id(tenant), validate_span(span)>>)
    IN  IF error # None THEN Err(error)
        ELSE IF exported THEN Ok(span_data(span)) ELSE Err("AdapterFailure")

=============================================================================
