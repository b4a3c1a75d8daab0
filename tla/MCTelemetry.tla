---------------------------- MODULE MCTelemetry ----------------------------
(***************************************************************************)
(* Two tenants, each with a sandbox, two concurrent tool calls, and a ring *)
(* of which one tenant can take everything.  Texts and headers reach every *)
(* ceiling; the ceilings are scaled down.  The metric adapter shares no    *)
(* state with the rest, and is explored on its own.                        *)
(***************************************************************************)
EXTENDS SandboxService

MCContexts == {Context("t1", "p1"), Context("t2", "p1")}

Entry(tenant, capability) ==
    <<[tenant |-> tenant, principal |-> "p1", capability |-> capability],
      [tools |-> <<1>>, memory |-> FALSE, knowledge |-> FALSE, sandbox |-> TRUE,
       communication |-> FALSE]>>
MCGrants ==
    <<Entry("t1", "sandbox_start"), Entry("t1", "sandbox_execute"), Entry("t1", "sandbox_stop"),
      Entry("t2", "sandbox_start"), Entry("t2", "sandbox_status"),
      Entry("t1", "observability_telemetry_query"), Entry("t2", "observability_telemetry_query"),
      Entry("t1", "observability_telemetry_status")>>

MCConfig == [version |-> 1, sink |-> [type |-> "local", max_events_per_tenant |-> 2],
             max_query_limit |-> 2]

(******************************** events **********************************)
Label == Text("brick", 5)
Event(over) ==
    over @@ [name |-> Label, target |-> Label, severity |-> 1, body |-> 0, attributes |-> Empty]
Attribute(key, key_bytes, bytes) == Text(key, key_bytes) :> Text("v", bytes)
MCEvents ==
    {Event(<<>>),
     Event([name |-> Text("brick", 15)]), Event([target |-> Text(Malformed, 5)]),
     Event([body |-> 4]), Event([attributes |-> Attribute(1, 9, 1) @@ Attribute(2, 15, 1)]),
     Event([attributes |-> Attribute(1, 9, 41)]),
     Event([body |-> 3, attributes |-> Attribute(1, 14, 40) @@ Attribute(2, 14, 40)])}

All(limit) ==
    [since |-> <<>>, until |-> <<>>, minimum_severity |-> <<>>, event_name |-> <<>>,
     target |-> <<>>, limit |-> limit]
MCQueries ==
    {[bytes |-> 1, query |-> q] : q \in
       {All(0), All(1), All(2), All(3), [All(2) EXCEPT !.since = <<2>>],
        [All(2) EXCEPT !.until = <<2>>], [All(2) EXCEPT !.since = <<2>>, !.until = <<2>>],
        [All(2) EXCEPT !.minimum_severity = <<2>>], [All(2) EXCEPT !.event_name = <<Label>>],
        [All(2) EXCEPT !.target = <<Text(Malformed, 1)>>]}}
    \cup {[bytes |-> 2, query |-> All(1)]}

(*************************** metrics and headers **************************)
Metric(over) ==
    over @@ [name |-> Label, kind |-> "Counter", finite |-> TRUE, unit |-> <<>>,
             attributes |-> Empty]
MCMetrics ==
    {Metric([kind |-> k, unit |-> u]) : k \in MetricKind, u \in {<<>>, <<1>>}}
    \cup {Metric([finite |-> FALSE]), Metric([unit |-> <<4>>]),
          Metric([name |-> Text(Malformed, 1)]),
          Metric([attributes |-> Attribute(1, 9, 1) @@ Attribute(2, 9, 41)]),
          Metric([attributes |-> [k \in {Text(i, 1) : i \in 1 .. 4} |-> Text("v", 0)]])}

Parent(version, trace, span, flags) == <<version, trace, span, flags>>
Parents ==
    {Parent(Hex(2, 0), Hex(32, 7), Hex(16, 5), Hex(2, 1)),
     Parent(Hex(2, 1), Hex(32, 7), Hex(16, 5), Hex(2, 1)),
     Parent(Hex(2, 0), Hex(32, 0), Hex(16, 5), Hex(2, 1)),
     Parent(Hex(2, 0), Hex(32, 7), Hex(14, 5), Hex(2, 0)),
     Parent(Hex(2, 0), [Hex(32, 7) EXCEPT !.lower = FALSE], Hex(16, 5), Hex(2, 0)),
     Append(Parent(Hex(2, 0), Hex(32, 7), Hex(16, 5), Hex(2, 1)), Hex(2, 0))}
BaggageText(says, bytes, pad) == [says |-> says, bytes |-> bytes, pad |-> pad, clean |-> TRUE]
Members ==
    {[key |-> k, value |-> v, properties |-> p] :
       k \in {BaggageText(1, 14, 0), BaggageText(2, 14, 1), BaggageText(2, 0, 0)},
       v \in {<<>>, <<BaggageText("v", 5, 0)>>, <<BaggageText("v", 1, 1)>>,
              <<[BaggageText("v", 1, 0) EXCEPT !.clean = FALSE]>>},
       p \in {0, 3}}
Baggages == {<<>>} \cup {<<<<m>>>> : m \in Members} \cup {<<<<m, n>>>> : m, n \in Members}
States == {<<>>} \cup {<<[says |-> "s", bytes |-> b, clean |-> c, parses |-> p]>> :
                         b \in {3, 4}, c \in BOOLEAN, p \in BOOLEAN}
MCHeaders ==
    {[tenant |-> "t1", traceparent |-> p, trace_state |-> s, baggage |-> <<>>] :
       p \in Parents, s \in States}
    \cup {[tenant |-> "t1", traceparent |-> CHOOSE p \in Parents : parse_traceparent(p).ok,
           trace_state |-> <<>>, baggage |-> b] : b \in Baggages}
Span(over) ==
    over @@ [name |-> Label, target |-> Label, parent_span_id |-> <<>>, start |-> 1, end |-> 2,
             status |-> "Ok", attributes |-> Empty]
MCSpans == {Span([status |-> "Error"]), Span([end |-> 0]), Span([name |-> Text(Malformed, 1)])}

(******************************** sandboxes *******************************)
Plain(bytes) == [bytes |-> bytes, clean |-> TRUE, relative |-> TRUE]
Command(over) ==
    over @@ [program |-> Plain(1), arguments |-> <<>>, directory |-> Plain(0), timeout |-> 1]
MCCommands ==
    {Command(<<>>), Command([program |-> Plain(3)]), Command([program |-> Plain(0)]),
     Command([arguments |-> <<Plain(2), Plain(2)>>]), Command([timeout |-> 0]),
     Command([directory |-> [Plain(1) EXCEPT !.relative = FALSE]])}

Inputs(tool) ==
    LET Input(bytes, id, command) == [bytes |-> bytes, id |-> id, command |-> command]
    IN  {Input(2, "t1", Command(<<>>)), Input(1, Malformed, Command(<<>>))}
        \cup {Input(1, "t1", c) : c \in Commands}
        \cup {Input(1, id, Command(<<>>)) : id \in SandboxTenants}
InputsOf ==
    [tool \in SandboxTools |->
       {i \in Inputs(tool) : /\ tool # "sandbox_execute" => i.command = Command(<<>>)
                             /\ tool = "sandbox_start" => i.id # "t2"}]

Printed(tool) == IF tool = "sandbox_execute" THEN Outputs ELSE {0}

(* The clock fails, or moves on with every second event. *)
Readings == {0, 1 + Len(accepted) \div 2}

MeterAtRest == instruments = Empty
RingAtRest ==
    accepted = <<>> /\ performed = <<>> /\ \A t \in SandboxTenants : sandboxes[t] = "absent"

(* What changes nothing but the answer is tried only in some of the states  *)
(* in which it would be answered alike.                                    *)
Idle == \A c \in Callers : calls[c] = <<>>

CallNext ==
    \E c \in Callers, tool \in SandboxTools : \E input \in InputsOf[tool] :
      \E gate \in GateFor(SandboxGate, tool) :
        \/ RingAtRest /\ RefuseCall(c, tool, input, gate)
        \/ \E printed \in Printed(tool) : Perform(c, tool, input, gate, printed)
        \/ \E error \in SandboxErrors :
             (accepted = <<>> \/ error = "outcome_unknown") /\ Fail(c, tool, input, gate, error)

Next ==
    \/ /\ MeterAtRest
       /\ \/ CallNext
          \/ \E c \in Callers, now \in Readings : Finish(c, now)
          \/ \E t \in SandboxTenants : Exit(t)
    \/ /\ MeterAtRest /\ UNCHANGED adapter
       /\ \/ \E t \in {"t1", Malformed}, e \in Events, now \in Readings :
               (RingAtRest \/ e = Event(<<>>)) /\ Emit(t, e, now)
          \/ \E input \in Queries : Idle /\
               \E gate \in GateFor(ObservabilityGate, "observability_telemetry_query") :
                 (gate.ok \/ RingAtRest) /\ TelemetryQuery(input, gate)
          \/ RingAtRest /\ \E gate \in GateFor(ObservabilityGate, "observability_telemetry_status") :
               TelemetryStatus(gate)
          \/ RingAtRest /\ \E e \in Events, enabled \in BOOLEAN : Log("t1", e, 1, enabled)
    \/ /\ RingAtRest /\ UNCHANGED adapter
       /\ \/ \E e \in Emitters, t \in {"t1", Malformed}, m \in Metrics : EmitMetric(e, t, m)
          \/ \E e \in Emitters : RecordPoint(e)
    \/ /\ RingAtRest /\ MeterAtRest
       /\ \E h \in Headers, s \in Spans, exported \in BOOLEAN : Hop(h, s, exported)
       /\ UNCHANGED adapter

Spec == Init /\ [][Next]_vars

(* Every property of an answer is about a step, and no action reads it. *)
View == <<ring, meter, adapter>>

-----------------------------------------------------------------------------
(* The newest records of a tenant that the ring may hold. *)
Newest(tenant) ==
    LET own == SelectSeq(accepted, LAMBDA r : r.envelope.tenant_id = tenant)
        count == Min({Len(own), service.value.capacity_per_tenant})
    IN  SubSeq(own, Len(own) - count + 1, Len(own))

(* LocalTelemetry holds, for each tenant, exactly the newest events it      *)
(* accepted, under gapless sequence numbers; its counter is the number of   *)
(* records it holds and never exceeds the total, although one tenant's      *)
(* records are replaced while another's are refused.                        *)
RingKeepsNewest ==
    /\ next_sequence = Len(accepted) + 1
    /\ \A i \in DOMAIN accepted : accepted[i].sequence = i
    /\ \A t \in SandboxTenants : RecordsOf(t) = Newest(t)
    /\ total_events = MapThenSumSet(LAMBDA t : Len(tenants[t]), DOMAIN tenants)
    /\ total_events <= MAX_LOCAL_EVENTS_TOTAL

(* A sandbox event in the ring tells of an operation that the adapter       *)
(* performed for that tenant, under the tenant's own grant, with the        *)
(* sandbox and the status of that very call, and at most once, however the  *)
(* calls interleave; a call that failed leaves no event.                    *)
EventsFollowEffects ==
    LET Sandbox == {i \in DOMAIN accepted : accepted[i].envelope.event.target.says = "sandbox"}
        Said(i, key) == {accepted[i].envelope.event.attributes[k].says :
                           k \in {l \in DOMAIN accepted[i].envelope.event.attributes : l.says = key}}
    IN  /\ \A i \in Sandbox : \E n \in DOMAIN performed :
             LET e == accepted[i].envelope
                 p == performed[n]
             IN  /\ Said(i, 1) = {n} /\ Said(i, 2) = {p.id} /\ e.tenant_id = p.tenant
                 /\ e.event.name.says = operation_name[p.tool]
                 /\ p.tool = "sandbox_status" => Said(i, 3) = {p.after}
                 /\ p.id = p.tenant
                 /\ <<Context(p.tenant, "p1"), p.tool>> \in Allowed
        /\ \A i, j \in Sandbox : Said(i, 1) = Said(j, 1) => i = j

(* What an answer of the query tool says about the ring. *)
HonestPage ==
    LET page == answer.result.value
        query == answer.input.query
        context == answer.gate.value.context
        matching == SelectSeq(Reverse(Newest(context.tenant)),
                              LAMBDA r : record_matches(r, query))
        due == SubSeq(matching, 1, Min({query.limit, Len(matching)}))
    IN  answer.tool = "observability_telemetry_query" /\ answer.result.ok =>
          /\ <<context, answer.tool>> \in Allowed
          /\ Len(page.records) <= Len(due)
          /\ page.truncated <=> Len(page.records) < Len(due)
          /\ \A i \in DOMAIN page.records : page.records[i].sequence = due[i].sequence

(* A page of the query tool is the newest matching records of the caller's  *)
(* own tenant, in order and without a gap, as many as the limit and the     *)
(* response admit; it says truncated exactly when a record within the limit *)
(* is missing.                                                              *)
PagesAreTruthful == [][HonestPage']_vars

(* All points of a metric are recorded through one kind of instrument with  *)
(* the unit it was created with, whatever emitters do between the lookup    *)
(* and the recording.                                                       *)
OneInstrumentPerName ==
    \A p, q \in points : p.name = q.name => p.through = q.through

(* What extract accepts survives any number of hops: inject passes the      *)
(* traceparent and the tracestate on as they came, and the headers it       *)
(* formats are accepted again and mean the same context, although parsing   *)
(* trims the baggage and drops its properties.                              *)
ContextSurvivesHops ==
    [][answer'.tool = "hop" /\ answer'.result.ok =>
         LET in == answer'.input
             out == answer'.result.value.outbound
         IN  /\ out.traceparent = in.traceparent /\ out.trace_state = in.trace_state
             /\ extract(out.traceparent, out.trace_state, out.baggage)
                  = Ok(answer'.result.value.context)]_vars

=============================================================================
