------------------------- MODULE EvaluationService -------------------------
(***************************************************************************)
(* The evaluation service: it reads the evidence of a finished run, awaits *)
(* an executor and stores the result under its logical key; with the       *)
(* reader of workflow evidence, the two executors, the in-memory store and *)
(* the MCP tools.  An evaluation is two steps, because the snapshot is     *)
(* read before the await of the executor and the result stored after it.   *)
(*                                                                         *)
(* The workflow store is the environment: a run starts and ends once, with *)
(* the transitions the workflow runner builds.                             *)
(***************************************************************************)
EXTENDS Evaluation, PolicyGate

CONSTANTS
    EvaluationConfig,       \* EvaluationConfigV1 of the deployment
    RunIds,                 \* run ids the workflow runner derives
    TenantOf,               \* the tenant a run belongs to
    Outputs                 \* what an agent may answer

VARIABLES
    runs,                   \* the workflow store, by run id
    results                 \* InMemoryEvaluationStore, by logical key

(* EvaluationSettings::try_from, whose bounds with_capacities repeats. *)
EvaluationSettings(config) ==
    IF /\ config.max_results_per_tenant \in 1 .. MAX_RESULTS_PER_TENANT
       /\ config.max_results_global \in 1 .. MAX_RESULTS_GLOBAL
       /\ config.max_results_per_tenant <= config.max_results_global
      THEN Ok(config) ELSE Err("LimitExceeded")

ASSUME EvaluationAssumption == EvaluationSettings(EvaluationConfig).ok /\ resolver.ok

(************************* the runs of the workflow ***********************)

Event(sequence, kind, data) == [sequence |-> sequence, kind |-> kind, data |-> data]

(* The run after execute has begun its attempt. *)
Begun(id) ==
    [tenant |-> TenantOf[id], id |-> id, status |-> "running", terminal_reason |-> <<>>,
     revision |-> 1,
     attempt |-> <<[status |-> "running", scope |-> <<>>, result |-> <<>>]>>,
     events |-> <<Event(1, "started", "")>>]

(* finish_success: the output is the last piece of evidence. *)
Succeeded(run, output) ==
    [run EXCEPT !.status = "succeeded", !.terminal_reason = <<"completed">>, !.revision = @ + 1,
                !.attempt = <<[status |-> "succeeded", scope |-> <<digest("scope")>>,
                               result |-> <<output>>]>>,
                !.events = Append(@, Event(Len(@) + 1, "result", output))]

(* finish_failure and cancel keep what the attempt had, and it had nothing. *)
Ended(run, status, reason, data) ==
    [run EXCEPT !.status = status, !.terminal_reason = <<reason>>, !.revision = @ + 1,
                !.attempt = <<[Head(@) EXCEPT !.status = status]>>,
                !.events = Append(@, Event(Len(@) + 1, reason, data))]

(* StrictEvidenceReader::get_terminal, an Option or an error. *)
get_terminal(tenant_id, run_id) ==
    LET run == runs[run_id]
        attempt == Head(run.attempt)
    IN  IF ~is_logical_id(tenant_id) \/ ~is_logical_id(run_id) THEN Err("InvalidRequest")
        ELSE IF run_id \notin DOMAIN runs THEN Ok(<<>>)
        ELSE IF run.tenant # tenant_id \/ run.status \notin TerminalStatus THEN Ok(<<>>)
        ELSE IF run.attempt = <<>> THEN Err("MalformedEvidence")
        ELSE IF <<run.status, run.terminal_reason, attempt.status>> \notin
                  {<<"succeeded", <<"completed">>, "succeeded">>,
                   <<"failed", <<"invocation_failed">>, "failed">>,
                   <<"cancelled", <<"cancelled">>, "cancelled">>}
          THEN Err("MalformedEvidence")
        ELSE IF attempt.scope = <<>> \/ attempt.result = <<>> THEN Err("MalformedEvidence")
        ELSE Ok(<<[tenant_id |-> run.tenant, run_id |-> run.id, workflow_id |-> "w",
                   workflow_version |-> "v1", run_revision |-> run.revision,
                   terminal_status |-> run.status, terminal_reason |-> Head(run.terminal_reason),
                   attempt_id |-> "a", agent_id |-> "g",
                   capability_scope_digest |-> Head(attempt.scope),
                   output |-> Head(attempt.result), events |-> run.events]>>)

(******************************* executors ********************************)

(* Whether a criterion holds, the same arms in both executors. *)
Holds(criterion, snapshot) ==
    LET events == snapshot.events
    IN  CASE criterion.type = "exact_output" -> snapshot.output = criterion.expected
          [] criterion.type = "event_kind_count" ->
               Cardinality({i \in DOMAIN events : events[i].kind = criterion.kind})
                 = criterion.expected
          [] criterion.type = "event_data_equals" ->
               LET found == {i \in DOMAIN events : events[i].sequence = criterion.sequence}
               IN  found # {} /\ events[Min(found)].data = criterion.expected

Finding(index, word) == "criterion_" \o ToString(index) \o word

deterministic_assessment(definition, snapshot) ==
    LET criteria == definition.criteria
        findings == FlattenSeq([i \in DOMAIN criteria |->
                      IF Holds(criteria[i], snapshot) THEN <<>> ELSE <<Finding(i, "_failed")>>])
    IN  [verdict |-> IF findings = <<>> THEN "pass" ELSE "fail", findings |-> findings]

(* What a scorer of serdes-ai-evals answers becomes. *)
map_outcome(index, outcome) ==
    CASE outcome = "pass" -> [error |-> FALSE, finding |-> <<>>]
      [] outcome = "fail" -> [error |-> FALSE, finding |-> <<Finding(index, "_failed")>>]
      [] outcome \in {"skip", "error"} ->
           [error |-> TRUE, finding |-> <<Finding(index, "_error")>>]

(* An executor that counts the criteria from zero. *)
SerdesAssess_ZeroBased(definition, snapshot) ==
    LET criteria == definition.criteria
        Outcome(i) == IF Holds(criteria[i], snapshot) THEN "pass" ELSE "fail"
        findings == FlattenSeq([i \in DOMAIN criteria |->
                                  map_outcome(i - 1, Outcome(i)).finding])
    IN  [verdict |-> IF findings = <<>> THEN "pass" ELSE "fail", findings |-> findings]

(* SerdesAiEvalsExecutor::assess.  Its scorers compare as Holds does, and   *)
(* pass or fail.                                                           *)
SerdesAssess(definition, snapshot) ==
    LET criteria == definition.criteria
        Outcome(i) == IF Holds(criteria[i], snapshot) THEN "pass" ELSE "fail"
        mapped == [i \in DOMAIN criteria |-> map_outcome(i, Outcome(i))]
        findings == FlattenSeq([i \in DOMAIN criteria |-> mapped[i].finding])
    IN  [verdict |-> IF \E i \in DOMAIN criteria : mapped[i].error THEN "error"
                     ELSE IF findings = <<>> THEN "pass" ELSE "fail",
         findings |-> findings]

(******************************** results *********************************)

checked_request(tenant_id, run_id, definition) ==
    IF ~is_logical_id(tenant_id) \/ ~is_logical_id(run_id) THEN Err("InvalidRequest")
    ELSE validate_definition(definition)

request_key(tenant_id, run_id, definition, revision) ==
    [tenant_id |-> tenant_id, evaluator_id |-> definition.evaluator_id,
     evaluator_version |-> definition.evaluator_version,
     criterion_digest |-> definition_digest(definition), workflow_run_id |-> run_id,
     workflow_revision |-> revision]

Hashed(fields_) == [content_hash |-> result_digest(fields_)] @@ fields_

invalid_result(key, tenant_id, run_id, error) ==
    Hashed([logical_key |-> key, verdict |-> "error", findings |-> <<error_name(error)>>,
            evidence_digest |-> invalid_evidence_digest(tenant_id, run_id,
                                                        key.criterion_digest, error)])

build_result(key, snapshot, assessment) ==
    IF ~validate_assessment(assessment).ok THEN Err("AdapterFailure")
    ELSE Ok(Hashed([logical_key |-> key, verdict |-> assessment.verdict,
                    findings |-> assessment.findings,
                    evidence_digest |-> snapshot_digest(snapshot)]))

(* evaluate up to the await: an error, a finished result that says that the *)
(* evidence is invalid, or what the executor is asked to assess.           *)
Prepared(tenant_id, run_id, definition) ==
    LET checked == checked_request(tenant_id, run_id, definition)
        read == get_terminal(tenant_id, run_id)
        snapshot == Head(read.value)
        key == request_key(tenant_id, run_id, definition, snapshot.run_revision)
        bound == validate_and_bound_snapshot(snapshot)
    IN  IF ~checked.ok THEN checked
        ELSE IF ~read.ok THEN read
        ELSE IF read.value = <<>> THEN Err("NotFound")
        ELSE IF ~bound.ok
          THEN Ok([await |-> FALSE, result |-> invalid_result(key, tenant_id, run_id, bound.error)])
        ELSE IF snapshot.tenant_id # tenant_id \/ snapshot.run_id # run_id
          THEN Ok([await |-> FALSE,
                   result |-> invalid_result(key, tenant_id, run_id, "MalformedEvidence")])
        ELSE Ok([await |-> TRUE, key |-> key, snapshot |-> snapshot, definition |-> definition])

(* The synchronous evaluate of the crate. *)
evaluate(tenant_id, run_id, definition) ==
    LET prepared == Prepared(tenant_id, run_id, definition)
        work == prepared.value
    IN  IF ~prepared.ok THEN prepared
        ELSE IF ~work.await THEN Ok(work.result)
        ELSE build_result(work.key, work.snapshot,
                          deterministic_assessment(definition, work.snapshot))

TenantCount(store, tenant_id) == Cardinality({k \in DOMAIN store : k.tenant_id = tenant_id})

(* A store that is asked for room before it looks for the result. *)
create_or_match_RoomFirst(store, result) ==
    LET key == result.logical_key
        Answer(r, s) == [result |-> r, store |-> s]
    IN  IF ~validate_result(result).ok THEN Answer(validate_result(result), store)
        ELSE IF \/ Cardinality(DOMAIN store) >= EvaluationConfig.max_results_global
                \/ TenantCount(store, key.tenant_id) >= EvaluationConfig.max_results_per_tenant
          THEN Answer(Err("LimitExceeded"), store)
        ELSE IF key \in DOMAIN store
          THEN IF store[key].content_hash = result.content_hash
                 THEN Answer(Ok(<<store[key]>>), store) ELSE Answer(Ok(<<>>), store)
        ELSE Answer(Ok(<<result>>), key :> result @@ store)

(* Created and Existing are the result, Conflict is none. *)
create_or_match(store, result) ==
    LET key == result.logical_key
        Answer(r, s) == [result |-> r, store |-> s]
    IN  IF ~validate_result(result).ok THEN Answer(validate_result(result), store)
        ELSE IF key \in DOMAIN store
          THEN IF store[key].content_hash = result.content_hash
                 THEN Answer(Ok(<<store[key]>>), store) ELSE Answer(Ok(<<>>), store)
        ELSE IF \/ Cardinality(DOMAIN store) >= EvaluationConfig.max_results_global
                \/ TenantCount(store, key.tenant_id) >= EvaluationConfig.max_results_per_tenant
          THEN Answer(Err("LimitExceeded"), store)
        ELSE Answer(Ok(<<result>>), key :> result @@ store)

get_result(store, tenant_id, key) ==
    IF key.tenant_id = tenant_id /\ key \in DOMAIN store THEN <<store[key]>> ELSE <<>>

(****************************** the MCP tools ******************************)

CONSTANTS
    MaxRequestDto,          \* MAX_MCP_REQUEST_DTO_BYTES
    MaxResultBytes,         \* MAX_MCP_RESULT_BYTES
    MaxToolText,            \* MAX_MCP_TOOL_TEXT_BYTES
    JsonFrame               \* what JSON adds around the values of a result

EvaluationTools == {"evaluation_validate", "evaluation_evaluate", "evaluation_get"}

public_code(error) == IF error = "MalformedEvidence" THEN "operation_failed" ELSE error_name(error)

PublicErr(error) == Err(public_code(error))

(* A size is that of the encoding; the JSON around it adds a frame. *)
serialize(size) == IF size + JsonFrame > MaxToolText THEN Err("limit_exceeded") ELSE Ok(size)

result_json(result) ==
    LET size == Size(result_canonical_bytes(result))
    IN  IF size > MaxResultBytes \/ ~serialize(size).ok THEN Err("limit_exceeded") ELSE Ok(result)

(* resolve_and_authorize: the tenant, or what a refusal is called here. *)
resolve_and_authorize(gate) ==
    IF gate.ok THEN Ok(gate.value.context.tenant)
    ELSE IF gate.error = "denied" THEN Err("NotFound") ELSE Err("AdapterFailure")

(* The outcomes of the gate, computed once. *)
EvaluationGates == GateOutcomes(EvaluationTools)

validate_mcp_request(bytes) ==
    IF bytes > MaxRequestDto THEN Err("LimitExceeded") ELSE Ok(bytes)

KeyInput(input, tenant_id) ==
    [tenant_id |-> tenant_id, evaluator_id |-> input.evaluator_id,
     evaluator_version |-> input.evaluator_version, criterion_digest |-> input.criterion_digest,
     workflow_run_id |-> input.run_id, workflow_revision |-> input.workflow_revision]

validate_json(input, gate) ==
    LET tenant == resolve_and_authorize(gate)
        valid == validate_definition(input.definition)
    IN  IF ~validate_mcp_request(input.bytes).ok THEN PublicErr("LimitExceeded")
        ELSE IF ~tenant.ok THEN PublicErr(tenant.error)
        ELSE Ok(IF valid.ok THEN "valid" ELSE public_code(valid.error))

get_json(input, gate) ==
    LET tenant == resolve_and_authorize(gate)
        found == get_result(results, tenant.value, KeyInput(input, tenant.value))
    IN  IF ~validate_mcp_request(input.bytes).ok THEN PublicErr("LimitExceeded")
        ELSE IF ~tenant.ok THEN PublicErr(tenant.error)
        ELSE IF ~validate_logical_key(KeyInput(input, "tenant")).ok THEN PublicErr("InvalidRequest")
        ELSE IF found = <<>> THEN Err("not_found")
        ELSE result_json(Head(found))

validate_evaluate_input(run_id, definition) ==
    validate_logical_key(request_key("tenant", run_id, definition, 0))

(* evaluate_json up to the service: the tenant the call is for. *)
EvaluateChecks(input, gate) ==
    LET tenant == resolve_and_authorize(gate)
        valid == validate_definition(input.definition)
    IN  IF ~validate_mcp_request(input.bytes).ok THEN Err("LimitExceeded")
        ELSE IF ~tenant.ok THEN tenant
        ELSE IF ~valid.ok THEN valid
        ELSE IF ~validate_evaluate_input(input.run_id, input.definition).ok
          THEN Err("InvalidRequest")
        ELSE tenant

(* evaluate_json behind the service.  A conflict has no result. *)
AnswerStored(stored) ==
    IF ~stored.ok THEN PublicErr(stored.error)
    ELSE IF stored.value = <<>> THEN Err("conflict")
    ELSE result_json(Head(stored.value))

=============================================================================
