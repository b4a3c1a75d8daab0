----------------------------- MODULE Evaluation -----------------------------
(***************************************************************************)
(* The functions of the evaluation brick: what makes a definition, a       *)
(* snapshot of terminal evidence and a result well-formed, their canonical *)
(* encodings and digests, the two executors, and the result store.  Texts  *)
(* are strings; those the code checks as ids or versions are told apart by *)
(* two sets.  A Result is a record, Ok(v) or Err(e), an Option a sequence. *)
(***************************************************************************)
EXTENDS Policy, FiniteSetsExt

CONSTANTS
    LogicalIds, Versions,   \* what is_logical_id and is_evaluator_version accept
    MAX_CRITERIA, MAX_EVENTS, MAX_EXPECTED_BYTES, MAX_EVENT_BYTES, MAX_SNAPSHOT_BYTES,
    MAX_FINDINGS, MAX_FINDING_BYTES, MAX_RESULTS_PER_TENANT, MAX_RESULTS_GLOBAL

SHA256_HEX_BYTES == 64

TerminalStatus == {"succeeded", "failed", "cancelled"}
TerminalReason == {"completed", "invocation_failed", "cancelled"}

is_logical_id(value) == value \in LogicalIds
is_evaluator_version(value) == value \in Versions

(* A digest is a record, as is any other text in its place. *)
is_sha256(value) == DOMAIN value = {"sha256"}

(*************************** canonical encodings **************************)

(* decimal_len and decimal_len_u64 *)
decimal_len(value) == 1 + Cardinality({k \in 1 .. 9 : 10 ^ k <= value})

(* A value is written behind its length, as "<length>:<value>\n".  A field *)
(* is that pair.                                                           *)
Txt(text) == <<Len(text), text>>
Num(number) == Txt(ToString(number))
Sha(hash) == <<SHA256_HEX_BYTES, hash>>

(* add_field_len *)
FieldLen(value_len) == decimal_len(value_len) + 2 + value_len

(* The bytes an encoding takes. *)
Size(bytes) == FoldLeft(LAMBDA total, field : total + FieldLen(field[1]), 0, bytes)

snapshot_canonical_bytes(snapshot) ==
    <<Txt("v1"), Txt(snapshot.tenant_id), Txt(snapshot.run_id), Txt(snapshot.workflow_id),
      Txt(snapshot.workflow_version), Num(snapshot.run_revision),
      Txt(snapshot.terminal_status), Txt(snapshot.terminal_reason), Txt(snapshot.attempt_id),
      Txt(snapshot.agent_id), Sha(snapshot.capability_scope_digest), Txt(snapshot.output),
      Num(Len(snapshot.events))>>
    \o FlattenSeq([i \in DOMAIN snapshot.events |->
         LET event == snapshot.events[i]
         IN  <<Num(event.sequence), Txt(event.kind), Txt(event.data)>>])

(* The size is computed before anything is encoded. *)
snapshot_canonical_len(snapshot) ==
    LET head == <<2, Len(snapshot.tenant_id), Len(snapshot.run_id), Len(snapshot.workflow_id),
                  Len(snapshot.workflow_version), decimal_len(snapshot.run_revision),
                  Len(snapshot.terminal_status), Len(snapshot.terminal_reason),
                  Len(snapshot.attempt_id), Len(snapshot.agent_id), SHA256_HEX_BYTES,
                  Len(snapshot.output), decimal_len(Len(snapshot.events))>>
        Lens(event) == <<decimal_len(event.sequence), Len(event.kind), Len(event.data)>>
        lens == head \o FlattenSeq([i \in DOMAIN snapshot.events |-> Lens(snapshot.events[i])])
    IN  FoldLeft(LAMBDA total, len : total + FieldLen(len), 0, lens)

CriterionFields(criterion) ==
    CASE criterion.type = "exact_output" -> <<Txt("exact_output"), Txt(criterion.expected)>>
      [] criterion.type = "event_kind_count" ->
           <<Txt("event_kind_count"), Txt(criterion.kind), Num(criterion.expected)>>
      [] criterion.type = "event_data_equals" ->
           <<Txt("event_data_equals"), Num(criterion.sequence), Txt(criterion.expected)>>

definition_canonical_bytes(definition) ==
    <<Txt("v1"), Txt(definition.evaluator_id), Txt(definition.evaluator_version),
      Num(Len(definition.criteria))>>
    \o FlattenSeq([i \in DOMAIN definition.criteria |-> CriterionFields(definition.criteria[i])])

result_canonical_bytes(result) ==
    LET key == result.logical_key
    IN  <<Txt("v1"), Txt(key.tenant_id), Txt(key.evaluator_id), Txt(key.evaluator_version),
          Sha(key.criterion_digest), Txt(key.workflow_run_id), Num(key.workflow_revision),
          Sha(result.evidence_digest), Txt(result.verdict), Num(Len(result.findings))>>
        \o [i \in DOMAIN result.findings |-> Txt(result.findings[i])]

snapshot_digest(snapshot) == digest(snapshot_canonical_bytes(snapshot))
definition_digest(definition) == digest(definition_canonical_bytes(definition))
result_digest(result) == digest(result_canonical_bytes(result))

(* The names the encodings use for errors. *)
error_name(error) ==
    [InvalidRequest |-> "invalid_request", InvalidDefinition |-> "invalid_definition",
     NotFound |-> "not_found", Conflict |-> "conflict", LimitExceeded |-> "limit_exceeded",
     MalformedEvidence |-> "malformed_evidence", AdapterFailure |-> "operation_failed"][error]

invalid_evidence_digest(tenant_id, run_id, criterion_digest, error) ==
    digest(<<Txt("invalid_evidence_v1"), Txt(tenant_id), Txt(run_id), Sha(criterion_digest),
             Txt(error_name(error))>>)

(******************************* validation *******************************)

CriterionError(criterion) ==
    IF criterion.type = "event_kind_count"
      THEN IF Len(criterion.kind) \notin 1 .. MAX_EVENT_BYTES
             THEN <<"InvalidDefinition">> ELSE <<>>
    ELSE IF Len(criterion.expected) > MAX_EXPECTED_BYTES
      THEN <<"LimitExceeded">> ELSE <<>>

validate_definition(definition) ==
    LET errors == FlattenSeq([i \in DOMAIN definition.criteria |->
                                CriterionError(definition.criteria[i])])
    IN  IF \/ ~is_logical_id(definition.evaluator_id)
           \/ ~is_evaluator_version(definition.evaluator_version)
           \/ Len(definition.criteria) > MAX_CRITERIA
          THEN Err("InvalidDefinition")
        ELSE IF errors # <<>> THEN Err(Head(errors)) ELSE Ok(definition)

(* The size of the encoding, when the evidence is well-formed. *)
validate_and_bound_snapshot(snapshot) ==
    LET len == snapshot_canonical_len(snapshot)
        Misplaced(i) ==
          LET event == snapshot.events[i]
          IN  \/ event.sequence # i \/ event.kind = ""
              \/ Len(event.kind) + Len(event.data) > MAX_EVENT_BYTES
    IN  IF \/ \E id \in {snapshot.tenant_id, snapshot.run_id, snapshot.workflow_id,
                         snapshot.attempt_id, snapshot.agent_id} : ~is_logical_id(id)
           \/ ~is_evaluator_version(snapshot.workflow_version)
           \/ Len(snapshot.output) > MAX_EXPECTED_BYTES
           \/ Len(snapshot.events) > MAX_EVENTS
           \/ ~is_sha256(snapshot.capability_scope_digest)
           \/ <<snapshot.terminal_status, snapshot.terminal_reason>> \notin
                {<<"succeeded", "completed">>, <<"failed", "invocation_failed">>,
                 <<"cancelled", "cancelled">>}
           \/ \E i \in DOMAIN snapshot.events : Misplaced(i)
          THEN Err("MalformedEvidence")
        ELSE IF len > MAX_SNAPSHOT_BYTES THEN Err("LimitExceeded") ELSE Ok(len)

validate_logical_key(key) ==
    IF /\ is_logical_id(key.tenant_id) /\ is_logical_id(key.evaluator_id)
       /\ is_evaluator_version(key.evaluator_version)
       /\ is_sha256(key.criterion_digest) /\ is_logical_id(key.workflow_run_id)
      THEN Ok(key) ELSE Err("InvalidRequest")

FindingsFit(findings) ==
    /\ Len(findings) <= MAX_FINDINGS
    /\ \A i \in DOMAIN findings : Len(findings[i]) <= MAX_FINDING_BYTES

validate_assessment(assessment) ==
    IF /\ FindingsFit(assessment.findings)
       /\ (assessment.verdict = "pass") = (assessment.findings = <<>>)
      THEN Ok(assessment) ELSE Err("AdapterFailure")

validate_result(result) ==
    LET key == validate_logical_key(result.logical_key)
    IN  IF ~key.ok THEN key
        ELSE IF ~is_sha256(result.evidence_digest) THEN Err("InvalidRequest")
        ELSE IF ~FindingsFit(result.findings) THEN Err("LimitExceeded")
        ELSE IF result.content_hash # result_digest(result) THEN Err("InvalidRequest")
        ELSE Ok(result)

=============================================================================
