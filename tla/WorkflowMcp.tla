----------------------------- MODULE WorkflowMcp -----------------------------
(***************************************************************************)
(* The MCP surface of the workflow brick, composed with the agent surface: *)
(* a run is started, read and cancelled behind the policy gate, and the    *)
(* grant of the call that created it is the ceiling its agent runs under.  *)
(* The runner behind the surface is what RunLifecycle promises.            *)
(***************************************************************************)
EXTENDS AgentMcp, CanonicalJson

CONSTANTS
    Catalog,                \* workflow definitions, by workflow id
    WorkflowInputs,         \* inputs of workflow_validate
    StartInputs,            \* inputs of workflow_start
    RunKeys,                \* keys of 1 to MAX_RUN_KEY_BYTES bytes
    MalformedRunId,         \* a run id that LogicalId::new refuses
    SummaryBytes,           \* of one summary in a response
    MIN_TERMINAL_EVIDENCE_BYTES,
    MAX_EVIDENCE_BYTES

VARIABLES
    phase, invoked,         \* the runs, as RunLifecycle has them
    granted                 \* by run: context, ceiling and input of the start that
                            \* created it, and whether that start is still open

WORKFLOW_TOOLS ==
    {"workflow_validate", "workflow_start", "workflow_get", "workflow_list", "workflow_cancel"}

workflow_outcomes == GateOutcomes(WORKFLOW_TOOLS)
WorkflowGate(capability) == GateFor(workflow_outcomes, capability)

validate_workflow(d) ==
    IF /\ d.max_attempts = 1
       /\ d.max_input_bytes \in 1 .. MAX_JSON_INPUT_BYTES
       /\ d.max_evidence_bytes \in MIN_TERMINAL_EVIDENCE_BYTES .. MAX_EVIDENCE_BYTES
      THEN None ELSE "InvalidDefinition"

(* canonical_json of the inputs, as start_json computes it. *)
Canonical == [d \in {i.input : i \in StartInputs} |-> canonical_json(d, MAX_JSON_INPUT_BYTES)]

(* derived_id of the identity_material, taken to be injective. *)
RunIds ==
    [tenant : {c.tenant : c \in Contexts},
     workflow_id : {w \in DOMAIN Catalog : validate_workflow(Catalog[w]) = None},
     run_key : RunKeys,
     digest : {input_digest(Canonical[d].value) : d \in {e \in DOMAIN Canonical : Canonical[e].ok}}]
StartKeys == [id \in RunIds |-> <<id.tenant, id.workflow_id, id.run_key>>]

Runner == INSTANCE RunLifecycle WITH Ids <- RunIds, KeyOf <- StartKeys

Terminal == {"Succeeded", "Failed", "Cancelled"}

WorkflowErrorCode ==
    [InvalidRequest |-> "invalid_request", InvalidDefinition |-> "invalid_definition",
     NotFound |-> "not_found", RunKeyConflict |-> "run_key_conflict", Conflict |-> "conflict",
     LimitExceeded |-> "limit_exceeded", AdapterFailure |-> "operation_failed"]

public_error(error) == Err(WorkflowErrorCode[error])

(* resolve_and_authorize of this surface. *)
WorkflowGateError(error) == IF error = "denied" THEN "NotFound" ELSE "AdapterFailure"

LogicalId(id) == id \in DOMAIN Catalog \cup {"unknown"}

(* WorkflowRunner::validate; validate_agent asks the agent registry. *)
RunnerProblem(d) ==
    IF validate_workflow(d) # None THEN validate_workflow(d)
    ELSE IF ~registry_get(d.agent_id).ok THEN "NotFound" ELSE None

(* WorkflowDefinitionInput::into_core *)
InputProblem(input) ==
    IF ~LogicalId(input.id) THEN "InvalidRequest"
    ELSE IF input.agent_id \notin AgentIds THEN "InvalidDefinition" ELSE None

summary_value(id) == [id |-> id, status |-> phase[id]]

workflow_validate(input, gate) ==
    LET d == [max_attempts |-> 1] @@ input
        problem == IF InputProblem(input) # None THEN InputProblem(input)
                   ELSE IF validate_workflow(d) # None THEN validate_workflow(d)
                   ELSE IF ~gate.ok THEN WorkflowGateError(gate.error)
                   ELSE RunnerProblem(d)
    IN  /\ Answers("workflow_validate", gate, input.id,
                   IF problem = None THEN Ok("valid") ELSE public_error(problem))
        /\ UNCHANGED <<definitions, invocations, phase, invoked, granted>>

-----------------------------------------------------------------------------
(* workflow_start: the checks of start_json and of start_with_policy, then  *)
(* create_or_return.                                                        *)

StartProblem(input, gate) ==
    LET canonical == Canonical[input.input]
        definition == Catalog[input.workflow_id]
        budgeted == canonical_json(canonical.value, definition.max_input_bytes)
    IN  IF ~LogicalId(input.workflow_id) \/ input.run_key \notin RunKeys THEN "InvalidRequest"
        ELSE IF ~canonical.ok THEN canonical.error
        ELSE IF ~gate.ok THEN WorkflowGateError(gate.error)
        ELSE IF CeilingProblem(Ceiling(gate.value.grant)) # None THEN "InvalidRequest"
        ELSE IF input.workflow_id \notin DOMAIN Catalog THEN "NotFound"
        ELSE IF RunnerProblem(definition) # None THEN RunnerProblem(definition)
        ELSE IF ~budgeted.ok THEN budgeted.error ELSE None

RunOf(input, gate) ==
    [tenant |-> gate.value.context.tenant, workflow_id |-> input.workflow_id,
     run_key |-> input.run_key,
     digest |-> input_digest(Canonical[input.input].value)]

Grant(input, gate) ==
    [context |-> gate.value.context, ceiling |-> Ceiling(gate.value.grant), input |-> input.input,
     open |-> TRUE]

(* A replay that leaves the policy of the later call behind. *)
Replayed_Regrants(id, gate) ==
    granted' = [granted EXCEPT ![id].ceiling = Ceiling(gate.value.grant)]

(* A run that exists keeps the policy it was created with. *)
Replayed(id, gate) == UNCHANGED granted

(* A start that creates a run answers when the run is over. *)
workflow_start(input, gate) ==
    LET id == RunOf(input, gate)
        others == {j \in RunIds : StartKeys[j] = StartKeys[id] /\ phase[j] # "none"} \ {id}
        problem == StartProblem(input, gate)
    IN  /\ UNCHANGED <<definitions, invocations>>
        /\ \/ /\ problem # None
              /\ Answers("workflow_start", gate, input, public_error(problem))
              /\ UNCHANGED <<phase, invoked, granted>>
           \/ /\ problem = None /\ phase[id] # "none"
              /\ Answers("workflow_start", gate, input, Ok(summary_value(id)))
              /\ Replayed(id, gate)
              /\ UNCHANGED <<phase, invoked>>
           \/ /\ problem = None /\ phase[id] = "none" /\ others # {}
              /\ Answers("workflow_start", gate, input, public_error("RunKeyConflict"))
              /\ UNCHANGED <<phase, invoked, granted>>
           \/ /\ problem = None /\ Runner!Create(id)
              /\ granted' = (id :> Grant(input, gate)) @@ granted
              /\ UNCHANGED answer

Begin(id) ==
    /\ Runner!Begin(id)
    /\ UNCHANGED <<definitions, invocations, answer, granted>>

(* PolicyAwareAgentInvoker::invoke: the agent may be another one by now. *)
invoke(id) ==
    /\ id \in DOMAIN granted /\ granted[id].open
    /\ Runner!Invoke(id)
    /\ Invoked("workflow_start", granted[id].context, Catalog[id.workflow_id].agent_id,
               granted[id].ceiling)
    /\ UNCHANGED <<definitions, answer, granted>>

(* The answer of the start that created the run. *)
Responds(id, result) ==
    /\ granted[id].open
    /\ granted' = [granted EXCEPT ![id].open = FALSE]
    /\ answer' = [tool |-> "workflow_start", trusted |-> <<granted[id].context>>,
                  input |-> [workflow_id |-> id.workflow_id, run_key |-> id.run_key,
                             input |-> granted[id].input],
                  result |-> result]

(* The end of execute: a run that fails before its invocation answers the   *)
(* failure, and one that fails at the evidence limit the limit.             *)
Finish(id, outcome) ==
    /\ Runner!End(id, outcome)
    /\ \/ invoked[id] = 1 /\ Responds(id, Ok([id |-> id, status |-> outcome]))
       \/ outcome = "Failed" /\ Responds(id, public_error("LimitExceeded"))
       \/ outcome = "Failed" /\ invoked[id] = 0 /\ Responds(id, public_error("AdapterFailure"))
    /\ UNCHANGED <<definitions, invocations>>

(* The end of execute when a cancellation came first. *)
Overtaken(id) ==
    /\ phase[id] = "Cancelled"
    /\ Responds(id, IF invoked[id] = 1 THEN Ok(summary_value(id)) ELSE public_error("AdapterFailure"))
    /\ UNCHANGED <<definitions, invocations, phase, invoked>>

-----------------------------------------------------------------------------

(* A store that finds a run under any tenant. *)
Found_AnyTenant(id, gate) == id \in RunIds /\ phase[id] # "none"

(* WorkflowStore::get under the tenant of the trusted context. *)
Found(id, gate) == id \in RunIds /\ phase[id] # "none" /\ id.tenant = gate.value.context.tenant

ReadProblem(id, gate) ==
    IF id = MalformedRunId THEN "InvalidRequest"
    ELSE IF ~gate.ok THEN WorkflowGateError(gate.error)
    ELSE IF ~Found(id, gate) THEN "NotFound" ELSE None

workflow_get(id, gate) ==
    LET problem == ReadProblem(id, gate)
    IN  /\ Answers("workflow_get", gate, id,
                   IF problem = None THEN Ok(summary_value(id)) ELSE public_error(problem))
        /\ UNCHANGED <<definitions, invocations, phase, invoked, granted>>

workflow_list(gate) ==
    LET runs == {id \in RunIds : Found(id, gate)}
        response == IF ~gate.ok THEN public_error(WorkflowGateError(gate.error))
                    ELSE serialize({summary_value(id) : id \in runs},
                                   SummaryBytes * Cardinality(runs))
    IN  /\ Answers("workflow_list", gate, None, response)
        /\ UNCHANGED <<definitions, invocations, phase, invoked, granted>>

(* A run whose signal is not registered, before its invocation or behind    *)
(* it, cannot be cancelled.                                                 *)
workflow_cancel(id, gate) ==
    LET problem == ReadProblem(id, gate)
        Replies(result) == Answers("workflow_cancel", gate, id, result)
    IN  /\ UNCHANGED <<definitions, invocations, granted>>
        /\ \/ /\ problem # None /\ Replies(public_error(problem)) /\ UNCHANGED <<phase, invoked>>
           \/ /\ problem = None /\ phase[id] \in Terminal
              /\ Replies(Ok(summary_value(id))) /\ UNCHANGED <<phase, invoked>>
           \/ /\ problem = None /\ phase[id] \in {"Pending", "Running"}
              /\ Replies(public_error("Conflict")) /\ UNCHANGED <<phase, invoked>>
           \/ /\ problem = None /\ Runner!End(id, "Cancelled")
              /\ Replies(Ok([id |-> id, status |-> "Cancelled"]))

WorkflowMcpNext ==
    \/ \E input \in WorkflowInputs, gate \in WorkflowGate("workflow_validate") :
         workflow_validate(input, gate)
    \/ \E input \in StartInputs, gate \in WorkflowGate("workflow_start") :
         workflow_start(input, gate)
    \/ \E id \in RunIds : Begin(id) \/ invoke(id) \/ Overtaken(id)
    \/ \E id \in RunIds, outcome \in {"Succeeded", "Failed"} : Finish(id, outcome)
    \/ \E id \in RunIds \cup {MalformedRunId} :
         \/ \E gate \in WorkflowGate("workflow_get") : workflow_get(id, gate)
         \/ \E gate \in WorkflowGate("workflow_cancel") : workflow_cancel(id, gate)
    \/ \E gate \in WorkflowGate("workflow_list") : workflow_list(gate)

=============================================================================
