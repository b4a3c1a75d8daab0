------------------------------ MODULE AgentMcp ------------------------------
(***************************************************************************)
(* The MCP surface of the agent brick: definitions are registered and read *)
(* and agents invoked, each behind the policy gate.  What an invocation    *)
(* does is AgentRuntime's; here it is started under a ceiling and answers  *)
(* anything.                                                               *)
(***************************************************************************)
EXTENDS PolicyGate, AgentDefinition

CONSTANTS
    AgentIds,               \* what AgentId::new accepts
    Builtins,               \* the built-in definitions, by agent id
    DefinitionInputs,       \* inputs of validate and register
    AgentIdInputs,          \* inputs of get
    InvokeInputs,           \* inputs of invoke
    InvocationAnswers,      \* what invoke_with_ceiling may return
    MAX_MCP_SERIALIZED_RESULT_BYTES

VARIABLES
    definitions,            \* the registered definitions, by agent id
    invocations,            \* history: what agents were invoked with
    answer                  \* the last answer of a tool, named by its capability

(* The capabilities of AGENT_DEFINITION_TOOLS, a tool each. *)
AgentCapabilities ==
    {"agent_definition_validate", "agent_definition_get", "agent_definition_list",
     "agent_definition_register", "agent_invoke"}

agent_outcomes == GateOutcomes(AgentCapabilities)
AgentGate(capability) == GateFor(agent_outcomes, capability)

PublicErrorCode ==
    [InvalidRequest |-> "invalid_request", InvalidId |-> "invalid_definition",
     InvalidDefinition |-> "invalid_definition", InvalidReference |-> "invalid_reference",
     ReferenceUnavailable |-> "reference_unavailable", NotFound |-> "not_found",
     BuiltinProtected |-> "builtin_protected", UnknownTool |-> "unknown_tool",
     ToolDisallowed |-> "tool_disallowed", MemoryDenied |-> "memory_denied",
     KnowledgeDenied |-> "knowledge_denied", SandboxDenied |-> "sandbox_denied",
     AdapterFailure |-> "adapter_failure", LimitExceeded |-> "limit_exceeded",
     Cancelled |-> "cancelled", DeadlineExceeded |-> "deadline_exceeded"]

domain_error(error) == Err(PublicErrorCode[error])
policy_error(error) == Err(IF error = "denied" THEN "not_found" ELSE "operation_failed")

is_public_code(code) ==
    code \in {PublicErrorCode[e] : e \in DOMAIN PublicErrorCode} \cup {"operation_failed"}

tool_response(response) ==
    IF response.ok \/ is_public_code(response.error) THEN response ELSE Err("operation_failed")

serialize(value, bytes) ==
    IF bytes <= MAX_MCP_SERIALIZED_RESULT_BYTES THEN Ok(value) ELSE Err("limit_exceeded")

into_core(input) ==
    IF input.id \notin AgentIds THEN Err("InvalidId")
    ELSE IF validate_definition(input) # None THEN Err(validate_definition(input))
    ELSE Ok(input)

(* AgentRegistry::get and list, over what register has checked. *)
Registry == Builtins @@ definitions
registry_get(id) == IF id \in DOMAIN Registry THEN Ok(Registry[id]) ELSE Err("NotFound")

(* EffectiveCapabilityCeilingV1 of a verified grant. *)
Ceiling(grant) ==
    [well_formed |-> TRUE, tools |-> grant.tools, memory |-> grant.memory,
     knowledge |-> grant.knowledge, sandbox |-> grant.sandbox,
     communication |-> grant.communication]

Answers(tool, gate, input, result) ==
    answer' = [tool |-> tool, trusted |-> IF gate.ok THEN <<gate.value.context>> ELSE <<>>,
               input |-> input, result |-> result]

-----------------------------------------------------------------------------

agent_definition_validate(input, gate) ==
    LET definition == into_core(input)
        problem == DefinitionProblem(definition.value)
        response == IF ~definition.ok THEN domain_error(definition.error)
                    ELSE IF ~gate.ok THEN policy_error(gate.error)
                    ELSE IF problem # None THEN domain_error(problem)
                    ELSE Ok("valid")
    IN  /\ Answers("agent_definition_validate", gate, input.id, tool_response(response))
        /\ UNCHANGED <<definitions, invocations>>

(* The error for an id that is refused here is none of the public codes. *)
agent_definition_get(id, gate) ==
    LET found == registry_get(id)
        response == IF id \notin AgentIds THEN Err("agent definition operation failed")
                    ELSE IF ~gate.ok THEN policy_error(gate.error)
                    ELSE IF ~found.ok THEN domain_error(found.error)
                    ELSE serialize(found.value, found.value.bytes)
    IN  /\ Answers("agent_definition_get", gate, id, tool_response(response))
        /\ UNCHANGED <<definitions, invocations>>

agent_definition_list(gate) ==
    LET Bytes(total, id) == total + Registry[id].summary
        response == IF ~gate.ok THEN policy_error(gate.error)
                    ELSE serialize(DOMAIN Registry,
                                   FoldLeft(Bytes, 0, SetToSeq(DOMAIN Registry)))
    IN  /\ Answers("agent_definition_list", gate, None, tool_response(response))
        /\ UNCHANGED <<definitions, invocations>>

agent_definition_register(input, gate) ==
    LET definition == into_core(input)
        problem == DefinitionProblem(definition.value)
        response == IF ~definition.ok THEN domain_error(definition.error)
                    ELSE IF ~gate.ok THEN policy_error(gate.error)
                    ELSE IF problem # None THEN domain_error(problem)
                    ELSE IF input.id \in DOMAIN Builtins THEN domain_error("BuiltinProtected")
                    ELSE Ok(input.id)
    IN  /\ Answers("agent_definition_register", gate, input.id, tool_response(response))
        /\ definitions' = IF response.ok THEN (input.id :> input) @@ definitions ELSE definitions
        /\ UNCHANGED invocations

(* What invoke_with_ceiling starts: the agent as it is registered now. *)
Invocation(capability, context, id, ceiling) ==
    [capability |-> capability, context |-> context, ceiling |-> ceiling,
     scope |-> intersect(ceiling, registry_get(id).value)]

Invoked(capability, context, id, ceiling) ==
    invocations' = IF registry_get(id).ok
                     THEN invocations \cup {Invocation(capability, context, id, ceiling)}
                   ELSE invocations

(* The signals of an invocation may not be had. *)
agent_runtime_invoke(input, gate) ==
    LET refusal == IF input.id \notin AgentIds THEN Err("invalid_definition")
                   ELSE IF input.bytes > MaxInputBytes THEN Err("limit_exceeded")
                   ELSE IF ~gate.ok THEN policy_error(gate.error)
                   ELSE Ok(None)
    IN  /\ \/ /\ ~refusal.ok /\ Answers("agent_invoke", gate, input.id, refusal)
              /\ UNCHANGED invocations
           \/ /\ refusal.ok /\ Answers("agent_invoke", gate, input.id, domain_error("AdapterFailure"))
              /\ UNCHANGED invocations
           \/ /\ refusal.ok
              /\ Invoked("agent_invoke", gate.value.context, input.id, Ceiling(gate.value.grant))
              /\ IF registry_get(input.id).ok
                   THEN \E a \in InvocationAnswers :
                          Answers("agent_invoke", gate, input.id,
                                  IF a.ok THEN serialize(a.value, a.bytes)
                                  ELSE domain_error(a.error))
                 ELSE Answers("agent_invoke", gate, input.id, domain_error("NotFound"))
        /\ UNCHANGED definitions

AgentMcpNext ==
    \/ \E input \in DefinitionInputs :
         \/ \E gate \in AgentGate("agent_definition_validate") : agent_definition_validate(input, gate)
         \/ \E gate \in AgentGate("agent_definition_register") : agent_definition_register(input, gate)
    \/ \E id \in AgentIdInputs, gate \in AgentGate("agent_definition_get") :
         agent_definition_get(id, gate)
    \/ \E gate \in AgentGate("agent_definition_list") : agent_definition_list(gate)
    \/ \E input \in InvokeInputs, gate \in AgentGate("agent_invoke") :
         agent_runtime_invoke(input, gate)

=============================================================================
