-------------------------- MODULE AgentDefinition --------------------------
(***************************************************************************)
(* Agent definitions and the capability scope of an invocation: what       *)
(* validation accepts, and what is left of a definition under a ceiling.   *)
(* The references of a definition are lists as its author wrote them; the  *)
(* code sorts and deduplicates them for a scope, where they are sets.      *)
(***************************************************************************)
EXTENDS LlmGateway, Knowledge

CONSTANTS
    CatalogModels,          \* model references of the catalog
    CatalogSkills, CatalogSteering,
    CatalogTools,           \* tool references of the catalog
    RegisteredTools,        \* tools the ToolRegistry resolves
    MaxCapabilityReferences,
    MaxToolCalls,           \* MAX_TOOL_CALLS of the agent
    MaxOutputBytes,
    MaxInputBytes,
    SchemaBytes             \* the length of the schema of a tool

RecallTool == "factory.memory.recall"
WriteTool == "factory.memory.write"
SearchTool == "factory.knowledge.search"
ExecuteTool == "factory.sandbox.execute"

Reserved == {RecallTool, WriteTool, SearchTool, ExecuteTool}

(* validate_definition: the names, the namespace and the syntax of          *)
(* references are flags; the rest are the limits.                           *)
validate_definition(d) ==
    IF \/ ~d.texts_valid
       \/ d.instructions > MaxInputBytes
       \/ \E list \in {d.skills, d.steering, d.tools} : Len(list) > MaxCapabilityReferences
       \/ d.max_tool_calls \notin 1 .. MaxToolCalls
       \/ d.max_output_bytes \notin 1 .. MaxOutputBytes
       \/ d.memory /\ d.max_items = 0
       \/ d.knowledge /\ d.max_results = 0
       \/ d.max_results > MaxSearchLimit
      THEN "InvalidDefinition"
    ELSE IF ~d.references_valid THEN "InvalidReference"
    ELSE None

(* validate_references *)
validate_references(d) ==
    IF /\ d.model \in CatalogModels
       /\ ToSet(d.skills) \subseteq CatalogSkills
       /\ ToSet(d.steering) \subseteq CatalogSteering
       /\ ToSet(d.tools) \subseteq CatalogTools
      THEN None ELSE "ReferenceUnavailable"

DefinitionProblem(d) == FirstError(<<validate_definition(d), validate_references(d)>>)

(* AgentRegistry::new over the list of built-in definitions: the first one  *)
(* that is refused, or that has the id of an earlier one, refuses them all. *)
NewRegistry(builtins) ==
    LET Insert(registry, d) ==
          IF ~registry.ok THEN registry
          ELSE IF DefinitionProblem(d) # None THEN Err(DefinitionProblem(d))
          ELSE IF d.id \in DOMAIN registry.value THEN Err("InvalidDefinition")
          ELSE Ok([id \in DOMAIN registry.value \cup {d.id} |->
                     IF id = d.id THEN d ELSE registry.value[id]])
    IN  FoldLeft(Insert, Ok(<<>>), builtins)

full_definition(d) ==
    [well_formed |-> TRUE, tools |-> d.tools, memory |-> d.memory, knowledge |-> d.knowledge,
     sandbox |-> d.sandbox, communication |-> d.communication]

(* validate_effective_capability_ceiling *)
CeilingProblem(ceiling) ==
    IF Len(ceiling.tools) > MaxCapabilityReferences THEN "InvalidDefinition"
    ELSE IF ~ceiling.well_formed THEN "InvalidReference" ELSE None

intersect_CeilingTools(ceiling, d) ==
    [tools |-> ToSet(ceiling.tools),
     memory |-> ceiling.memory /\ d.memory,
     knowledge |-> ceiling.knowledge /\ d.knowledge,
     sandbox |-> ceiling.sandbox /\ d.sandbox,
     communication |-> ceiling.communication /\ d.communication]

(* EffectiveCapabilityCeilingV1::intersect *)
intersect(ceiling, d) ==
    [tools |-> ToSet(ceiling.tools) \cap ToSet(d.tools),
     memory |-> ceiling.memory /\ d.memory,
     knowledge |-> ceiling.knowledge /\ d.knowledge,
     sandbox |-> ceiling.sandbox /\ d.sandbox,
     communication |-> ceiling.communication /\ d.communication]

(* ResolvedCapabilityScope::from_definition, for the resolved tools: what   *)
(* a scope copies from its definition is read in the definition.           *)
from_definition(d, resolved, effective) ==
    [definition |-> d,
     tools |-> resolved \cap effective.tools,
     memory |-> d.memory /\ effective.memory,
     knowledge |-> d.knowledge /\ effective.knowledge,
     sandbox |-> d.sandbox /\ effective.sandbox,
     communication |-> d.communication /\ effective.communication]

(* A list in digest_scope: its length, then its elements in order. *)
ListFields(name, values) ==
    LET sorted == SetToSeq(values)
    IN  <<<<name, Len(sorted)>>>> \o [i \in DOMAIN sorted |-> <<name, sorted[i]>>]

(* digest_scope: every field is hashed behind the lengths of its name and   *)
(* its value, so that the sequence of fields stands for the bytes; SHA-256  *)
(* is taken to be injective.                                               *)
digest_scope(scope) ==
    LET d == scope.definition
    IN  [sha256 |->
           <<<<"agent", d.id>>, <<"model", d.model>>, <<"instructions", d.instructions>>>>
             \o ListFields("skill", ToSet(d.skills))
             \o ListFields("steering", ToSet(d.steering))
             \o ListFields("tool", scope.tools)
             \o <<<<"memory_enabled", scope.memory>>,
                  <<"knowledge_enabled", scope.knowledge>>,
                  <<"sandbox_allowed", scope.sandbox>>,
                  <<"communication_allowed", scope.communication>>,
                  <<"memory_max_items", d.max_items>>,
                  <<"knowledge_namespace", d.namespace>>,
                  <<"knowledge_max_results", d.max_results>>,
                  <<"max_tool_calls", d.max_tool_calls>>,
                  <<"max_output_bytes", d.max_output_bytes>>>>]

(* gateway_tools: what the model is offered, each with a schema. *)
gateway_tools(scope) ==
    LET names == SetToSeq(scope.tools)
                   \o (IF scope.memory THEN <<RecallTool, WriteTool>> ELSE <<>>)
                   \o (IF scope.knowledge THEN <<SearchTool>> ELSE <<>>)
                   \o (IF scope.sandbox THEN <<ExecuteTool>> ELSE <<>>)
    IN  [i \in DOMAIN names |-> [name |-> names[i], schema |-> SchemaBytes]]

OfferedNames(scope) == {tool.name : tool \in ToSet(gateway_tools(scope))}

(* map_gateway_error *)
map_gateway_error(error) ==
    IF error \in {None, "LimitExceeded", "Cancelled", "DeadlineExceeded"} THEN error
    ELSE IF error = "InvalidRequest" THEN "InvalidDefinition"
    ELSE "AdapterFailure"

(* map_knowledge_error *)
map_knowledge_error(error) ==
    CASE error = "InvalidRequest" -> "InvalidDefinition"
      [] error = "LimitExceeded" -> "LimitExceeded"
      [] OTHER -> "AdapterFailure"

=============================================================================
