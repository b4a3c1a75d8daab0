---------------------------- MODULE AgentRuntime ----------------------------
(***************************************************************************)
(* LocalAgentRuntime over an AgentRegistry, an LLM provider and the ports  *)
(* for tools, memory, knowledge and sandbox.  An invocation resolves a     *)
(* definition, awaits the model, plans every call of the response, and     *)
(* only then carries the calls out one by one, looking at its signals      *)
(* before each.  Other invocations, changes of the registry and the        *)
(* signals come in between.                                                *)
(*                                                                         *)
(* The runtime is composed in one of two ways.  Behind external ports, the *)
(* client of the genai provider, the tools, the knowledge index and the    *)
(* sandbox answer anything or fail.  The local ports are StaticProvider,   *)
(* FixedToolRegistry, StaticKnowledgeIndex and DenySandbox.  The memory is *)
(* InMemoryMemoryStore in both.                                            *)
(***************************************************************************)
EXTENDS AgentDefinition

CONSTANTS
    Callers,
    Tenants,
    BuiltinList,        \* the built-in definitions
    Offered,            \* the definitions that may be registered
    Requests,           \* what callers invoke
    Responses,          \* what the model may answer
    Failures,           \* the errors its provider may fail with
    IndexAnswers,       \* what an external knowledge index may return
    OutputBytes,        \* lengths of what external tools and a sandbox return
    Fixtures,           \* what a StaticProvider may be made with, errors included
    Corpora,            \* what a StaticKnowledgeIndex may be made with
    FixedOutputs,       \* lengths of the outputs of FixedToolRegistry
    ModelProvider,      \* the provider segment of a model reference, or None
    ServedProvider,     \* GenaiProvider::provider_id
    MaxSandboxArgumentBytes

ASSUME AgentAssumption ==
    /\ Failures \subseteq ProviderErrors
    /\ NewRegistry(BuiltinList).ok
    /\ \A r \in Responses : r.error = None
    /\ \A documents \in IndexAnswers \cup Corpora : \A d \in ToSet(documents) : IsDocument(d)
    /\ FixedOutputs \in [RegisteredTools -> Nat]
    /\ OutputBytes \subseteq Nat

Builtins == NewRegistry(BuiltinList).value

AgentIds == DOMAIN Builtins \cup {d.id : d \in Offered}

NoDefinition == [id |-> None]
NoAnswer == [error |-> "pending"]
FullDefinition == [full |-> TRUE]

VARIABLES
    ports,              \* what the runtime is composed with
    definitions,        \* InMemoryDefinitionStore
    values,             \* InMemoryMemoryStore
    call,               \* each invocation: where it is and what it holds
    answer,             \* what the provider has answered each invocation
    cancelled, elapsed, \* the invocations whose signal is raised
    effects,            \* history: the calls that reached a port
    allowed             \* history: how many may, counted when a signal was raised

vars == <<ports, definitions, values, call, answer, cancelled, elapsed, effects, allowed>>

signals == <<cancelled, elapsed, allowed>>

Idle == [pc |-> "idle", reply |-> None]

ExternalPorts == [local |-> FALSE]

(* StaticFixture::new and StaticKnowledgeIndex::new may refuse. *)
LocalPorts ==
    {[local |-> TRUE, provider |-> fixture, index |-> StaticIndex(corpus).value] :
        fixture \in {f \in Fixtures : f.error # None \/ FixtureError(f) = None},
        corpus \in {documents \in Corpora : StaticIndex(documents).ok}}

Init ==
    /\ ports \in {ExternalPorts} \cup LocalPorts
    /\ definitions = [id \in AgentIds |-> NoDefinition]
    /\ values = [t \in Tenants |-> <<>>]
    /\ call = [c \in Callers |-> Idle]
    /\ answer = [c \in Callers |-> NoAnswer]
    /\ cancelled = {}
    /\ elapsed = {}
    /\ effects = [c \in Callers |-> <<>>]
    /\ allowed = [c \in Callers |-> 0]

-----------------------------------------------------------------------------
(* AgentRegistry *)

(* AgentRegistry::register; a refused definition changes nothing. *)
Register(d) ==
    /\ DefinitionProblem(d) = None
    /\ d.id \notin DOMAIN Builtins
    /\ definitions' = [definitions EXCEPT ![d.id] = d]
    /\ UNCHANGED <<ports, values, call, answer, effects, signals>>

(* AgentRegistry::delete; removing what is not there changes nothing. *)
Delete(id) ==
    /\ id \notin DOMAIN Builtins
    /\ definitions' = [definitions EXCEPT ![id] = NoDefinition]
    /\ UNCHANGED <<ports, values, call, answer, effects, signals>>

(* AgentRegistry::get.  A stored definition passed the same checks when it *)
(* was registered, and the catalog does not change.                        *)
get(id) == IF id \in DOMAIN Builtins THEN Builtins[id] ELSE definitions[id]

-----------------------------------------------------------------------------
(* Up to the model *)

(* invoke takes the whole definition, invoke_with_ceiling a ceiling. *)
CeilingOf(q, d) == IF q.ceiling = FullDefinition THEN full_definition(d) ELSE q.ceiling

ScopeOf(q, d) ==
    LET effective == intersect(CeilingOf(q, d), d)
    IN  from_definition(d, effective.tools, effective)

(* Why invoke or invoke_with_ceiling fails before the provider's future is *)
(* created, in the order of the checks.                                    *)
Refusal(q) ==
    LET d == get(q.agent)
        tools == intersect(CeilingOf(q, d), d).tools
    IN  IF q.ceiling # FullDefinition /\ CeilingProblem(q.ceiling) # None
          THEN CeilingProblem(q.ceiling)
        ELSE IF d = NoDefinition THEN "NotFound"
        ELSE IF q.bytes > MaxInputBytes THEN "LimitExceeded"
        ELSE IF ~(tools \subseteq RegisteredTools) THEN "UnknownTool"
        ELSE IF ModelProvider[d.model] = None \/ tools \cap Reserved # {}
          THEN "InvalidReference"
        ELSE map_gateway_error(FirstError(<<PromptError(d.instructions, q.bytes),
                                            LimitsError(d.max_output_bytes),
                                            RequestError(gateway_tools(ScopeOf(q, d)))>>))

Replies(c, error) == call' = [call EXCEPT ![c].pc = "done", ![c].reply = error]

Refuse(c, q) ==
    /\ call[c].pc = "idle"
    /\ Refusal(q) # None
    /\ Replies(c, Refusal(q))
    /\ UNCHANGED <<ports, definitions, values, answer, effects, signals>>

Resolve(c, q) ==
    LET d == get(q.agent) IN
    /\ call[c].pc = "idle"
    /\ Refusal(q) = None
    /\ call' = [call EXCEPT ![c] =
                  [pc |-> "generate", reply |-> None, request |-> q, scope |-> ScopeOf(q, d),
                   text |-> 0, plan |-> <<>>, bytes |-> 0, events |-> <<>>]]
    /\ UNCHANGED <<ports, definitions, values, answer, effects, signals>>

(* What the scope of an invocation has copied from its definition. *)
Limits(c) == call[c].scope.definition

Preflight(c) == map_gateway_error(preflight(c \in cancelled, c \in elapsed))

(* GenaiProvider::generate, up to its await. *)
Generate(c) ==
    LET error == IF Preflight(c) # None THEN Preflight(c)
                 ELSE IF ModelProvider[Limits(c).model] # ServedProvider
                   THEN map_gateway_error("InvalidRequest")
                 ELSE None
    IN  /\ call[c].pc = "generate" /\ ~ports.local
        /\ \/ error # None /\ Replies(c, error)
           \/ error = None /\ call' = [call EXCEPT ![c].pc = "racing"]
        /\ UNCHANGED <<ports, definitions, values, answer, effects, signals>>

(* The response is handed to invoke_definition. *)
Responds(c, response) ==
    call' = [call EXCEPT ![c].pc = "plan", ![c].text = response.text, ![c].plan = response.calls]

(* StaticProvider::generate: the same fixture for every request, which may  *)
(* not declare the tools it calls; there is no await.                      *)
GenerateStatic(c) ==
    LET fixture == ports.provider
        error == IF Preflight(c) # None THEN Preflight(c)
                 ELSE IF fixture.error # None THEN map_gateway_error(fixture.error)
                 ELSE map_gateway_error(AssemblyError(OfferedNames(call[c].scope), fixture))
    IN  /\ call[c].pc = "generate" /\ ports.local
        /\ \/ error # None /\ Replies(c, error)
           \/ error = None /\ Responds(c, fixture)
        /\ UNCHANGED <<ports, definitions, values, answer, effects, signals>>

(* The provider answers or fails. *)
ProviderAnswers(c, a) ==
    /\ call[c].pc = "racing"
    /\ answer[c] = NoAnswer
    /\ answer' = [answer EXCEPT ![c] = a]
    /\ UNCHANGED <<ports, definitions, values, call, effects, signals>>

(* The race is polled; a response is normalised in the same poll. *)
Poll(c) ==
    LET won == race_invocation(c \in cancelled, c \in elapsed, answer[c] # NoAnswer)
        error == IF won # "Provider" THEN won
                 ELSE IF answer[c].error # None THEN answer[c].error
                 ELSE ResponseError(OfferedNames(call[c].scope), answer[c])
    IN  /\ call[c].pc = "racing"
        /\ won # "Pending"
        /\ \/ error # None /\ Replies(c, map_gateway_error(error))
           \/ error = None /\ Responds(c, answer[c])
        /\ answer' = [answer EXCEPT ![c] = NoAnswer]
        /\ UNCHANGED <<ports, definitions, values, effects, signals>>

(* The future is dropped at its only await. *)
Drop(c) ==
    /\ call[c].pc = "racing"
    /\ call' = [call EXCEPT ![c].pc = "dropped"]
    /\ answer' = [answer EXCEPT ![c] = NoAnswer]
    /\ UNCHANGED <<ports, definitions, values, effects, signals>>

-----------------------------------------------------------------------------
(* The plan *)

(* The one field of a call's arguments, or the two of the sandbox. *)
FieldsOf(name) ==
    CASE name \in {RecallTool, SearchTool} -> "query"
      [] name = WriteTool -> "value"
      [] name = ExecuteTool -> "action_arguments"
      [] OTHER -> "input"

Denial(scope, name) ==
    CASE name \in {RecallTool, WriteTool} -> IF scope.memory THEN None ELSE "MemoryDenied"
      [] name = SearchTool -> IF scope.knowledge THEN None ELSE "KnowledgeDenied"
      [] name = ExecuteTool -> IF scope.sandbox THEN None ELSE "SandboxDenied"
      [] OTHER -> IF name \in scope.tools THEN None ELSE "ToolDisallowed"

MaxTextBytes(name) == IF name = ExecuteTool THEN MaxSandboxArgumentBytes ELSE MaxInputBytes

CallProblem(scope, tool_call) ==
    IF Denial(scope, tool_call.name) # None THEN Denial(scope, tool_call.name)
    ELSE IF tool_call.fields # FieldsOf(tool_call.name) THEN "InvalidDefinition"
    ELSE IF TextBytes[tool_call.text] > MaxTextBytes(tool_call.name) THEN "LimitExceeded"
    ELSE None

(* The problem of the first call that has one. *)
PlanProblem(scope, calls) ==
    LET bad == {i \in DOMAIN calls : CallProblem(scope, calls[i]) # None}
    IN  IF bad = {} THEN None ELSE CallProblem(scope, calls[Min(bad)])

(* invoke_definition after its await: every call is planned before any is  *)
(* carried out.                                                            *)
Plan(c) ==
    LET d == Limits(c)
        calls == call[c].plan
        error == IF Preflight(c) # None THEN Preflight(c)
                 ELSE IF Len(calls) > d.max_tool_calls \/ Len(calls) > MaxToolCalls
                         \/ call[c].text > d.max_output_bytes THEN "LimitExceeded"
                 ELSE PlanProblem(call[c].scope, calls)
    IN  /\ call[c].pc = "plan"
        /\ \/ error # None /\ Replies(c, error)
           \/ error = None /\ calls = <<>> /\ Replies(c, "ok")
           \/ /\ error = None /\ calls # <<>>
              /\ call' = [call EXCEPT ![c].pc = "check", ![c].bytes = call[c].text]
        /\ UNCHANGED <<ports, definitions, values, answer, effects, signals>>

-----------------------------------------------------------------------------
(* The effects *)

NextCall(c) == call[c].plan[Len(call[c].events) + 1]

Check_FirstOnly(c) ==
    LET error == IF call[c].events = <<>> THEN Preflight(c) ELSE None IN
    /\ call[c].pc = "check"
    /\ \/ error # None /\ Replies(c, error)
       \/ error = None /\ call' = [call EXCEPT ![c].pc = "effect"]
    /\ UNCHANGED <<ports, definitions, values, answer, effects, signals>>

(* control.preflight before an effect. *)
Check(c) ==
    /\ call[c].pc = "check"
    /\ \/ Preflight(c) # None /\ Replies(c, Preflight(c))
       \/ Preflight(c) = None /\ call' = [call EXCEPT ![c].pc = "effect"]
    /\ UNCHANGED <<ports, definitions, values, answer, effects, signals>>

Reaches(c) == effects' = [effects EXCEPT ![c] = Append(@, NextCall(c))]

(* checked_output_bytes and the event, for an effect that returned size    *)
(* bytes; after the last one the invocation answers.                       *)
Complete(c, out, size) ==
    LET bytes == call[c].bytes + size
        events == Append(call[c].events, [call |-> NextCall(c), out |-> out, bytes |-> size])
        last == Len(events) = Len(call[c].plan)
    IN  IF bytes > Limits(c).max_output_bytes
          THEN Replies(c, "LimitExceeded")
          ELSE call' = [call EXCEPT ![c].events = events, ![c].bytes = bytes,
                                    ![c].pc = IF last THEN "done" ELSE "check",
                                    ![c].reply = IF last THEN "ok" ELSE None]

(* What ToolRegistry::invoke or Sandbox::execute may return for a call. *)
OutputsOf(name) ==
    IF ~ports.local THEN OutputBytes
    ELSE IF name = ExecuteTool THEN {} ELSE {FixedOutputs[name]}

PortReturns(c) ==
    /\ call[c].pc = "effect"
    /\ NextCall(c).name \notin {RecallTool, WriteTool, SearchTool}
    /\ Reaches(c)
    /\ \E size \in OutputsOf(NextCall(c).name) : Complete(c, <<>>, size)
    /\ UNCHANGED <<ports, definitions, values, answer, signals>>

(* It fails, with whatever error; DenySandbox always does, and a tool of   *)
(* FixedToolRegistry that was resolved never.                              *)
PortFails(c) ==
    /\ call[c].pc = "effect"
    /\ NextCall(c).name \notin {RecallTool, WriteTool, SearchTool}
    /\ ports.local => NextCall(c).name = ExecuteTool
    /\ Reaches(c)
    /\ Replies(c, IF NextCall(c).name = ExecuteTool THEN "SandboxDenied" ELSE "AdapterFailure")
    /\ UNCHANGED <<ports, definitions, values, answer, signals>>

Tenant(c) == call[c].request.tenant

recall_AnyTenant(tenant, query, limit) ==
    LET Matches(v) == contains(v, query)
        All(found, t) == found \o values[t]
    IN  Take(SelectSeq(FoldLeft(All, <<>>, SetToSeq(Tenants)), Matches), limit)

(* InMemoryMemoryStore::recall *)
recall(tenant, query, limit) ==
    LET Matches(v) == contains(v, query)
    IN  Take(SelectSeq(values[tenant], Matches), limit)

Recall(c) ==
    LET found == recall(Tenant(c), NextCall(c).text, Limits(c).max_items) IN
    /\ call[c].pc = "effect"
    /\ NextCall(c).name = RecallTool
    /\ Reaches(c)
    /\ Complete(c, found, TotalBytes(found))
    /\ UNCHANGED <<ports, definitions, values, answer, signals>>

(* InMemoryMemoryStore::write *)
Write(c) ==
    /\ call[c].pc = "effect"
    /\ NextCall(c).name = WriteTool
    /\ Reaches(c)
    /\ values' = [values EXCEPT ![Tenant(c)] = Append(@, NextCall(c).text)]
    /\ Complete(c, <<>>, 0)
    /\ UNCHANGED <<ports, definitions, answer, signals>>

SearchRequest(c) ==
    [tenant |-> Tenant(c), namespace |-> Limits(c).namespace,
     query |-> NextCall(c).text, limit |-> Limits(c).max_results]

IsAccepted(request) == IsQuery(request.query) /\ IsSearchLimit(request.limit)

SearchBlank_Skips(c) ==
    /\ call[c].pc = "effect"
    /\ NextCall(c).name = SearchTool
    /\ ~IsAccepted(SearchRequest(c))
    /\ Complete(c, <<>>, 0)
    /\ UNCHANGED <<ports, definitions, values, answer, effects, signals>>

(* Query::new refuses a blank query, which no check of the plan did. *)
SearchBlank(c) ==
    /\ call[c].pc = "effect"
    /\ NextCall(c).name = SearchTool
    /\ ~IsAccepted(SearchRequest(c))
    /\ Replies(c, map_knowledge_error("InvalidRequest"))
    /\ UNCHANGED <<ports, definitions, values, answer, effects, signals>>

(* What KnowledgeIndex::search may return. *)
IndexReturns(request) ==
    IF ports.local THEN {static_search(ports.index, request)} ELSE IndexAnswers

Search(c) ==
    /\ call[c].pc = "effect"
    /\ NextCall(c).name = SearchTool
    /\ IsAccepted(SearchRequest(c))
    /\ Reaches(c)
    /\ \E documents \in IndexReturns(SearchRequest(c)) :
         LET result == search(documents, SearchRequest(c)) IN
         \/ ~result.ok /\ Replies(c, map_knowledge_error(result.error))
         \/ result.ok /\ Complete(c, result.value, TotalBytes(TextsOf(result.value)))
    /\ UNCHANGED <<ports, definitions, values, answer, signals>>

(* An external index is unavailable. *)
SearchFails(c) ==
    /\ call[c].pc = "effect"
    /\ NextCall(c).name = SearchTool
    /\ IsAccepted(SearchRequest(c))
    /\ Reaches(c)
    /\ ~ports.local
    /\ Replies(c, map_knowledge_error("Unavailable"))
    /\ UNCHANGED <<ports, definitions, values, answer, signals>>

-----------------------------------------------------------------------------
(* The signals *)

Running(c) == call[c].pc \in {"generate", "racing", "plan", "check", "effect"}

(* An effect whose check has passed may still reach its port. *)
Raised(c) ==
    allowed' = IF c \in cancelled \cup elapsed THEN allowed
               ELSE [allowed EXCEPT ![c] =
                       Len(effects[c]) + IF call[c].pc = "effect" THEN 1 ELSE 0]

Cancel(c) ==
    /\ Running(c)
    /\ c \notin cancelled
    /\ cancelled' = cancelled \cup {c}
    /\ Raised(c)
    /\ UNCHANGED <<ports, definitions, values, call, answer, elapsed, effects>>

Elapse(c) ==
    /\ Running(c)
    /\ c \notin elapsed
    /\ elapsed' = elapsed \cup {c}
    /\ Raised(c)
    /\ UNCHANGED <<ports, definitions, values, call, answer, cancelled, effects>>

-----------------------------------------------------------------------------
Effect(c) ==
    \/ PortReturns(c) \/ PortFails(c)
    \/ Recall(c) \/ Write(c)
    \/ SearchBlank(c) \/ Search(c) \/ SearchFails(c)

Step(c) == Generate(c) \/ GenerateStatic(c) \/ Poll(c) \/ Plan(c) \/ Check(c) \/ Effect(c)

Next ==
    \/ \E d \in Offered : Register(d)
    \/ \E id \in AgentIds : Delete(id)
    \/ \E c \in Callers :
         \/ \E q \in Requests : Refuse(c, q) \/ Resolve(c, q)
         \/ \E a \in Responses \cup {[error |-> e] : e \in Failures} : ProviderAnswers(c, a)
         \/ Step(c)
         \/ Drop(c)
         \/ Cancel(c)
         \/ Elapse(c)

Spec == Init /\ [][Next]_vars

-----------------------------------------------------------------------------
(* Properties *)

Started(c) == call[c].pc # "idle" /\ "plan" \in DOMAIN call[c]

Permits(grant, name) ==
    CASE name \in {RecallTool, WriteTool} -> grant.memory
      [] name = SearchTool -> grant.knowledge
      [] name = ExecuteTool -> grant.sandbox
      [] OTHER -> name \in ToSet(grant.tools)

(* The authority of an invocation, and its bounds. *)
Granted(scope) ==
    LET d == scope.definition
    IN  <<d.id, scope.tools, scope.memory, scope.knowledge, scope.sandbox,
          d.namespace, d.max_items, d.max_results, d.max_tool_calls, d.max_output_bytes>>

(* A ceiling only removes: a call reaches a port only if both the          *)
(* definition the invocation resolved and the caller's ceiling permit it,  *)
(* whatever the model answers and whatever is registered meanwhile.  The   *)
(* digest an invocation reports is evidence of that grant: two that report *)
(* the same digest ran under the same agent, tools, flags and limits.      *)
EffectsWithinGrant ==
    /\ \A c \in Callers : \A i \in DOMAIN effects[c] :
         /\ Permits(Limits(c), effects[c][i].name)
         /\ call[c].request.ceiling # FullDefinition
              => Permits(call[c].request.ceiling, effects[c][i].name)
    /\ \A c, w \in {v \in Callers : call[v].reply = "ok"} :
         digest_scope(call[c].scope) = digest_scope(call[w].scope)
           => Granted(call[c].scope) = Granted(call[w].scope)

(* A response with one unacceptable call has no effect at all: before the  *)
(* first port is reached every call was planned, and their number checked. *)
(* Calls are then carried out once each, in the order of the response, and *)
(* an invocation that answers Ok has carried out and reported every one.   *)
EffectsFollowPlan ==
    \A c \in Callers : Started(c) =>
        /\ effects[c] # <<>> =>
             /\ Len(call[c].plan) <= Limits(c).max_tool_calls
             /\ \A i \in DOMAIN call[c].plan : CallProblem(call[c].scope, call[c].plan[i]) = None
        /\ IsPrefix(effects[c], call[c].plan)
        /\ call[c].reply = "ok" =>
             /\ effects[c] = call[c].plan
             /\ [i \in DOMAIN call[c].events |-> call[c].events[i].call] = call[c].plan

(* Once a signal is raised no further call reaches a port, except the one  *)
(* whose preflight had already passed.                                     *)
SignalStopsEffects ==
    \A c \in cancelled \cup elapsed : Len(effects[c]) <= allowed[c]

(* What the static index owes a search: the first matches of the scope, in *)
(* the order of their ids, as many as the limit allows.                    *)
FirstMatches(c, event) ==
    LET matching == {d \in ports.index : /\ d.tenant = Tenant(c)
                                         /\ d.namespace = Limits(c).namespace
                                         /\ contains(d.text, event.call.text)}
        found == ToSet(event.out)
    IN  /\ found \subseteq matching
        /\ Cardinality(found) = Min({Limits(c).max_results, Cardinality(matching)})
        /\ \A d \in found, e \in matching \ found : d.id < e.id

(* What an invocation reports belongs to its tenant: a recalled value was  *)
(* written by an invocation of the tenant, and a search result is of the   *)
(* tenant and of the definition's namespace, whatever the index returned;  *)
(* neither exceeds the number the definition allows.  Of the static index  *)
(* a search reports exactly the first matches, and the service never       *)
(* refuses what that index returns as a violation of its contract.         *)
ResultsStayInTenant ==
    \A c \in Callers : Started(c) =>
      /\ ports.local /\ effects[c] # <<>> /\ Last(effects[c]).name = SearchTool
           => call[c].reply # "AdapterFailure"
      /\ \A i \in DOMAIN call[c].events :
        LET event == call[c].events[i] IN
        /\ event.call.name = RecallTool =>
             /\ Len(event.out) <= Limits(c).max_items
             /\ \A j \in DOMAIN event.out : \E w \in Callers : \E k \in DOMAIN effects[w] :
                   /\ effects[w][k].name = WriteTool
                   /\ effects[w][k].text = event.out[j]
                   /\ Tenant(w) = Tenant(c)
        /\ event.call.name = SearchTool =>
             /\ Len(event.out) <= Limits(c).max_results
             /\ IsInjective(event.out)
             /\ \A j \in DOMAIN event.out :
                   /\ event.out[j].tenant = Tenant(c)
                   /\ event.out[j].namespace = Limits(c).namespace
             /\ ports.local => FirstMatches(c, event)

=============================================================================
