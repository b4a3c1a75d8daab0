----------------------------- MODULE MCSurfaces -----------------------------
(***************************************************************************)
(* The agent and workflow surfaces for TLC: two principals of one tenant   *)
(* with different grants and a second tenant, one agent that is registered *)
(* and replaced, and one run key with documents that mean the same and     *)
(* documents that do not.                                                  *)
(***************************************************************************)
EXTENDS WorkflowMcp

(* Answers of different tools differ in the shape of their inputs: the tool *)
(* comes first, so that only answers of one tool are compared.              *)
vars == <<answer.tool, answer, definitions, invocations, phase, invoked, granted>>
View == <<definitions, invocations, phase, invoked, granted>>

MCContexts == {Context("t1", "p1"), Context("t1", "p2"), Context("t2", "p1")}

Entry(tenant, principal, capability, tools, memory) ==
    <<[tenant |-> tenant, principal |-> principal, capability |-> capability],
      [tools |-> tools, memory |-> memory, knowledge |-> FALSE, sandbox |-> FALSE,
       communication |-> FALSE]>>
All(tenant, principal, capabilities, tools, memory) ==
    [i \in DOMAIN capabilities |-> Entry(tenant, principal, capabilities[i], tools, memory)]
MCGrants ==
    All("t1", "p1", <<"agent_definition_validate", "agent_definition_register",
                      "agent_definition_get", "workflow_validate", "workflow_start",
                      "workflow_get", "workflow_list", "workflow_cancel">>, <<2, 1, 2>>, TRUE)
      \o All("t1", "p2", <<"workflow_start", "agent_invoke">>, <<2>>, FALSE)
      \o All("t2", "p1", <<"agent_definition_list", "agent_invoke", "workflow_get",
                           "workflow_list", "workflow_cancel">>, <<1>>, FALSE)

Definition(id, over) ==
    over @@ [id |-> id, texts_valid |-> TRUE, references_valid |-> TRUE, instructions |-> 1,
             model |-> "m", skills |-> <<>>, steering |-> <<>>, communication |-> FALSE,
             tools |-> <<1>>, memory |-> TRUE, max_items |-> 1, knowledge |-> FALSE,
             max_results |-> 1, sandbox |-> TRUE, max_tool_calls |-> 1, max_output_bytes |-> 1,
             bytes |-> 2, summary |-> 1]
MCBuiltins == ("b1" :> Definition("b1", [tools |-> <<1, 2>>, bytes |-> 3]))
MCDefinitionInputs ==
    {Definition("a1", <<>>), Definition("a1", [tools |-> <<2, 3>>, sandbox |-> FALSE]),
     Definition("b1", <<>>), Definition("bad", <<>>), Definition("a1", [max_items |-> 0]),
     Definition("a1", [references_valid |-> FALSE]), Definition("a1", [model |-> "x"])}
NoTexts == <<>>
MCInvokeInputs ==
    [id : {"a1", "b1", "a2", "bad"}, bytes : {1}] \cup {[id |-> "a1", bytes |-> 2]}
MCInvocationAnswers ==
    {[ok |-> TRUE, value |-> "output", bytes |-> 2], [ok |-> TRUE, value |-> "output", bytes |-> 3],
     [ok |-> FALSE, error |-> "ToolDisallowed"], [ok |-> FALSE, error |-> "Cancelled"]}

Workflow(agent, max_input_bytes, max_attempts) ==
    [agent_id |-> agent, max_attempts |-> max_attempts, max_input_bytes |-> max_input_bytes,
     max_evidence_bytes |-> 2]
MCCatalog == [w1 |-> Workflow("a1", 9, 1), w2 |-> Workflow("b1", 0, 1), w3 |-> Workflow("b1", 9, 2)]
MCWorkflowInputs ==
    {[id |-> id, agent_id |-> agent, max_input_bytes |-> bytes, max_evidence_bytes |-> 2] :
       id \in {"w1", "Bad"}, agent \in {"a1", "bad"}, bytes \in {1, 0}}

-----------------------------------------------------------------------------
(* Documents: "a" and its escaped spelling are one string, "b" another.     *)

MCSpelled == [q_a |-> "q_a", q_a_escaped |-> "q_a", q_b |-> "q_b"]
MCOrdered == <<"q_a", "q_b">>

Plain == <<"{", "q_a", ":", "1", ",", "q_b", ":", "2", "}">>
Swapped == <<"{", " ", "q_b", ":", "2", " ", ",", "q_a_escaped", ":", "1", "}", " ">>
Other == <<"{", "q_a", ":", "2", ",", "q_b", ":", "1", "}">>
Nested == <<"[", "{", "q_a", ":", "1", "}", ",", "1", "]">>
Twice == <<"{", "q_a", ":", "1", ",", "q_a_escaped", ":", "1", "}">>
TwiceNested == <<"[", "{", "q_b", ":", "1", ",", "q_b", ":", "1", "}", "]">>
Long == <<"[", "1", ",", "1", ",", "1", ",", "1", ",", "1", "]">>
Broken == {<<"{", "q_a", ":", "1", ",", "}">>, <<"1", "1">>, <<"[", "1">>, <<>>, <<"{", "1", "}">>}
TooLong == Long \o <<" ", " ">>

(* What each document means; a repeated key has no meaning. *)
Meaning(document) ==
    CASE document \in {Plain, Swapped} -> "a is 1 and b is 2"
      [] document = Other -> "a is 2 and b is 1"
      [] document = Nested -> "a list of a is 1, and 1"
      [] document \in {Long, TooLong} -> "five times 1"
      [] OTHER -> "nothing"

Start(workflow, key, document) ==
    [workflow_id |-> workflow, run_key |-> key, input |-> document]
MCStartInputs ==
    {Start("w1", "k1", d) : d \in {Plain, Swapped, Other, Nested, Twice, TwiceNested, Long, TooLong}}
      \cup {Start("w1", "k1", d) : d \in Broken}
      \cup {Start(w, "k1", Plain) : w \in {"w2", "w3", "unknown", "Bad"}}
      \cup {Start("w1", "", Plain)}

MCMalformedRunId == [tenant |-> "Bad", workflow_id |-> "w1", run_key |-> "k1", digest |-> <<>>]

MCInit ==
    /\ definitions = <<>> /\ invocations = {} /\ granted = <<>>
    /\ answer = [tool |-> None, trusted |-> <<>>, input |-> None, result |-> Err(None)]
    /\ Runner!Init

MCNext ==
    \/ AgentMcpNext /\ UNCHANGED <<phase, invoked, granted>>
    \/ WorkflowMcpNext

MCSpec == MCInit /\ [][MCNext]_vars

-----------------------------------------------------------------------------

(* Every agent runs under exactly the grant the resolver made for the call  *)
(* that invoked it or created its run, in the context of that call, and     *)
(* with no more than its definition and that grant both allow, although     *)
(* other principals replay the start with other grants and the definition   *)
(* is replaced before the invocation.                                       *)
InvokedUnderGrant ==
    \A v \in invocations :
      LET decision == Granted(v.context, v.capability)
      IN  /\ decision.kind = "allow"
          /\ v.ceiling = Ceiling(decision.grant)
          /\ v.scope.tools \subseteq ToSet(decision.grant.tools)
          /\ v.scope.memory => decision.grant.memory
          /\ v.scope.sandbox => decision.grant.sandbox


(* A tool answers, registers a definition, or starts or cancels a run only  *)
(* under a decision the resolver made for this context and this tool; the   *)
(* runs it tells of or cancels are the ones of the context's tenant.        *)
CallsStayInGrant ==
    [][LET a == answer'
           context == Head(a.trusted)
           told == IF a.tool = "workflow_list" THEN {s.id : s \in a.result.value}
                   ELSE {a.result.value.id}
           cancelled == {id \in RunIds : phase[id] # phase'[id] /\ phase'[id] = "Cancelled"}
       IN  /\ a.result.ok =>
                a.trusted # <<>> /\ Granted(context, a.tool).kind = "allow"
           /\ a.tool \in {"workflow_get", "workflow_list", "workflow_cancel"} /\ a.result.ok =>
                \A id \in told : id.tenant = context.tenant
           /\ \A id \in cancelled : a.tool = "workflow_cancel" /\ id.tenant = context.tenant
           /\ definitions' # definitions =>
                a.tool = "agent_definition_register" /\ a.result.ok
           /\ \A id \in DOMAIN granted' \ DOMAIN granted :
                Granted(granted'[id].context, "workflow_start").kind = "allow"]_vars

=============================================================================
