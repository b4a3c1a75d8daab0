-------------------------- MODULE AggregateRouter --------------------------
(***************************************************************************)
(* The router that composes the contributions of bricks and of the project *)
(* into one MCP server.  A contribution is its namespace and the tools it  *)
(* declares, each a name and the size of its descriptor.                   *)
(***************************************************************************)
EXTENDS ProjectScaffold

CONSTANTS
    MAX_CONTRIBUTIONS, MAX_TOOLS, MAX_AGGREGATE_SCHEMA_BYTES,
    Contributions,          \* what a project may compose
    ToolArguments           \* the arguments of a call

VARIABLES
    builder,                \* AggregateRouterBuilder: bricks and meta
    router,                 \* what build returned, none before
    called                  \* the last call of a tool

routing == <<builder, router, called>>

Registered == [contributions |-> <<>>, seen |-> {}, owners |-> <<>>, schema_bytes |-> 0]

(* A router that lets the last contribution of a tool name have it. *)
RegisterTool_LastWins(registered, tool, namespace, index) ==
    IF ~registered.ok THEN registered
    ELSE IF ~IsPrefix(namespace \o <<"_">>, tool.name) THEN Err("ToolNameNamespaceMismatch")
    ELSE Ok([registered.value EXCEPT
               !.owners = (tool.name :> index) @@ @,
               !.schema_bytes = @ + Len(tool.name) + tool.bytes])

(* The tools of one contribution, in order: the first that is refused       *)
(* refuses the router.                                                     *)
RegisterTool(registered, tool, namespace, index) ==
    IF ~registered.ok THEN registered
    ELSE IF ~IsPrefix(namespace \o <<"_">>, tool.name) THEN Err("ToolNameNamespaceMismatch")
    ELSE IF tool.name \in DOMAIN registered.value.owners THEN Err("DuplicateToolName")
    ELSE Ok([registered.value EXCEPT
               !.owners = (tool.name :> index) @@ @,
               !.schema_bytes = @ + Len(tool.name) + tool.bytes])

register_contribution(registered, contribution) ==
    LET namespace == contribution.namespace
        Register(acc, tool) ==
          RegisterTool(acc, tool, namespace, Len(registered.value.contributions) + 1)
        entered == Ok([registered.value EXCEPT !.seen = @ \cup {namespace}])
        tools == FoldLeft(Register, entered, contribution.tools)
    IN  IF ~registered.ok THEN registered
        ELSE IF namespace \in registered.value.seen THEN Err("DuplicateNamespace")
        ELSE IF ~tools.ok THEN tools
        ELSE Ok([tools.value EXCEPT !.contributions = Append(@, contribution)])

RegisterBrick(registered, contribution) ==
    IF registered.ok /\ is_factory_reserved(contribution.namespace) THEN Err("ReservedNamespace")
    ELSE register_contribution(registered, contribution)

RegisterMeta(registered, contribution) ==
    IF registered.ok /\ ~is_factory_reserved(contribution.namespace)
      THEN Err("NonReservedProjectMetaNamespace")
    ELSE register_contribution(registered, contribution)

build(bricks, meta) ==
    LET registered == FoldLeft(RegisterMeta, FoldLeft(RegisterBrick, Ok(Registered), bricks), meta)
    IN  IF Len(bricks) + Len(meta) > MAX_CONTRIBUTIONS THEN Err("TooManyContributions")
        ELSE IF ~registered.ok THEN registered
        ELSE IF Cardinality(DOMAIN registered.value.owners) > MAX_TOOLS THEN Err("TooManyTools")
        ELSE IF registered.value.schema_bytes > MAX_AGGREGATE_SCHEMA_BYTES
          THEN Err("SchemaBudgetExceeded")
        ELSE Ok([tools |-> DOMAIN registered.value.owners,
                 owner |-> registered.value.owners,
                 contributions |-> registered.value.contributions])

(* split_once at the first underscore; a name without one is both halves. *)
FirstUnderscore(name) == SelectInSeq(name, LAMBDA b : b = "_")

namespace_of(name) ==
    LET head == IF FirstUnderscore(name) = 0 THEN name
                ELSE SubSeq(name, 1, FirstUnderscore(name) - 1)
    IN  IF Namespace(head).ok THEN head ELSE FACTORY_NAMESPACE

operation_of(name) == SubSeq(name, FirstUnderscore(name) + 1, Len(name))

(* What a contribution may answer; that of the project brick is modelled. *)
Dispatched(contribution, tool, arguments) ==
    IF contribution.namespace = PROJECT_NAMESPACE THEN {dispatch(tool, arguments)}
    ELSE {Ok(DispatchOutcome("answer", is_error)) : is_error \in BOOLEAN}
           \cup {Err(e) : e \in DispatchErrors}

(* call_tool, when the contribution answers with the outcome. *)
Answer(outcome) ==
    IF outcome.ok THEN IF outcome.value.is_error THEN "tool_error" ELSE "success"
    ELSE CASE outcome.error = "UnknownTool" -> "method_not_found"
           [] outcome.error = "MalformedArguments" -> "invalid_params"
           [] outcome.error = "Internal" -> "internal_error"

Call(name, to, tool, answer) == [name |-> name, to |-> to, tool |-> tool, answer |-> answer]

-----------------------------------------------------------------------------

RouterInit == builder = [bricks |-> <<>>, meta |-> <<>>] /\ router = <<>> /\ called = <<>>

with_brick(contribution) ==
    /\ router = <<>> /\ Len(builder.bricks) + Len(builder.meta) <= MAX_CONTRIBUTIONS
    /\ builder' = [builder EXCEPT !.bricks = Append(@, contribution)]
    /\ UNCHANGED <<router, called>>

with_project_meta(contribution) ==
    /\ router = <<>> /\ Len(builder.bricks) + Len(builder.meta) <= MAX_CONTRIBUTIONS
    /\ builder' = [builder EXCEPT !.meta = Append(@, contribution)]
    /\ UNCHANGED <<router, called>>

Build ==
    /\ router = <<>>
    /\ router' = <<build(builder.bricks, builder.meta)>>
    /\ UNCHANGED <<builder, called>>

call_tool(name, arguments) ==
    LET served == Head(router).value
        tool == ToolName(namespace_of(name), operation_of(name))
        contribution == served.contributions[served.owner[name]]
    IN  /\ router # <<>> /\ Head(router).ok
        /\ IF name \notin served.tools
             THEN called' = <<Call(name, <<>>, <<>>, "method_not_found")>>
           ELSE IF ~tool.ok THEN called' = <<Call(name, <<>>, <<>>, "internal_error")>>
           ELSE \E outcome \in Dispatched(contribution, tool.value, arguments) :
                  called' = <<Call(name, <<contribution>>, tool.value, Answer(outcome))>>
        /\ UNCHANGED <<builder, router>>

ToolNames == UNION {{t.name : t \in ToSet(c.tools)} : c \in Contributions}

RouterNext ==
    \/ \E c \in Contributions : with_brick(c) \/ with_project_meta(c)
    \/ Build
    \/ \E name \in ToolNames, arguments \in ToolArguments : call_tool(name, arguments)

=============================================================================
