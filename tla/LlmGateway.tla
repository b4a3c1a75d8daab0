----------------------------- MODULE LlmGateway -----------------------------
(***************************************************************************)
(* The functions of the LLM gateway: what a request may hold, what a       *)
(* signal does to an invocation, which of three ready futures wins, and    *)
(* how the answer of a provider becomes a response or an error.  Texts are *)
(* their lengths in bytes.                                                 *)
(***************************************************************************)
EXTENDS Integers, FiniteSets, Sequences, SequencesExt

CONSTANTS
    MaxTools,               \* MAX_TOOLS
    MaxPromptTextBytes,     \* of the system text, and of the input
    MaxPromptBytes,         \* of both
    MaxSchemasBytes,        \* MAX_TOOL_SCHEMAS_BYTES
    MaxOutputTokens,
    MaxResponseTextBytes,   \* MAX_RESPONSE_TEXT_BYTES
    MaxResponseCalls,       \* MAX_TOOL_CALLS of the gateway
    MaxArgumentsBytes,      \* MAX_TOOL_ARGUMENTS_BYTES
    MaxReportedTokens,
    MaxTotalTokens

ASSUME GatewayAssumption ==
    {MaxTools, MaxPromptTextBytes, MaxPromptBytes, MaxSchemasBytes, MaxOutputTokens,
     MaxResponseTextBytes, MaxResponseCalls, MaxArgumentsBytes,
     MaxReportedTokens, MaxTotalTokens} \subseteq Nat

None == "none"

(* InvocationControl::preflight: cancellation before the deadline. *)
preflight(cancelled, elapsed) ==
    IF cancelled THEN "Cancelled" ELSE IF elapsed THEN "DeadlineExceeded" ELSE None

(* One poll of the biased select over cancellation, deadline and provider. *)
race_invocation(cancelled, elapsed, ready) ==
    IF cancelled THEN "Cancelled"
    ELSE IF elapsed THEN "DeadlineExceeded"
    ELSE IF ready THEN "Provider" ELSE "Pending"

(* Checks are made in order, and the first that fails is the answer. *)
FirstError(errors) ==
    LET failed == SelectSeq(errors, LAMBDA e : e # None)
    IN  IF failed = <<>> THEN None ELSE Head(failed)

validate_len(actual, maximum) == IF actual > maximum THEN "LimitExceeded" ELSE None

checked_sum(values, maximum) ==
    validate_len(FoldLeft(LAMBDA total, value : total + value, 0, values), maximum)

(* Prompt::new *)
PromptError(system, input) ==
    FirstError(<<validate_len(input, MaxPromptTextBytes),
                 validate_len(system, MaxPromptTextBytes),
                 checked_sum(<<system, input>>, MaxPromptBytes)>>)

(* GenerationLimits::new *)
LimitsError(max_output_tokens) ==
    IF max_output_tokens \in 1 .. MaxOutputTokens THEN None ELSE "LimitExceeded"

(* GenerateRequest::new: a tool has a name and a schema of some length. *)
RequestError(tools) ==
    LET Names == [i \in DOMAIN tools |-> tools[i].name]
        Schemas == [i \in DOMAIN tools |-> tools[i].schema]
    IN  FirstError(<<validate_len(Len(tools), MaxTools),
                     IF IsInjective(Names) THEN None ELSE "InvalidRequest",
                     checked_sum(Schemas, MaxSchemasBytes)>>)

(* map_error: what a failure of the client becomes. *)
ProviderErrors == {"Authentication", "RateLimited", "Unavailable", "Unsupported",
                   "ProtocolViolation", "InvalidRequest", "ProviderRejected"}

(* A counter of Usage, an Option<i32>, is a sequence of at most one number. *)
unwrap_or_default(option) == IF option = <<>> THEN 0 ELSE Head(option)

(* normalize_usage and TokenUsage::new. *)
UsageError(usage) ==
    LET input == unwrap_or_default(usage.prompt)
        output == unwrap_or_default(usage.completion)
        total == usage.total
    IN  IF usage.prompt = <<>> /\ usage.completion = <<>>
          THEN IF total = <<>> THEN None ELSE "ProtocolViolation"
        ELSE IF input < 0 \/ output < 0 \/ unwrap_or_default(total) < 0
          THEN "ProtocolViolation"
        ELSE IF \/ input > MaxReportedTokens \/ output > MaxReportedTokens
                \/ input + output > MaxTotalTokens
          THEN "LimitExceeded"
        ELSE IF total # <<>> /\ Head(total) # input + output
          THEN "ProtocolViolation"
        ELSE None

Arguments(calls) == [i \in DOMAIN calls |-> calls[i].json]

(* validate_fixture: what StaticFixture::new accepts. *)
FixtureError(fixture) ==
    FirstError(<<validate_len(fixture.text, MaxResponseTextBytes),
                 validate_len(Len(fixture.calls), MaxResponseCalls),
                 checked_sum(Arguments(fixture.calls), MaxArgumentsBytes)>>)

(* assemble_generate_response, against the names the request declares. *)
AssemblyError(declared, response) ==
    LET Undeclared == \E i \in DOMAIN response.calls : response.calls[i].name \notin declared
    IN  FirstError(<<validate_len(response.text, MaxResponseTextBytes),
                     validate_len(Len(response.calls), MaxResponseCalls),
                     IF Undeclared THEN "ProtocolViolation" ELSE None,
                     checked_sum(Arguments(response.calls), MaxArgumentsBytes)>>)

(* normalize_response.  A response is well-formed when its request id and  *)
(* the names and JSON objects of its calls are accepted.                   *)
ResponseError(declared, response) ==
    FirstError(<<IF response.well_formed THEN None ELSE "ProtocolViolation",
                 UsageError(response.usage),
                 AssemblyError(declared, response)>>)

=============================================================================
