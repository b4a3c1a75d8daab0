--------------------------- MODULE SandboxService ---------------------------
(***************************************************************************)
(* The sandbox service behind its MCP tools, and the telemetry it emits.   *)
(* A call is two steps.  The first checks the input, authorises the call   *)
(* and has its effect in the sandbox adapter; the second emits the event   *)
(* and projects the result.  Calls of other tenants, and other emitters,   *)
(* come in between.                                                        *)
(*                                                                         *)
(* The adapter is a port, here with one sandbox for each tenant: it fails  *)
(* with any error of the port, and may then have had its effect or not.    *)
(***************************************************************************)
EXTENDS TelemetryService

CONSTANTS
    Callers,                \* concurrent tool calls
    SandboxTenants,         \* tenants, each with one sandbox
    Commands,               \* inputs of Command::new
    Outputs,                \* lengths of what a command prints
    MAX_PROGRAM_BYTES, MAX_ARGUMENTS, MAX_ARGUMENT_BYTES, MAX_ARGUMENTS_BYTES,
    MAX_WORKING_DIRECTORY_BYTES, MAX_TIMEOUT_MILLIS,
    MaxDto, MaxResponse,    \* MAX_DTO_BYTES, MAX_RESPONSE_BYTES
    MaxCalls                \* bound: calls that reach the adapter

VARIABLES
    sandboxes,              \* tenant -> state of its sandbox in the adapter
    calls,                  \* caller -> the call between its two steps, an Option
    performed               \* history: correlation -> the operation the adapter performed

adapter == <<sandboxes, calls, performed>>
vars == <<ring, meter, answer, adapter>>

SandboxTools == {"sandbox_start", "sandbox_execute", "sandbox_status", "sandbox_stop"}
SandboxGate == GateOutcomes(SandboxTools)

(* SandboxOperation, by tool, as operation_name spells it. *)
operation_name ==
    [tool \in SandboxTools |->
       CASE tool = "sandbox_start" -> "start" [] tool = "sandbox_execute" -> "execute"
         [] tool = "sandbox_status" -> "status" [] tool = "sandbox_stop" -> "stop"]

(* What tool_response shows of a SandboxError; OperationFailed is its rest. *)
SandboxErrors == {"invalid_request", "not_found", "denied", "limit_exceeded", "timeout",
                  "unavailable", "outcome_unknown", "operation_failed"}

(* Command::new.  Limits come before the syntax of the texts. *)
NewCommand(c) ==
    LET argument_bytes == FoldLeft(LAMBDA n, a : n + a.bytes, 0, c.arguments)
    IN  IF \/ c.program.bytes > MAX_PROGRAM_BYTES \/ Len(c.arguments) > MAX_ARGUMENTS
           \/ \E i \in DOMAIN c.arguments : c.arguments[i].bytes > MAX_ARGUMENT_BYTES
           \/ argument_bytes > MAX_ARGUMENTS_BYTES
           \/ c.directory.bytes > MAX_WORKING_DIRECTORY_BYTES
           \/ c.timeout > MAX_TIMEOUT_MILLIS
          THEN Err("limit_exceeded")
        ELSE IF \/ c.program.bytes = 0 \/ ~c.program.clean
                \/ \E i \in DOMAIN c.arguments : ~c.arguments[i].clean
                \/ ~c.directory.clean \/ ~c.directory.relative
                \/ c.timeout = 0
          THEN Err("invalid_request")
        ELSE Ok(c)

(* The checks of a *_json method before it authorises the call. *)
InputError(tool, input) ==
    FirstOf(<<Refuse(input.bytes > MaxDto, "limit_exceeded"),
              Refuse(input.id = Malformed, "invalid_request"),
              IF tool # "sandbox_execute" \/ NewCommand(input.command).ok THEN None
              ELSE NewCommand(input.command).error>>)

(* SandboxMcp::authorize: every failure is a denial. *)
SandboxAuthorize(gate) == IF gate.ok THEN gate.value.context.tenant ELSE "denied"

(* The sandbox of a tenant after an operation the adapter performs. *)
Performs(tool, tenant, id) ==
    CASE tool = "sandbox_start" -> [id |-> tenant, after |-> "running", printed |-> 0]
      [] tool = "sandbox_stop" -> [id |-> id, after |-> "absent", printed |-> 0]
      [] OTHER -> [id |-> id, after |-> sandboxes[id], printed |-> 0]

(* The adapter finds only what belongs to the tenant of the context. *)
Found(tool, tenant, id) ==
    \/ tool = "sandbox_start"
    \/ tenant = id /\ sandboxes[id] \in (IF tool = "sandbox_execute" THEN {"running"}
                                         ELSE {"running", "stopped"})

Reply(caller, tool, result) ==
    answer' = [tool |-> tool, gate |-> <<>>, input |-> caller, result |-> result]

(* A call that is answered before the adapter is reached. *)
RefuseCall(caller, tool, input, gate) ==
    LET error == FirstOf(<<InputError(tool, input), Refuse(~gate.ok, "denied")>>)
    IN  /\ calls[caller] = <<>> /\ error # None
        /\ Reply(caller, tool, Err(error))
        /\ UNCHANGED <<ring, meter, adapter>>

(* The adapter performs the operation for the tenant of the grant. *)
Perform(caller, tool, input, gate, printed) ==
    LET tenant == SandboxAuthorize(gate)
        correlation == Cardinality(DOMAIN performed) + 1
        effect == [Performs(tool, tenant, input.id) EXCEPT !.printed = printed]
        operation == [tool |-> tool, tenant |-> tenant, id |-> effect.id, after |-> effect.after,
                      printed |-> effect.printed]
    IN  /\ calls[caller] = <<>> /\ Cardinality(DOMAIN performed) < MaxCalls
        /\ InputError(tool, input) = None /\ gate.ok /\ Found(tool, tenant, input.id)
        /\ sandboxes' = [sandboxes EXCEPT ![effect.id] = effect.after]
        /\ performed' = Append(performed, operation)
        /\ calls' = [calls EXCEPT ![caller] = <<[correlation |-> correlation] @@ operation>>]
        /\ UNCHANGED <<ring, meter, answer>>

(* The adapter fails, and the service returns its error without an event.   *)
(* What it could not confirm may have happened.                            *)
Fail(caller, tool, input, gate, error) ==
    LET tenant == SandboxAuthorize(gate)
        effect == Performs(tool, tenant, input.id)
    IN  /\ calls[caller] = <<>>
        /\ InputError(tool, input) = None /\ gate.ok
        /\ Found(tool, tenant, input.id) \/ error = "not_found"
        /\ \/ UNCHANGED sandboxes
           \/ /\ error = "outcome_unknown"
              /\ sandboxes' = [sandboxes EXCEPT ![effect.id] = effect.after]
        /\ Reply(caller, tool, Err(error))
        /\ UNCHANGED <<ring, meter, calls, performed>>

(* A container stops by itself. *)
Exit(tenant) ==
    /\ sandboxes[tenant] = "running"
    /\ sandboxes' = [sandboxes EXCEPT ![tenant] = "stopped"]
    /\ UNCHANGED <<ring, meter, answer, calls, performed>>

-----------------------------------------------------------------------------
(* The event of the service and the envelope TelemetryEventSink makes of it.*)
status_name(call) ==
    IF call.tool = "sandbox_stop" THEN "stopped" ELSE call.after

EnvelopeOf(call, now) ==
    LET Key(n, bytes) == Text(n, bytes)
        correlation == Key(1, 14) :> Text(call.correlation, 1)
        sandbox_id == Key(2, 10) :> Text(call.id, 36)
        status == IF call.tool = "sandbox_execute" THEN Empty
                  ELSE Key(3, 6) :> Text(status_name(call), 7)
    IN  [tenant_id |-> call.tenant, timestamp |-> now,
         event |-> [name |-> Text(operation_name[call.tool], 7), target |-> Text("sandbox", 7),
                    severity |-> 3, body |-> 0, attributes |-> correlation @@ sandbox_id @@ status]]

(* TelemetryEventSink::try_emit: the service ignores what becomes of it. *)
try_emit(call, now) ==
    IF local_guarantees.may_block \/ now = 0 THEN UNCHANGED ring
    ELSE SinkEmit(EnvelopeOf(call, now))

(* serialize, behind the project_* functions: a response that is too large  *)
(* is an error although the operation was performed.                       *)
Projected(call) ==
    IF call.printed > MaxResponse THEN Err("limit_exceeded")
    ELSE Ok([id |-> call.id, status |-> status_name(call)])

Finish(caller, now) ==
    LET call == Head(calls[caller])
    IN  /\ calls[caller] # <<>>
        /\ try_emit(call, now)
        /\ Reply(caller, call.tool, Projected(call))
        /\ calls' = [calls EXCEPT ![caller] = <<>>]
        /\ UNCHANGED <<meter, sandboxes, performed>>

SandboxInit ==
    /\ sandboxes = [t \in SandboxTenants |-> "absent"]
    /\ calls = [c \in Callers |-> <<>>]
    /\ performed = <<>>

Init == TelemetryInit /\ SandboxInit

=============================================================================
