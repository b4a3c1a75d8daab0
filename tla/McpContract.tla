---------------------------- MODULE McpContract ----------------------------
(***************************************************************************)
(* Namespaces and tool names of the MCP contract.  A name is a sequence of *)
(* symbols: words of lower-case letters, digits and underscores; sizes     *)
(* count symbols.                                                          *)
(***************************************************************************)
EXTENDS Integers, FiniteSets, Sequences, SequencesExt, Results

CONSTANTS
    Words, Digits,
    MAX_SEGMENT_BYTES

FACTORY_NAMESPACE == <<"factory">>

is_valid_segment(candidate) ==
    /\ Len(candidate) \in 1 .. MAX_SEGMENT_BYTES
    /\ candidate[1] \in Words
    /\ ToSet(candidate) \subseteq Words \cup Digits \cup {"_"}

Namespace(candidate) ==
    IF is_valid_segment(candidate) THEN Ok(candidate) ELSE Err("InvalidNamespace")

is_factory_reserved(namespace) == namespace = FACTORY_NAMESPACE

ToolName(namespace, operation) ==
    LET joined == namespace \o <<"_">> \o operation
    IN  IF ~is_valid_segment(operation) \/ Len(joined) > MAX_SEGMENT_BYTES * 2 + 1
          THEN Err("InvalidOperation") ELSE Ok(joined)

DispatchOutcome(payload, is_error) == [payload |-> payload, is_error |-> is_error]
DispatchErrors == {"UnknownTool", "MalformedArguments", "Internal"}

=============================================================================
