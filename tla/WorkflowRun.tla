---------------------------- MODULE WorkflowRun ----------------------------
(***************************************************************************)
(* The data of the workflow crate: runs, attempts, events, the transitions *)
(* the runner builds (finish_success, finish_failure, started, cancelled)  *)
(* and the predicate the store accepts them with (transition_is_valid).    *)
(*                                                                         *)
(* Texts are abstracted to their sizes in bytes, because the only thing    *)
(* the code asks of them is whether the run's evidence still fits.  The    *)
(* sizes of the texts the runner itself writes are the real ones.          *)
(***************************************************************************)
EXTENDS Integers, Sequences, Functions

CONSTANTS
    MaxEvents,          \* MAX_EVENTS (64 in the code)
    MaxChunkBytes,      \* MAX_EVIDENCE_CHUNK_BYTES
    MaxEvidenceBytes,   \* MAX_EVIDENCE_BYTES
    MaxInputBytes,      \* MAX_JSON_INPUT_BYTES
    ValidPolicies,      \* policies that validate_invocation_policy accepts
    ItemKinds           \* the kinds of evidence an invoker emits

ASSUME LimitsAssumption ==
    /\ MaxEvents \in Nat /\ MaxEvents >= 2
    /\ {MaxChunkBytes, MaxEvidenceBytes, MaxInputBytes} \subseteq Nat

(* Byte lengths of the string literals of the crate that end up in events. *)
TextBytes == [
    started                          |-> 7,
    cancelled                        |-> 9,
    result                           |-> 6,
    invocation_failed                |-> 17,
    deadline_exceeded                |-> 17,
    evidence_limit_exceeded          |-> 23,
    invalid_invocation_result        |-> 25,
    invocation_control_failed        |-> 25,
    cancellation_registration_failed |-> 32 ]

MinTerminalEvidenceBytes ==
    TextBytes["started"] + TextBytes["invocation_failed"]
        + TextBytes["evidence_limit_exceeded"]

FailureReasons ==
    { "evidence_limit_exceeded", "cancelled", "deadline_exceeded",
      "invocation_failed", "invalid_invocation_result",
      "invocation_control_failed", "cancellation_registration_failed" }

None == "none"

RunStatus == {"Pending", "Running", "Succeeded", "Failed", "Cancelled"}

Terminal == {"Succeeded", "Failed", "Cancelled"}

TerminalReason == {"Completed", "InvocationFailed", "Cancelled"}

EvidenceItem == [kind : ItemKinds, bytes : Nat]

WorkflowEvent == [
    sequence : Nat,
    kind     : ItemKinds \cup {"started", "invocation_failed", "cancelled"},
    bytes    : Nat ]

(* What the attempt carries besides its identity, its agent and the policy *)
(* evidence frozen when it began; those three are one value, `policy`.     *)
Attempt == [
    policy                  : ValidPolicies,
    status                  : {"Running", "Succeeded", "Failed", "Cancelled"},
    capability_scope_digest : {None, "scope"},
    result                  : {None, "output"},
    error                   : FailureReasons \cup {None} ]

NoAttempt == [status |-> None]

Run == [
    status             : RunStatus,
    revision           : Nat,
    terminal_reason    : TerminalReason \cup {None},
    attempt            : Attempt \cup {NoAttempt},
    events             : Seq(WorkflowEvent),
    max_evidence_bytes : Nat ]

Transition == [
    status          : RunStatus,
    terminal_reason : TerminalReason \cup {None},
    attempt         : Attempt \cup {NoAttempt},
    events          : Seq(WorkflowEvent) ]

NoRun == [status |-> None]

-----------------------------------------------------------------------------

evidence_bytes(events) == SumFunction([i \in DOMAIN events |-> events[i].bytes])

PendingRun(budget) == [
    status |-> "Pending", revision |-> 0, terminal_reason |-> None,
    attempt |-> NoAttempt, events |-> <<>>, max_evidence_bytes |-> budget ]

validate_definition(definition) ==
    /\ definition.max_attempts = 1
    /\ definition.max_input_bytes \in 1 .. MaxInputBytes
    /\ definition.max_evidence_bytes \in MinTerminalEvidenceBytes .. MaxEvidenceBytes

(* The transition of execute that opens the attempt. *)
Started(policy) == [
    status |-> "Running", terminal_reason |-> None,
    attempt |-> [policy |-> policy, status |-> "Running",
                 capability_scope_digest |-> None, result |-> None, error |-> None],
    events |-> << [sequence |-> 1, kind |-> "started", bytes |-> TextBytes["started"]] >> ]

finish_success(run, items) == [
    status |-> "Succeeded", terminal_reason |-> "Completed",
    attempt |-> [run.attempt EXCEPT !.status = "Succeeded",
                     !.capability_scope_digest = "scope", !.result = "output"],
    events |-> [i \in DOMAIN items |->
                   [sequence |-> Len(run.events) + i,
                    kind |-> items[i].kind, bytes |-> items[i].bytes]] ]

finish_failure_StaleSequence(run, reason) == [
    status |-> "Failed", terminal_reason |-> "InvocationFailed",
    attempt |-> [run.attempt EXCEPT !.status = "Failed", !.error = reason],
    events |-> << [sequence |-> Len(run.events), kind |-> "invocation_failed",
                   bytes |-> TextBytes["invocation_failed"] + TextBytes[reason]] >> ]

finish_failure(run, reason) == [
    status |-> "Failed", terminal_reason |-> "InvocationFailed",
    attempt |-> [run.attempt EXCEPT !.status = "Failed", !.error = reason],
    events |-> << [sequence |-> Len(run.events) + 1, kind |-> "invocation_failed",
                   bytes |-> TextBytes["invocation_failed"] + TextBytes[reason]] >> ]

(* The transition cancel builds from the run it read. *)
Cancelling(run) == [
    status |-> "Cancelled", terminal_reason |-> "Cancelled",
    attempt |-> IF run.attempt = NoAttempt THEN NoAttempt
                ELSE [run.attempt EXCEPT !.status = "Cancelled"],
    events |-> << [sequence |-> Len(run.events) + 1, kind |-> "cancelled",
                   bytes |-> TextBytes["cancelled"]] >> ]

-----------------------------------------------------------------------------

same_attempt(previous, next) ==
    /\ previous # NoAttempt /\ next # NoAttempt
    /\ previous.policy = next.policy
    /\ previous.status = "Running"

LegalMove(run, t) ==
    \/ /\ run.status = "Pending" /\ t.status = "Running"
       /\ t.terminal_reason = None
       /\ run.attempt = NoAttempt /\ t.attempt # NoAttempt
       /\ t.attempt.policy \in ValidPolicies
       /\ t.attempt.status = "Running"
       /\ t.attempt.capability_scope_digest = None
       /\ t.attempt.result = None /\ t.attempt.error = None
    \/ /\ run.status = "Running" /\ t.status = "Succeeded"
       /\ t.terminal_reason = "Completed"
       /\ same_attempt(run.attempt, t.attempt)
       /\ t.attempt.status = "Succeeded"
       /\ t.attempt.result # None /\ t.attempt.error = None
    \/ /\ run.status = "Running" /\ t.status = "Failed"
       /\ t.terminal_reason = "InvocationFailed"
       /\ same_attempt(run.attempt, t.attempt)
       /\ t.attempt.status = "Failed"
       /\ t.attempt.result = None /\ t.attempt.error # None
    \/ /\ run.status = "Running" /\ t.status = "Cancelled"
       /\ t.terminal_reason = "Cancelled"
       /\ same_attempt(run.attempt, t.attempt)
       /\ t.attempt.status = "Cancelled"
       /\ t.attempt.result = None

LastSequence(run) ==
    IF run.events = <<>> THEN 0 ELSE run.events[Len(run.events)].sequence

transition_is_valid(run, expected, t) ==
    /\ run.status = expected
    /\ run.status \notin Terminal
    /\ t.events # <<>>
    /\ Len(run.events) + Len(t.events) <= MaxEvents
    /\ evidence_bytes(run.events \o t.events) <= run.max_evidence_bytes
    /\ \A i \in DOMAIN t.events : t.events[i].sequence = LastSequence(run) + i
    /\ LegalMove(run, t)

(* The run the store publishes when it accepts transition t. *)
Published(run, t) ==
    [run EXCEPT !.status = t.status, !.terminal_reason = t.terminal_reason,
                !.attempt = t.attempt, !.events = @ \o t.events, !.revision = @ + 1]

-----------------------------------------------------------------------------
(* EvidenceCollector, as the items one invocation has emitted so far.  Its *)
(* counters (limit, existing_events, used_bytes) and its output flag are   *)
(* functions of the active run and of those items.                         *)

CollectorFits(run) ==
    /\ evidence_bytes(run.events) <= run.max_evidence_bytes
    /\ Len(run.events) <= MaxEvents

HasOutput(items) == \E n \in DOMAIN items : items[n].kind = "result"

WithinEvidenceLimits(run, items, item) ==
    /\ Len(run.events) + Len(items) + 1 <= MaxEvents
    /\ item.bytes <= MaxChunkBytes
    /\ evidence_bytes(run.events \o items) + item.bytes <= run.max_evidence_bytes

EmitError_TwoResults(run, items, item) ==
    IF ~WithinEvidenceLimits(run, items, item) THEN "limit_exceeded" ELSE None

(* The error emit answers with, or None when it takes the item. *)
EmitError(run, items, item) ==
    IF ~WithinEvidenceLimits(run, items, item) THEN "limit_exceeded"
    ELSE IF item.kind = "result" /\ HasOutput(items) THEN "invalid_request"
    ELSE None

=============================================================================
