----------------------- MODULE WorkflowEvaluationDemo -----------------------
(***************************************************************************)
(* Callers of one evaluation service: the MCP tools of the evaluation      *)
(* brick, and the demo, which runs its workflow first and emits an event   *)
(* after.  Every demo call uses the same tenant, run key and definition.   *)
(***************************************************************************)
EXTENDS EvaluationService

CONSTANTS
    Callers,                \* concurrent callers
    EvaluateInputs,         \* inputs of evaluation_evaluate_run
    DemoRun,                \* the run id the demo's identity derives
    DemoDefinition,         \* its evaluation definition
    MAX_RUN_ID_BYTES, MAX_TELEMETRY_QUERY_LIMIT

VARIABLES
    telemetry,              \* the records the demo's ring keeps, oldest first
    calls                   \* what each caller awaits, or was answered

vars == <<runs, results, telemetry, calls>>

Idle == [at |-> "idle"]
Demo == "factory_run_demo"
TENANT == TenantOf[DemoRun]
TELEMETRY_CAPACITY == MAX_TELEMETRY_QUERY_LIMIT

(* emit_telemetry: the attributes of the event, in a ring that keeps the    *)
(* newest.                                                                 *)
Attributes(result) ==
    [workflow_run_id |-> result.logical_key.workflow_run_id,
     evidence_digest |-> result.evidence_digest, result_digest |-> result.content_hash,
     verdict |-> result.verdict]

emit_telemetry(result) ==
    LET emitted == Append(telemetry, Attributes(result))
    IN  IF Len(emitted) > TELEMETRY_CAPACITY THEN Tail(emitted) ELSE emitted

(* What a demo call that answers returns: the attributes it emitted. *)
DemoAnswer(stored) ==
    IF ~stored.ok \/ stored.value = <<>> THEN Err("operation_failed")
    ELSE Ok(Attributes(Head(stored.value)))

(* How a call ends, once the service has answered it.  The caller keeps    *)
(* the answer until it returns.                                            *)
Respond(c, asked, stored) ==
    /\ calls' = [calls EXCEPT ![c] =
         [at |-> "answered", asked |-> asked,
          result |-> IF asked.tool = Demo THEN DemoAnswer(stored) ELSE AnswerStored(stored)]]
    /\ telemetry' = IF asked.tool = Demo /\ stored.ok /\ stored.value # <<>>
                      THEN emit_telemetry(Head(stored.value)) ELSE telemetry

(* What a caller asked the service for. *)
Asked(tool, tenant, run_id, definition) ==
    [tool |-> tool, tenant |-> tenant, run_id |-> run_id, definition |-> definition]

(* evaluate_and_store up to the await, over the runs as this step leaves   *)
(* them.                                                                   *)
BeginEvaluation(c, asked, prepared) ==
    LET matched == create_or_match(results, prepared.value.result)
    IN  IF ~prepared.ok
          THEN Respond(c, asked, prepared) /\ UNCHANGED results
        ELSE IF ~prepared.value.await
          THEN results' = matched.store /\ Respond(c, asked, matched.result)
        ELSE /\ calls' = [calls EXCEPT ![c] = [at |-> "assessing", asked |-> asked,
                                               work |-> prepared.value]]
             /\ UNCHANGED <<results, telemetry>>

-----------------------------------------------------------------------------

Init ==
    /\ runs = <<>> /\ results = <<>> /\ telemetry = <<>>
    /\ calls = [c \in Callers |-> Idle]

(* The runs of other workflows: their runner starts them, and their agent  *)
(* or a cancellation ends them.                                            *)
StartRun(id) ==
    /\ id \notin DOMAIN runs \cup {DemoRun}
    /\ runs' = id :> Begun(id) @@ runs
    /\ UNCHANGED <<results, telemetry, calls>>

EndRun(id) ==
    /\ id \in DOMAIN runs \ {DemoRun} /\ runs[id].status = "running"
    /\ \/ \E output \in Outputs : runs' = [runs EXCEPT ![id] = Succeeded(@, output)]
       \/ runs' = [runs EXCEPT ![id] = Ended(@, "failed", "invocation_failed", "x")]
       \/ runs' = [runs EXCEPT ![id] = Ended(@, "cancelled", "cancelled", "")]
    /\ UNCHANGED <<results, telemetry, calls>>

(* evaluate_json: the checks of the tool and the service, in one step.     *)
EvaluateRun(c, input, gate) ==
    LET checked == EvaluateChecks(input, gate)
        asked == Asked("evaluation_evaluate", checked.value, input.run_id, input.definition)
    IN  /\ calls[c] = Idle
        /\ IF checked.ok
             THEN BeginEvaluation(c, asked, Prepared(checked.value, input.run_id, input.definition))
           ELSE Respond(c, [tool |-> "refused"], checked) /\ UNCHANGED results
        /\ UNCHANGED runs

(* run_demo: the first call creates the run and executes it; a later one   *)
(* gets the run as it is, finished or not.                                 *)
RunDemo(c) ==
    /\ calls[c] = Idle
    /\ IF DemoRun \in DOMAIN runs
         THEN calls' = [calls EXCEPT ![c] = [at |-> "started"]] /\ UNCHANGED runs
       ELSE /\ runs' = DemoRun :> Begun(DemoRun) @@ runs
            /\ calls' = [calls EXCEPT ![c] = [at |-> "running"]]
    /\ UNCHANGED <<results, telemetry>>

(* RuntimeInvoker::invoke: the static provider answers "done", unless the   *)
(* deadline of the invocation passed before it was asked.                  *)
Invoked(c) ==
    /\ calls[c].at = "running"
    /\ \/ runs' = [runs EXCEPT ![DemoRun] = Succeeded(@, "done")]
       \/ runs' = [runs EXCEPT ![DemoRun] = Ended(@, "failed", "invocation_failed", "x")]
    /\ calls' = [calls EXCEPT ![c] = [at |-> "started"]]
    /\ UNCHANGED <<results, telemetry>>

EvaluateDemo(c) ==
    /\ calls[c].at = "started"
    /\ BeginEvaluation(c, Asked(Demo, TENANT, DemoRun, DemoDefinition),
                       Prepared(TENANT, DemoRun, DemoDefinition))
    /\ UNCHANGED runs

(* evaluate_and_store behind the await: either executor answered, or the   *)
(* port failed.                                                            *)
Finish(c) ==
    LET call == calls[c]
        Built(assessment) == build_result(call.work.key, call.work.snapshot, assessment)
        Store(built) ==
          LET matched == create_or_match(results, built.value)
          IN  IF ~built.ok THEN Respond(c, call.asked, Err("AdapterFailure")) /\ UNCHANGED results
              ELSE results' = matched.store /\ Respond(c, call.asked, matched.result)
    IN  /\ call.at = "assessing"
        /\ \/ Store(Built(deterministic_assessment(call.work.definition, call.work.snapshot)))
           \/ Store(Built(SerdesAssess(call.work.definition, call.work.snapshot)))
           \/ Respond(c, call.asked, Err("AdapterFailure")) /\ UNCHANGED results
        /\ UNCHANGED runs

(* get_run: a bounded id, and only the demo's tenant. *)
get_run(run_id) ==
    IF run_id = "" THEN Err("invalid_request")
    ELSE IF Len(run_id) > MAX_RUN_ID_BYTES THEN Err("limit_exceeded")
    ELSE IF ~is_logical_id(run_id) THEN Err("invalid_request")
    ELSE IF run_id \notin DOMAIN runs THEN Ok(<<>>)
    ELSE IF runs[run_id].tenant # TENANT THEN Ok(<<>>)
    ELSE LET run == runs[run_id]
         IN  Ok(<<[run_id |-> run.id, status |-> run.status, reason |-> run.terminal_reason,
                   output |-> Head(run.attempt).result]>>)

(* query_telemetry: the newest first. *)
query_telemetry(limit) ==
    IF limit = 0 THEN Err("invalid_request")
    ELSE IF limit > MAX_TELEMETRY_QUERY_LIMIT THEN Err("limit_exceeded")
    ELSE Ok(SubSeq(Reverse(telemetry), 1, Min({limit, Len(telemetry)})))

Return(c) ==
    /\ calls[c].at = "answered"
    /\ calls' = [calls EXCEPT ![c] = Idle]
    /\ UNCHANGED <<runs, results, telemetry>>

Next ==
    \/ \E id \in RunIds : StartRun(id) \/ EndRun(id)
    \/ \E c \in Callers :
         \/ \E input \in EvaluateInputs, gate \in GateFor(EvaluationGates, "evaluation_evaluate") :
              EvaluateRun(c, input, gate)
         \/ RunDemo(c) \/ Invoked(c) \/ EvaluateDemo(c) \/ Finish(c) \/ Return(c)

Spec == Init /\ [][Next]_vars

(***************************************************************************)
(* The deadline the demo hands to an invocation: a future that a task      *)
(* polls, and a thread that the first poll spawns, which sleeps until the  *)
(* instant and wakes the task.  The clock is read before the lock of the   *)
(* shared state is taken, and the waker is called after it is released.    *)
(*                                                                         *)
(* The task is woken by other futures it awaits, too, and is polled again  *)
(* when it was woken during a poll, as an executor does.                   *)
(***************************************************************************)

VARIABLES
    elapsed,                \* Instant::now() >= instant
    task,                   \* the task that awaits the deadline
    notified,               \* it was woken while it was polled
    waker,                  \* DeadlineState.waker is set
    worker                  \* the thread; "none" until worker_started

deadline == <<elapsed, task, notified, waker, worker>>

DeadlineInit ==
    /\ elapsed = FALSE /\ notified = FALSE /\ waker = FALSE
    /\ task = "runnable" /\ worker = "none"

Tick == ~elapsed /\ elapsed' = TRUE /\ UNCHANGED <<task, notified, waker, worker>>

(* poll, up to the lock. *)
PollClock ==
    /\ task = "runnable"
    /\ task' = IF elapsed THEN "ready" ELSE "polled"
    /\ notified' = FALSE
    /\ UNCHANGED <<elapsed, waker, worker>>

(* poll, under the lock. *)
PollRegister ==
    /\ task = "polled"
    /\ waker' = TRUE
    /\ worker' = IF worker = "none" THEN "sleeping" ELSE worker
    /\ task' = IF notified THEN "runnable" ELSE "pending"
    /\ UNCHANGED <<elapsed, notified>>

(* A thread that may wake up before the instant. *)
Sleep_Early ==
    /\ worker = "sleeping"
    /\ worker' = "slept"
    /\ UNCHANGED <<elapsed, task, notified, waker>>

(* thread::sleep returns no earlier than the instant. *)
Sleep ==
    /\ worker = "sleeping" /\ elapsed
    /\ worker' = "slept"
    /\ UNCHANGED <<elapsed, task, notified, waker>>

(* The thread takes the waker under the lock. *)
TakeWaker ==
    /\ worker = "slept"
    /\ worker' = IF waker THEN "waking" ELSE "ended"
    /\ waker' = FALSE
    /\ UNCHANGED <<elapsed, task, notified>>

WakeTask ==
    /\ task' = IF task = "pending" THEN "runnable" ELSE task
    /\ notified' = (task = "polled" \/ notified)

Wake ==
    /\ worker = "waking"
    /\ worker' = "ended"
    /\ WakeTask
    /\ UNCHANGED <<elapsed, waker>>

(* Another future of the task, such as the provider's, makes progress. *)
OtherWake ==
    /\ task \in {"pending", "polled"}
    /\ WakeTask
    /\ UNCHANGED <<elapsed, waker, worker>>

DeadlineNext == Tick \/ PollClock \/ PollRegister \/ Sleep \/ TakeWaker \/ Wake \/ OtherWake

=============================================================================
