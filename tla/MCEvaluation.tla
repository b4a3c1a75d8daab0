---------------------------- MODULE MCEvaluation ----------------------------
(***************************************************************************)
(* Two callers; the run of the demo and one of another tenant; room for    *)
(* two results, which the definitions of one tenant can take; outputs that *)
(* pass, fail and are too long to be evidence.  The ceilings are scaled    *)
(* down to the sizes of these texts.  The deadline shares no state with    *)
(* the rest and is explored on its own.                                    *)
(***************************************************************************)
EXTENDS WorkflowEvaluationDemo

MCContexts == {Context("t1", "p1"), Context("t2", "p1")}
Entry(tenant, capability) ==
    <<[tenant |-> tenant, principal |-> "p1", capability |-> capability],
      [tools |-> <<1>>, memory |-> FALSE, knowledge |-> FALSE, sandbox |-> FALSE,
       communication |-> FALSE]>>
MCGrants ==
    <<Entry("t1", "evaluation_evaluate"), Entry("t1", "evaluation_get"),
      Entry("t2", "evaluation_evaluate"), Entry("t2", "evaluation_get"),
      Entry("t2", "evaluation_validate")>>

MCTenantOf == [demo |-> "t1", r2 |-> "t2"]
MCConfig == [max_results_per_tenant |-> 2, max_results_global |-> 2]

ExactOutput(expected) == [type |-> "exact_output", expected |-> expected]
EventKindCount(kind, expected) ==
    [type |-> "event_kind_count", kind |-> kind, expected |-> expected]
EventDataEquals(sequence, expected) ==
    [type |-> "event_data_equals", sequence |-> sequence, expected |-> expected]

Definition(id, criteria) ==
    [evaluator_id |-> id, evaluator_version |-> "v1", criteria |-> criteria]
MCDefinition == Definition("e", <<ExactOutput("done"), EventKindCount("result", 1)>>)
ByData == Definition("e", <<EventDataEquals(2, "done"), EventDataEquals(3, "")>>)
Definitions == {MCDefinition, ByData}

Input(run_id, definition) == [bytes |-> 1, run_id |-> run_id, definition |-> definition]
MCEvaluateInputs ==
    {Input("demo", MCDefinition), Input("demo", ByData), Input("r2", ByData)}
    \cup {Input("bad id", MCDefinition),
          [Input("r2", MCDefinition) EXCEPT !.bytes = 2],
          Input("r2", Definition("bad id", <<>>)),
          Input("r2", Definition("e", <<ExactOutput(""), ExactOutput(""), ExactOutput("")>>)),
          Input("r2", Definition("e", <<ExactOutput("0123456789")>>)),
          Input("r2", Definition("e", <<EventKindCount("", 0)>>))}

-----------------------------------------------------------------------------

ServiceAtRest == runs = <<>> /\ \A c \in Callers : calls[c] = Idle
MCInit == Init /\ DeadlineInit
ServiceStep(A) == DeadlineInit /\ A /\ UNCHANGED deadline
DeadlineStep(A) == ServiceAtRest /\ A /\ UNCHANGED vars
MCNext == ServiceStep(Next) \/ DeadlineStep(DeadlineNext)
all == <<vars, deadline>>
MCFairness ==
    /\ WF_all(DeadlineStep(Tick)) /\ WF_all(DeadlineStep(PollClock))
    /\ WF_all(DeadlineStep(PollRegister)) /\ WF_all(DeadlineStep(Sleep))
    /\ WF_all(DeadlineStep(TakeWaker)) /\ WF_all(DeadlineStep(Wake))
MCSpec == MCInit /\ [][MCNext]_all /\ MCFairness

(* Whatever executor answered, and whatever ended in the meantime, a stored *)
(* result is the one that evaluating its run again would give: the run has  *)
(* succeeded, the key has its tenant and revision, the digest is that of    *)
(* its evidence, and the verdict is about that evidence.  The size that     *)
(* decides beforehand whether a run is refused is that of its encoding.     *)
ResultsDescribeRuns ==
    /\ \A key \in DOMAIN results :
         \E definition \in Definitions :
           /\ evaluate(key.tenant_id, key.workflow_run_id, definition) = Ok(results[key])
           /\ results[key].logical_key = key /\ runs[key.workflow_run_id].status = "succeeded"
    /\ \A id \in DOMAIN runs :
         LET read == get_terminal(TenantOf[id], id)
         IN  read.ok /\ read.value # <<>> =>
               Size(snapshot_canonical_bytes(Head(read.value)))
                 = snapshot_canonical_len(Head(read.value))

Gate(tenant) == Ok([context |-> Context(tenant, "p1"), grant |-> <<>>])

(* What the tool evaluation_get_result answers for a result. *)
ReadBack(result, tenant) ==
    LET key == result.logical_key
    IN  get_json([bytes |-> 1, evaluator_id |-> key.evaluator_id,
                  evaluator_version |-> key.evaluator_version,
                  criterion_digest |-> key.criterion_digest, run_id |-> key.workflow_run_id,
                  workflow_revision |-> key.workflow_revision], Gate(tenant))

(* An evaluation never answers a conflict, and answers that the store is    *)
(* full only while the result is not in it.  The result it answers can be   *)
(* read back by its own tenant and by no other.                            *)
EvaluationAnswers(asked, result) ==
    LET evaluated == evaluate(asked.tenant, asked.run_id, asked.definition)
    IN  /\ result # Err("conflict")
        /\ result.ok => /\ ReadBack(result.value, asked.tenant) = result
                        /\ ~ReadBack(result.value, "t3").ok
        /\ result = Err("limit_exceeded") =>
             \/ evaluated.value.logical_key \notin DOMAIN results
             \/ ~result_json(evaluated.value).ok

(* A demo call answers what the store, the run and the newest record of the *)
(* telemetry say.                                                          *)
DemoAnswers(result) ==
    result.ok =>
      LET stored == evaluate(TENANT, DemoRun, DemoDefinition).value
          view == get_run(DemoRun).value
      IN  /\ stored.logical_key \in DOMAIN results
          /\ [run |-> result.value.workflow_run_id, hash |-> result.value.result_digest,
              evidence |-> result.value.evidence_digest, verdict |-> result.value.verdict]
             = [run |-> DemoRun, hash |-> stored.content_hash,
                evidence |-> stored.evidence_digest, verdict |-> stored.verdict]
          /\ Head(view).output = <<"done">>
          /\ Head(query_telemetry(1).value) = result.value

(* What the callers are told is what is stored: repeated and concurrent     *)
(* evaluations of a run agree, a full store still answers what it holds,    *)
(* and the demo, its runs and its telemetry tell the same story.            *)
AnswersAreStored ==
    \A c \in Callers :
      calls[c].at = "answered" =>
        LET asked == calls[c].asked
            result == calls[c].result
        IN  CASE asked.tool = "evaluation_evaluate" -> EvaluationAnswers(asked, result)
              [] asked.tool = Demo -> DemoAnswers(result)
              [] asked.tool = "refused" ->
                   \A input \in EvaluateInputs :
                     validate_json(input, Gate("t2")) = Ok("valid") =>
                       EvaluateChecks(input, Gate("t2")) # Err("InvalidDefinition")

(* A task that awaits the deadline is woken once the instant has passed: a  *)
(* poll that read the clock too early loses no wake-up to the thread.       *)
DeadlineWakes == elapsed ~> task = "ready"

=============================================================================
