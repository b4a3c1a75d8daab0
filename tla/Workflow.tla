------------------------------ MODULE Workflow ------------------------------
(***************************************************************************)
(* WorkflowRunner over InMemoryWorkflowStore: any number of start calls    *)
(* and cancel calls, each a process whose steps are the critical sections  *)
(* of the code.  Every lock acquisition of the store's state or of the     *)
(* cancellation registry is a step; the code between two of them touches   *)
(* only the call's own locals and, just before a registration, the atomic  *)
(* token counter, which belongs to the same step.                          *)
(*                                                                         *)
(* A start call may be dropped while it awaits the invocation, and only    *)
(* there: execute has no other await.  The invoker is the environment: it  *)
(* emits evidence items and returns, under the rules that the invokers of  *)
(* the crate follow.                                                       *)
(***************************************************************************)
EXTENDS WorkflowRun

CONSTANTS
    Tenants, Workflows, RunKeys, Digests, Policies, Agents,
    Starters,           \* start calls
    Cancellers,         \* cancel calls
    StartRequests,      \* the requests start calls are made with
    RunKeyBytes,        \* length of each run key
    Catalog,            \* the workflow definitions, by workflow
    KnownAgents,        \* the agents validate_agent knows
    EvidenceItems,      \* what an invoker may emit
    MaxRegistration     \* u64::MAX, the last value of next_registration

MaxRunKeyBytes == 128

Malformed == "malformed"

Identities == [tenant : Tenants, workflow : Workflows,
               run_key : RunKeys, digest : Digests]

StartKeys == [tenant : Tenants, workflow : Workflows, run_key : RunKeys]

Definition == [max_attempts : Nat, max_input_bytes : Nat,
               max_evidence_bytes : Nat, agent : Agents]

StartRequest == [tenant : Tenants, workflow : Workflows, run_key : RunKeys,
                 input : [bytes : Nat, digest : Digests \cup {Malformed}],
                 policy : Policies]

ASSUME WorkflowAssumption ==
    /\ DOMAIN Catalog \subseteq Workflows
    /\ \A w \in DOMAIN Catalog : Catalog[w] \in Definition
    /\ RunKeyBytes \in [RunKeys -> Nat]
    /\ StartRequests \subseteq StartRequest
    /\ EvidenceItems \subseteq EvidenceItem
    /\ MaxRegistration \in Nat \ {0}
    /\ Malformed \notin Digests
    /\ ValidPolicies \subseteq Policies

VARIABLES
    runs,               \* the store: run by identity (its id is a hash of it)
    identities,         \* the store: identities with a run
    keys,               \* the store: identity that owns each start key
    cancellations,      \* the runner's registry of active signals, by run
    next_registration,  \* the runner's token counter
    signalled,          \* signals on which cancel() was called
    start,              \* the start calls: control state and locals
    cancel,             \* the cancel calls: control state and locals
    invocations         \* history: times the invoker was called, by run

store == <<runs, identities, keys>>
registry == <<cancellations, next_registration>>
vars == <<runs, identities, keys, cancellations, next_registration, signalled,
          start, cancel, invocations>>

-----------------------------------------------------------------------------
(* The calls.  A start call's signal is named by the call itself: each     *)
(* execution creates a fresh one.                                          *)

NoIdentity == [tenant |-> None]
NoEntry == [token |-> 0]
Reply(kind, value) == [kind |-> kind, value |-> value]
WorkflowErrors == {"invalid_request", "not_found", "invalid_definition",
                   "limit_exceeded", "run_key_conflict", "conflict",
                   "adapter_failure", "cancelled", "deadline_exceeded"}
NoReply == Reply("pending", None)
Summary(run) == Reply("summary", run.status)

StartPc == {"idle", "begin", "register", "registered", "invoking", "unregister",
            "finish", "reread", "done", "dropped"}

(* Between begin and finish the call is the executor of its run. *)
ExecutingPc == {"begin", "register", "registered", "invoking", "unregister", "finish"}

CancelPc == {"idle", "lookup", "signal", "publish", "reread", "done"}

Outcome(kind, error) == [kind |-> kind, error |-> error]

IdleStart == [pc |-> "idle", id |-> NoIdentity, policy |-> None, active |-> NoRun,
              token |-> 0, evidence |-> <<>>, outcome |-> Outcome(None, None),
              reply |-> NoReply]

IdleCancel == [pc |-> "idle", id |-> NoIdentity, tenant |-> None, run |-> NoRun,
               signal |-> None, reply |-> NoReply]

Init ==
    /\ runs = [i \in Identities |-> NoRun]
    /\ identities = {}
    /\ keys = [k \in StartKeys |-> NoIdentity]
    /\ cancellations = [i \in Identities |-> NoEntry]
    /\ next_registration = 1
    /\ signalled = {}
    /\ start = [p \in Starters |-> IdleStart]
    /\ cancel = [c \in Cancellers |-> IdleCancel]
    /\ invocations = [i \in Identities |-> 0]

-----------------------------------------------------------------------------
(* InMemoryWorkflowStore *)

StartKeyOf(i) == [tenant |-> i.tenant, workflow |-> i.workflow, run_key |-> i.run_key]

get(tenant, i) == IF i.tenant = tenant THEN runs[i] ELSE NoRun

TransitionResult(tenant, i, revision, expected, t) ==
    CASE get(tenant, i) = NoRun -> "NotFound"
      [] /\ get(tenant, i) # NoRun
         /\ \/ runs[i].revision # revision
            \/ ~transition_is_valid(runs[i], expected, t) -> "Conflict"
      [] OTHER -> "Applied"

Apply(i, result, t) ==
    /\ runs' = IF result = "Applied" THEN [runs EXCEPT ![i] = Published(@, t)] ELSE runs
    /\ UNCHANGED <<identities, keys>>

KeyIsFree_Reruns(i) == keys[StartKeyOf(i)] \in {NoIdentity, i}

KeyIsFree_ByIdentity(i) == i \notin identities

(* create_or_return creates a run only for an unused identity and key. *)
KeyIsFree(i) ==
    /\ i \notin identities
    /\ keys[StartKeyOf(i)] = NoIdentity

-----------------------------------------------------------------------------
(* WorkflowRunner::start_with_policy and execute *)

IdentityOf(q) == [tenant |-> q.tenant, workflow |-> q.workflow,
                  run_key |-> q.run_key, digest |-> q.input.digest]

(* The early returns before the store is asked, in the code's order. *)
StartRejection(q) ==
    IF q.policy \notin ValidPolicies \/ RunKeyBytes[q.run_key] \notin 1 .. MaxRunKeyBytes
      THEN "invalid_request"
    ELSE IF q.workflow \notin DOMAIN Catalog THEN "not_found"
    ELSE IF ~validate_definition(Catalog[q.workflow]) THEN "invalid_definition"
    ELSE IF Catalog[q.workflow].agent \notin KnownAgents THEN "not_found"
    ELSE IF q.input.bytes > Catalog[q.workflow].max_input_bytes THEN "limit_exceeded"
    ELSE IF q.input.digest = Malformed THEN "invalid_request"
    ELSE None

StartReplies(p, reply) ==
    start' = [start EXCEPT ![p].pc = "done", ![p].reply = reply]

StartRejected(p, q) ==
    /\ start[p].pc = "idle"
    /\ StartRejection(q) # None
    /\ StartReplies(p, Reply("error", StartRejection(q)))
    /\ UNCHANGED <<store, registry, signalled, cancel, invocations>>

(* create_or_return answers Existing or Conflict: nothing changes. *)
StartReplayed(p, q) ==
    LET i == IdentityOf(q) IN
    /\ start[p].pc = "idle"
    /\ StartRejection(q) = None
    /\ ~KeyIsFree(i)
    /\ start' = [start EXCEPT ![p].pc = "done", ![p].id = i,
                     ![p].reply = IF i \in identities THEN Summary(runs[i])
                                  ELSE Reply("error", "run_key_conflict")]
    /\ UNCHANGED <<store, registry, signalled, cancel, invocations>>

StartCreated(p, q) ==
    LET i == IdentityOf(q) IN
    /\ start[p].pc = "idle"
    /\ StartRejection(q) = None
    /\ KeyIsFree(i)
    /\ keys' = [keys EXCEPT ![StartKeyOf(i)] = i]
    /\ identities' = identities \cup {i}
    /\ runs' = [runs EXCEPT ![i] = PendingRun(Catalog[q.workflow].max_evidence_bytes)]
    /\ start' = [start EXCEPT ![p].pc = "begin", ![p].id = i, ![p].policy = q.policy]
    /\ UNCHANGED <<registry, signalled, cancel, invocations>>

Begin(p) ==
    LET i == start[p].id
        t == Started(start[p].policy)
        result == TransitionResult(i.tenant, i, 0, "Pending", t) IN
    /\ start[p].pc = "begin"
    /\ Apply(i, result, t)
    /\ IF result = "Applied"
         THEN start' = [start EXCEPT ![p].pc = "register",
                                     ![p].active = Published(runs[i], t)]
         ELSE StartReplies(p, Reply("error",
                IF result = "NotFound" THEN "not_found" ELSE "conflict"))
    /\ UNCHANGED <<registry, signalled, cancel, invocations>>

SetupFailed(p, reason) ==
    start' = [start EXCEPT ![p].pc = "finish", ![p].outcome = Outcome("setup", reason)]

RegistrationExhausted == next_registration = MaxRegistration

(* The token counter and the registry insertion. *)
Register(p) ==
    LET i == start[p].id IN
    /\ start[p].pc = "register"
    /\ IF ~CollectorFits(start[p].active)
         THEN /\ SetupFailed(p, "evidence_limit_exceeded")
              /\ UNCHANGED registry
       ELSE IF RegistrationExhausted
         THEN /\ SetupFailed(p, "cancellation_registration_failed")
              /\ UNCHANGED registry
       ELSE /\ next_registration' = next_registration + 1
            /\ cancellations' = [cancellations EXCEPT
                   ![i] = [token |-> next_registration, signal |-> p]]
            /\ start' = [start EXCEPT ![p].pc = "registered",
                   ![p].token = next_registration]
    /\ UNCHANGED <<store, signalled, cancel, invocations>>

(* No idempotency key, or no instant 30 seconds from now. *)
ControlFails(p) ==
    /\ start[p].pc = "registered"
    /\ start' = [start EXCEPT ![p].pc = "unregister",
                     ![p].outcome = Outcome("setup", "invocation_control_failed")]
    /\ UNCHANGED <<store, registry, signalled, cancel, invocations>>

Invoke(p) ==
    /\ start[p].pc = "registered"
    /\ start' = [start EXCEPT ![p].pc = "invoking"]
    /\ invocations' = [invocations EXCEPT ![start[p].id] = @ + 1]
    /\ UNCHANGED <<store, registry, signalled, cancel>>

InvocationEnds(p, outcome) ==
    start' = [start EXCEPT ![p].pc = "unregister", ![p].outcome = outcome]

(* The invoker emits an item; it gives up on the first refusal. *)
Emit(p, item) ==
    LET error == EmitError(start[p].active, start[p].evidence, item) IN
    /\ start[p].pc = "invoking"
    /\ IF error = None
         THEN start' = [start EXCEPT ![p].evidence = Append(@, item)]
         ELSE InvocationEnds(p, Outcome("err", error))
    /\ UNCHANGED <<store, registry, signalled, cancel, invocations>>

Outcomes == {Outcome("ok", None), Outcome("err", "deadline_exceeded"),
             Outcome("err", "cancelled"), Outcome("err", "adapter_failure")}

(* It reports a cancellation only when its signal was raised. *)
InvokerReturns(p, outcome) ==
    /\ start[p].pc = "invoking"
    /\ outcome = Outcome("err", "cancelled") => p \in signalled
    /\ InvocationEnds(p, outcome)
    /\ UNCHANGED <<store, registry, signalled, cancel, invocations>>

DropRegistration_Leaks(p) == UNCHANGED registry

(* CancellationRegistration::drop: only the entry this call inserted. *)
DropRegistration(p) ==
    LET i == start[p].id IN
    /\ cancellations' = IF cancellations[i].token = start[p].token
                          THEN [cancellations EXCEPT ![i] = NoEntry]
                          ELSE cancellations
    /\ UNCHANGED next_registration

Unregister(p) ==
    /\ start[p].pc = "unregister"
    /\ DropRegistration(p)
    /\ start' = [start EXCEPT ![p].pc = "finish"]
    /\ UNCHANGED <<store, signalled, cancel, invocations>>

(* The caller drops the future while it awaits the invocation. *)
DropStart(p) ==
    /\ start[p].pc = "invoking"
    /\ DropRegistration(p)
    /\ start' = [start EXCEPT ![p].pc = "dropped"]
    /\ UNCHANGED <<store, signalled, cancel, invocations>>

(* The reason execute records for an invocation error. *)
FailureReason(error) ==
    CASE error = "limit_exceeded"    -> "evidence_limit_exceeded"
      [] error = "cancelled"         -> "cancelled"
      [] error = "deadline_exceeded" -> "deadline_exceeded"
      [] OTHER                       -> "invocation_failed"

FinishTransition(s) ==
    CASE s.outcome.kind = "setup" -> finish_failure(s.active, s.outcome.error)
      [] s.outcome.kind = "err"   -> finish_failure(s.active, FailureReason(s.outcome.error))
      [] s.outcome.kind = "ok" /\ HasOutput(s.evidence)
                                  -> finish_success(s.active, s.evidence)
      [] OTHER                    -> finish_failure(s.active, "invalid_invocation_result")

FinishReply(s, run) ==
    CASE s.outcome.kind = "setup" -> 
            Reply("error", IF s.outcome.error = "evidence_limit_exceeded"
                             THEN "limit_exceeded" ELSE "adapter_failure")
      [] s.outcome = Outcome("err", "limit_exceeded") -> Reply("error", "limit_exceeded")
      [] OTHER -> Summary(run)

(* The terminal transition; terminalize_setup_failure is the same one with *)
(* a conflict ignored.                                                     *)
Finish(p) ==
    LET s == start[p]
        i == s.id
        t == FinishTransition(s)
        result == TransitionResult(i.tenant, i, s.active.revision, "Running", t) IN
    /\ s.pc = "finish"
    /\ Apply(i, result, t)
    /\ IF result = "NotFound" THEN StartReplies(p, Reply("error", "not_found"))
       ELSE IF result = "Conflict" /\ s.outcome.kind # "setup"
         THEN start' = [start EXCEPT ![p].pc = "reread"]
       ELSE StartReplies(p, FinishReply(s, Published(s.active, t)))
    /\ UNCHANGED <<registry, signalled, cancel, invocations>>

(* A conflict: report the state that is there. *)
StartReread(p) ==
    /\ start[p].pc = "reread"
    /\ StartReplies(p, Summary(runs[start[p].id]))
    /\ UNCHANGED <<store, registry, signalled, cancel, invocations>>

-----------------------------------------------------------------------------
(* WorkflowRunner::cancel *)

CancelReplies(c, reply) ==
    cancel' = [cancel EXCEPT ![c].pc = "done", ![c].reply = reply]

CancelGet(c, tenant, i) ==
    LET run == get(tenant, i) IN
    /\ cancel[c].pc = "idle"
    /\ cancel' = [cancel EXCEPT
           ![c].pc = IF run = NoRun \/ run.status \in Terminal THEN "done" ELSE "lookup",
           ![c].id = i, ![c].tenant = tenant, ![c].run = run,
           ![c].reply = IF run = NoRun THEN Reply("error", "not_found")
                        ELSE IF run.status \in Terminal THEN Summary(run) ELSE NoReply]
    /\ UNCHANGED <<store, registry, signalled, start, invocations>>

CancelLookup(c) ==
    LET entry == cancellations[cancel[c].id] IN
    /\ cancel[c].pc = "lookup"
    /\ IF entry = NoEntry THEN CancelReplies(c, Reply("error", "conflict"))
       ELSE cancel' = [cancel EXCEPT ![c].pc = "signal", ![c].signal = entry.signal]
    /\ UNCHANGED <<store, registry, signalled, start, invocations>>

CancelSignal(c) ==
    /\ cancel[c].pc = "signal"
    /\ signalled' = signalled \cup {cancel[c].signal}
    /\ cancel' = [cancel EXCEPT ![c].pc = "publish"]
    /\ UNCHANGED <<store, registry, start, invocations>>

CancelPublish_AssumesApplied(c) ==
    LET x == cancel[c]
        t == Cancelling(x.run)
        result == TransitionResult(x.tenant, x.id, x.run.revision, "Running", t) IN
    /\ x.pc = "publish"
    /\ Apply(x.id, result, t)
    /\ CancelReplies(c, Reply("summary", t.status))
    /\ UNCHANGED <<registry, signalled, start, invocations>>

CancelPublish(c) ==
    LET x == cancel[c]
        t == Cancelling(x.run)
        result == TransitionResult(x.tenant, x.id, x.run.revision, "Running", t) IN
    /\ x.pc = "publish"
    /\ Apply(x.id, result, t)
    /\ IF result = "Conflict" THEN cancel' = [cancel EXCEPT ![c].pc = "reread"]
       ELSE IF result = "NotFound" THEN CancelReplies(c, Reply("error", "not_found"))
       ELSE CancelReplies(c, Reply("summary", t.status))
    /\ UNCHANGED <<registry, signalled, start, invocations>>

CancelReread(c) ==
    /\ cancel[c].pc = "reread"
    /\ CancelReplies(c, Summary(runs[cancel[c].id]))
    /\ UNCHANGED <<store, registry, signalled, start, invocations>>

-----------------------------------------------------------------------------

StartStep(p) ==
    \/ Begin(p)
    \/ Register(p)
    \/ Unregister(p)
    \/ Finish(p)
    \/ StartReread(p)

CancelStep(c) ==
    \/ CancelLookup(c)
    \/ CancelSignal(c)
    \/ CancelPublish(c)
    \/ CancelReread(c)

(* Every call has returned or was dropped: the model ends here. *)
AllReturned ==
    /\ \A p \in Starters : start[p].pc \in {"done", "dropped"}
    /\ \A c \in Cancellers : cancel[c].pc = "done"
    /\ UNCHANGED vars

Next ==
    \/ \E p \in Starters, q \in StartRequests :
          StartRejected(p, q) \/ StartReplayed(p, q) \/ StartCreated(p, q)
    \/ \E p \in Starters : StartStep(p) \/ ControlFails(p) \/ Invoke(p) \/ DropStart(p)
    \/ \E p \in Starters, item \in EvidenceItems : Emit(p, item)
    \/ \E p \in Starters, outcome \in Outcomes : InvokerReturns(p, outcome)
    \/ \E c \in Cancellers, tenant \in Tenants, i \in Identities : CancelGet(c, tenant, i)
    \/ \E c \in Cancellers : CancelStep(c)
    \/ AllReturned

Spec == Init /\ [][Next]_vars

-----------------------------------------------------------------------------
(* Properties *)

Replies == [kind : {"pending", "summary", "error"},
            value : RunStatus \cup WorkflowErrors \cup {None}]

OutcomeType == [kind : {None, "setup", "err", "ok"},
                error : WorkflowErrors \cup FailureReasons \cup {None}]

StartCall == [pc : StartPc, id : Identities \cup {NoIdentity},
              policy : ValidPolicies \cup {None}, active : Run \cup {NoRun},
              token : Nat, evidence : Seq(EvidenceItem),
              outcome : OutcomeType,
              reply : Replies]

CancelCall == [pc : CancelPc, id : Identities \cup {NoIdentity},
               tenant : Tenants \cup {None}, run : Run \cup {NoRun},
               signal : Starters \cup {None},
               reply : Replies]

(* Type invariant of the runner, its registry and the in-memory store. *)
TypeOK ==
    /\ runs \in [Identities -> Run \cup {NoRun}]
    /\ identities \subseteq Identities
    /\ keys \in [StartKeys -> Identities \cup {NoIdentity}]
    /\ cancellations \in [Identities -> [token : Nat, signal : Starters] \cup {NoEntry}]
    /\ next_registration \in 1 .. MaxRegistration
    /\ signalled \subseteq Starters
    /\ start \in [Starters -> StartCall]
    /\ cancel \in [Cancellers -> CancelCall]
    /\ invocations \in [Identities -> Nat]

(* However start calls, replays, conflicting reuses and cancels interleave, *)
(* the agent is invoked at most once for a start key: once for a run, and  *)
(* never for a second input under the same key.                            *)
InvokedOncePerKey ==
    \A i, j \in Identities :
        /\ StartKeyOf(i) = StartKeyOf(j)
        /\ invocations[i] > 0 /\ invocations[j] > 0
        => i = j /\ invocations[i] = 1

(* A terminal run is never touched again: a late completion, a late cancel *)
(* or a dropped future changes neither its status nor its evidence.        *)
TerminalIsFinal ==
    [][\A i \in Identities :
          runs[i].status \in Terminal => runs'[i] = runs[i]]_vars

(* The evidence of a run is numbered without gaps, stays within the event  *)
(* and byte budgets, and is exactly what its status says: a failed or      *)
(* cancelled run holds none of the items its invocation had collected, a   *)
(* succeeded one holds exactly one result.                                 *)
EvidenceMatchesStatus ==
    \A i \in identities :
        LET run == runs[i]
            kinds == [n \in DOMAIN run.events |-> run.events[n].kind] IN
        /\ \A n \in DOMAIN run.events : run.events[n].sequence = n
        /\ Len(run.events) <= MaxEvents
        /\ evidence_bytes(run.events) <= run.max_evidence_bytes
        /\ run.status = "Pending" => kinds = <<>> /\ run.attempt = NoAttempt
        /\ run.status = "Running" => kinds = <<"started">>
        /\ run.status = "Failed" => kinds = <<"started", "invocation_failed">>
        /\ run.status = "Cancelled" => kinds = <<"started", "cancelled">>
        /\ run.status = "Succeeded" =>
              /\ kinds[1] = "started"
              /\ \E n \in DOMAIN kinds : \A m \in DOMAIN kinds :
                    kinds[m] = "result" <=> m = n

RegisteredPc == {"registered", "invoking", "unregister"}

(* The registry holds a signal for a run exactly while the call that       *)
(* executes it is between its registration and the drop of its guard: no   *)
(* completion, error or dropped future leaves an entry behind, and no call *)
(* ever removes or replaces another call's entry.                          *)
RegistryIsExact ==
    /\ \A p \in Starters : start[p].pc \in RegisteredPc =>
          cancellations[start[p].id] = [token |-> start[p].token, signal |-> p]
    /\ \A i \in Identities : cancellations[i] # NoEntry =>
          /\ start[cancellations[i].signal].pc \in RegisteredPc
          /\ start[cancellations[i].signal].id = i

(* A terminal status reported to any caller is the run's status from then  *)
(* on: nobody is told of a success, failure or cancellation that another   *)
(* transition then replaces.                                               *)
ReportedTerminalIsFinal ==
    /\ \A p \in Starters :
          start[p].reply.kind = "summary" /\ start[p].reply.value \in Terminal =>
            runs[start[p].id].status = start[p].reply.value
    /\ \A c \in Cancellers :
          cancel[c].reply.kind = "summary" /\ cancel[c].reply.value \in Terminal =>
            runs[cancel[c].id].status = cancel[c].reply.value

(* The run lifecycle that requirements and design promise. *)
Lifecycle == INSTANCE RunLifecycle WITH
    Ids <- Identities, KeyOf <- [i \in Identities |-> StartKeyOf(i)],
    phase <- [i \in Identities |-> runs[i].status],
    invoked <- invocations

(* The runner and its store implement that lifecycle. *)
LifecycleSpec == Lifecycle!Spec

(* Fairness: a poll of a start call runs its synchronous code to the next  *)
(* await, a cancel call is synchronous, and an invocation returns at the   *)
(* latest when its deadline elapses.                                       *)
Fairness ==
    /\ \A p \in Starters :
          /\ WF_vars(StartStep(p))
          /\ WF_vars(ControlFails(p) \/ Invoke(p))
          /\ WF_vars(InvokerReturns(p, Outcome("err", "deadline_exceeded")))
    /\ \A c \in Cancellers : WF_vars(CancelStep(c))

FairSpec == Spec /\ Fairness

(* The evidence budget holds every failure the runner can record; the      *)
(* smallest budgets that validate_definition accepts do not.               *)
FailuresFit(run) ==
    \A reason \in FailureReasons :
        TextBytes["started"] + TextBytes["invocation_failed"] + TextBytes[reason]
            <= run.max_evidence_bytes

Settled(p) ==
    \/ start[p].pc = "dropped"
    \/ /\ start[p].id \in identities
       /\ runs[start[p].id].status \in Terminal \/ ~FailuresFit(runs[start[p].id])

(* A run that was created reaches a terminal status unless the caller      *)
(* drops the future that executes it, or its budget is too small for a     *)
(* failure of the runner.                                                  *)
RunSettles ==
    \A p \in Starters :
        start[p].pc = "begin" ~> Settled(p)

(* workflow_cancel answers with the terminal projection of the run. *)
CancelReportsTerminal ==
    \A c \in Cancellers :
        cancel[c].reply.kind = "summary" => cancel[c].reply.value \in Terminal

(* When a completion loses its compare-and-set, the state it then reads is *)
(* the terminal one that another transition has published.                 *)
ConflictReadsTerminal ==
    \A p \in Starters :
        start[p].pc = "reread" => runs[start[p].id].status \in Terminal

(* A run whose invocation was stopped by its cancellation ends Cancelled,  *)
(* not Failed: the woken completion does not publish a competing failure.  *)
CancelledInvocationIsNotFailure ==
    \A i \in identities :
        runs[i].status = "Failed" => runs[i].attempt.error # "cancelled"

=============================================================================
