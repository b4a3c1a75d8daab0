--------------------------- MODULE WorkflowProofs ---------------------------
(***************************************************************************)
(* Proofs about Workflow, for any number of start and cancel calls, any    *)
(* catalog and any requests.                                               *)
(*                                                                         *)
(* The inductive invariant adds to the type invariant who executes a run:  *)
(* a run is created by exactly one start call, which alone carries it      *)
(* through its attempt, and what each stage of that call implies for the   *)
(* run in the store and for the number of invocations.                     *)
(***************************************************************************)
EXTENDS Workflow, TLAPS

ActivePc == ExecutingPc \ {"begin"}

(* The three maps of the store agree: an identity has a run exactly when it *)
(* is recorded, and it then owns its start key.                            *)
StoreAgrees ==
    /\ identities = {i \in Identities : runs[i] # NoRun}
    /\ \A i \in identities : keys[StartKeyOf(i)] = i

(* A run has at most one executor. *)
OneExecutor ==
    /\ \A p \in Starters : start[p].pc \in ExecutingPc \cup {"reread", "dropped"} =>
          start[p].id \in identities
    /\ \A p, q \in Starters :
          /\ start[p].pc \in ExecutingPc /\ start[q].pc \in ExecutingPc
          /\ start[p].id = start[q].id
          => p = q

(* The locals of an executor: a valid policy, the snapshot the transition  *)
(* to Running returned, and a recorded reason for a setup failure.         *)
ExecutorLocals ==
    \A p \in Starters :
        /\ start[p].pc = "begin" => start[p].policy \in ValidPolicies
        /\ start[p].pc \in ActivePc =>
              start[p].active \in Run /\ start[p].active.attempt \in Attempt
        /\ start[p].outcome.kind = "setup" => start[p].outcome.error \in FailureReasons

(* The locals of a cancel call that read an unfinished run. *)
CancelLocals ==
    \A c \in Cancellers :
        /\ cancel[c].pc \in {"lookup", "signal", "publish", "reread"} =>
              cancel[c].id \in identities /\ cancel[c].run \in Run
        /\ cancel[c].pc = "signal" => cancel[c].signal \in Starters

(* How far the executor is says whether the agent was invoked. *)
InvocationsTracked ==
    /\ \A i \in Identities : invocations[i] \in {0, 1}
    /\ \A i \in Identities \ identities : invocations[i] = 0
    /\ \A p \in Starters :
          /\ start[p].pc \in {"begin", "register", "registered"} =>
                invocations[start[p].id] = 0
          /\ start[p].pc \in {"register", "registered"} =>
                runs[start[p].id].status \in {"Running", "Cancelled"}
          /\ start[p].pc = "invoking" => invocations[start[p].id] = 1
          /\ start[p].pc \in {"unregister", "finish"} /\ start[p].outcome.kind = "ok" =>
                invocations[start[p].id] = 1

IndInv ==
    /\ TypeOK
    /\ StoreAgrees
    /\ OneExecutor
    /\ ExecutorLocals
    /\ CancelLocals
    /\ InvocationsTracked

-----------------------------------------------------------------------------
(* A start call keeps its run while it executes, and none starts to.       *)
SameExecutor(old, new) ==
    /\ new.pc \in ExecutingPc => old.pc \in ExecutingPc
    /\ new.pc \in ExecutingPc \cup {"reread", "dropped"} =>
          old.pc \in ExecutingPc \cup {"reread", "dropped"} /\ new.id = old.id

(* Then a run still has at most one executor. *)
LEMMA OneExecutorKept ==
    ASSUME OneExecutor, identities' = identities,
           \A x \in Starters : SameExecutor(start[x], start'[x])
    PROVE  OneExecutor'
<1>1. \A x \in Starters : start'[x].pc \in ExecutingPc \cup {"reread", "dropped"} =>
        start'[x].id \in identities'
  BY DEF OneExecutor, SameExecutor
<1>2. ASSUME NEW x \in Starters, NEW y \in Starters,
             start'[x].pc \in ExecutingPc, start'[y].pc \in ExecutingPc,
             start'[x].id = start'[y].id
      PROVE  x = y
  <2>1. start[x].pc \in ExecutingPc /\ start[y].pc \in ExecutingPc
        /\ start[x].id = start[y].id
    BY <1>2 DEF SameExecutor
  <2> QED
    BY <2>1 DEF OneExecutor
<1> QED
  BY <1>1, <1>2 DEF OneExecutor, ExecutingPc

(* Types of the transitions the runner builds. *)

(* An absent run is not a run: its status is none of a run's. *)
LEMMA NoRunIsNotARun == NoRun \notin Run
BY DEF NoRun, Run, RunStatus, None

(* The absent identity is not an identity: it has no workflow. *)
LEMMA NoIdentityIsNotAnIdentity == NoIdentity \notin Identities
<1> SUFFICES ASSUME NoIdentity \in Identities PROVE FALSE
  OBVIOUS
<1>1. DOMAIN NoIdentity = {"tenant", "workflow", "run_key", "digest"}
  BY DEF Identities
<1>2. DOMAIN NoIdentity = {"tenant"}
  BY DEF NoIdentity
<1> QED
  BY <1>1, <1>2

(* The transition that opens an attempt is well formed. *)
LEMMA StartedType ==
    ASSUME NEW policy \in ValidPolicies
    PROVE  Started(policy) \in Transition /\ Started(policy).attempt \in Attempt
<1> DEFINE a == [policy |-> policy, status |-> "Running",
                 capability_scope_digest |-> None, result |-> None, error |-> None]
           e == [sequence |-> 1, kind |-> "started", bytes |-> TextBytes["started"]]
<1>1. a \in Attempt
  BY DEF Attempt
<1>2. e \in WorkflowEvent
  BY DEF WorkflowEvent, TextBytes
<1>3. <<e>> \in Seq(WorkflowEvent)
  BY <1>2
<1>4. Started(policy) = [status |-> "Running", terminal_reason |-> None,
                         attempt |-> a, events |-> <<e>>]
  BY DEF Started
<1> HIDE DEF a, e
<1> QED
  BY <1>1, <1>3, <1>4 DEF Transition, RunStatus

(* A failure built from an active run is well formed. *)
LEMMA FailureType ==
    ASSUME NEW run \in Run, run.attempt \in Attempt, NEW reason \in FailureReasons
    PROVE  finish_failure(run, reason) \in Transition
<1> DEFINE a == [run.attempt EXCEPT !.status = "Failed", !.error = reason]
           e == [sequence |-> Len(run.events) + 1, kind |-> "invocation_failed",
                 bytes |-> TextBytes["invocation_failed"] + TextBytes[reason]]
<1>1. a \in Attempt
  BY ZenonT(30) DEF Attempt
<1>2. TextBytes["invocation_failed"] \in Nat /\ TextBytes[reason] \in Nat
  BY DEF TextBytes, FailureReasons
<1>3. run.events \in Seq(WorkflowEvent)
  BY DEF Run
<1>4. e \in WorkflowEvent
  BY <1>2, <1>3 DEF WorkflowEvent
<1>5. <<e>> \in Seq(WorkflowEvent)
  BY <1>4
<1>6. finish_failure(run, reason) =
        [status |-> "Failed", terminal_reason |-> "InvocationFailed",
         attempt |-> a, events |-> <<e>>]
  BY DEF finish_failure
<1> HIDE DEF a, e
<1> QED
  BY <1>1, <1>5, <1>6 DEF Transition, RunStatus, TerminalReason

(* A success built from an active run and its evidence is well formed. *)
LEMMA SuccessType ==
    ASSUME NEW run \in Run, run.attempt \in Attempt, NEW items \in Seq(EvidenceItem)
    PROVE  finish_success(run, items) \in Transition
<1> DEFINE a == [run.attempt EXCEPT !.status = "Succeeded",
                     !.capability_scope_digest = "scope", !.result = "output"]
           e == [i \in DOMAIN items |->
                   [sequence |-> Len(run.events) + i,
                    kind |-> items[i].kind, bytes |-> items[i].bytes]]
<1>1. a \in Attempt
  BY ZenonT(30) DEF Attempt
<1>2. run.events \in Seq(WorkflowEvent) /\ Len(run.events) \in Nat
  BY DEF Run
<1>3. \A i \in DOMAIN items : i \in Nat /\ items[i] \in EvidenceItem
  OBVIOUS
<1>4. \A i \in DOMAIN items : e[i] \in WorkflowEvent
  BY <1>2, <1>3 DEF WorkflowEvent, EvidenceItem
<1>5. e \in Seq(WorkflowEvent)
  BY <1>4
<1>6. finish_success(run, items) =
        [status |-> "Succeeded", terminal_reason |-> "Completed",
         attempt |-> a, events |-> e]
  BY DEF finish_success
<1> HIDE DEF a, e
<1> QED
  BY <1>1, <1>5, <1>6 DEF Transition, RunStatus, TerminalReason

(* The transition cancel builds from the run it read is well formed. *)
LEMMA CancellingType ==
    ASSUME NEW run \in Run
    PROVE  Cancelling(run) \in Transition
<1> DEFINE e == [sequence |-> Len(run.events) + 1, kind |-> "cancelled",
                 bytes |-> TextBytes["cancelled"]]
<1>1. e \in WorkflowEvent /\ <<e>> \in Seq(WorkflowEvent)
  BY DEF WorkflowEvent, TextBytes, Run
<1> DEFINE a == IF run.attempt = NoAttempt THEN NoAttempt
                ELSE [run.attempt EXCEPT !.status = "Cancelled"]
<1>2. a \in Attempt \cup {NoAttempt}
  <2>1. run.attempt \in Attempt \cup {NoAttempt}
    BY DEF Run
  <2>2. ASSUME run.attempt \in Attempt
        PROVE  [run.attempt EXCEPT !.status = "Cancelled"] \in Attempt
    BY <2>2 DEF Attempt
  <2> QED
    BY <2>1, <2>2
<1>3. Cancelling(run) = [status |-> "Cancelled", terminal_reason |-> "Cancelled",
                         attempt |-> a, events |-> <<e>>]
  BY DEF Cancelling
<1> HIDE DEF a, e
<1> QED
  BY <1>1, <1>2, <1>3 DEF Transition, RunStatus, TerminalReason

(* Publishing a well-formed transition keeps a run a run. *)
LEMMA PublishedType ==
    ASSUME NEW run \in Run, NEW t \in Transition
    PROVE  /\ Published(run, t) \in Run
           /\ Published(run, t).status = t.status
           /\ Published(run, t).attempt = t.attempt
<1>1. run.events \o t.events \in Seq(WorkflowEvent)
  BY DEF Run, Transition
<1>2. run.revision + 1 \in Nat
  BY DEF Run
<1> QED
  BY <1>1, <1>2, ZenonT(30) DEF Published, Run, Transition

(* What an attempt to publish transition t of run i does to the store: it  *)
(* changes nothing, or it replaces that run, which was in the expected     *)
(* state, by its successor.                                                *)
LEMMA ApplyEffect ==
    ASSUME runs \in [Identities -> Run \cup {NoRun}],
           NEW i \in Identities, NEW t \in Transition,
           NEW tenant, NEW revision, NEW expected, NEW result,
           result = TransitionResult(tenant, i, revision, expected, t),
           Apply(i, result, t)
    PROVE  /\ runs' \in [Identities -> Run \cup {NoRun}]
           /\ \A j \in Identities : j # i => runs'[j] = runs[j]
           /\ runs'[i] = NoRun <=> runs[i] = NoRun
           /\ identities' = identities /\ keys' = keys
           /\ result # "Applied" => runs' = runs
           /\ result = "Applied" =>
                 /\ runs[i] \in Run /\ runs'[i] \in Run
                 /\ runs[i].status = expected /\ expected \notin Terminal
                 /\ runs'[i] = Published(runs[i], t)
                 /\ runs'[i].status = t.status
                 /\ LegalMove(runs[i], t)
<1>1. CASE result # "Applied"
  BY <1>1 DEF Apply
<1>2. CASE result = "Applied"
  <2>1. get(tenant, i) # NoRun /\ transition_is_valid(runs[i], expected, t)
    BY <1>2 DEF TransitionResult
  <2>2. runs[i] # NoRun /\ runs[i] \in Run
    BY <2>1 DEF get
  <2>3. runs[i].status = expected /\ expected \notin Terminal /\ LegalMove(runs[i], t)
    BY <2>1 DEF transition_is_valid
  <2>4. Published(runs[i], t) \in Run /\ Published(runs[i], t).status = t.status
    BY <2>2, PublishedType
  <2>5. runs' = [runs EXCEPT ![i] = Published(runs[i], t)]
    BY <1>2 DEF Apply
  <2>6. identities' = identities /\ keys' = keys
    BY DEF Apply
  <2> QED
    BY <1>2, <2>2, <2>3, <2>4, <2>5, <2>6, NoRunIsNotARun
<1> QED
  BY <1>1, <1>2

(* An accepted request names a known workflow, a valid policy and an input *)
(* that parsed, so it has an identity.                                     *)
LEMMA AcceptedRequest ==
    ASSUME NEW q \in StartRequests, StartRejection(q) = None
    PROVE  /\ IdentityOf(q) \in Identities
           /\ StartKeyOf(IdentityOf(q)) \in StartKeys
           /\ q.policy \in ValidPolicies
           /\ PendingRun(Catalog[q.workflow].max_evidence_bytes) \in Run
<1>1. q \in StartRequest
  BY WorkflowAssumption
<1>2. /\ q.policy \in ValidPolicies
      /\ q.workflow \in DOMAIN Catalog
      /\ q.input.digest # Malformed
  BY DEF StartRejection, None
<1>3. IdentityOf(q) \in Identities
  BY <1>1, <1>2 DEF StartRequest, IdentityOf, Identities
<1>4. StartKeyOf(IdentityOf(q)) \in StartKeys
  BY <1>1 DEF StartRequest, IdentityOf, StartKeyOf, StartKeys
<1>5. Catalog[q.workflow].max_evidence_bytes \in Nat
  BY <1>2, WorkflowAssumption DEF Definition
<1>6. PendingRun(Catalog[q.workflow].max_evidence_bytes) \in Run
  BY <1>5 DEF PendingRun, Run, RunStatus
<1> QED
  BY <1>2, <1>3, <1>4, <1>6

(* The terminal transition an executor builds is well formed. *)
LEMMA FinishType ==
    ASSUME TypeOK, ExecutorLocals, NEW p \in Starters, start[p].pc = "finish"
    PROVE  FinishTransition(start[p]) \in Transition
<1>1. start[p] \in StartCall
  BY DEF TypeOK
<1>2. /\ start[p].active \in Run /\ start[p].active.attempt \in Attempt
      /\ start[p].outcome.kind = "setup" => start[p].outcome.error \in FailureReasons
  BY DEF ExecutorLocals, ActivePc, ExecutingPc
<1>3. start[p].evidence \in Seq(EvidenceItem)
  BY <1>1 DEF StartCall
<1>4. FailureReason(start[p].outcome.error) \in FailureReasons
  BY DEF FailureReason, FailureReasons
<1>5. "invalid_invocation_result" \in FailureReasons
  BY DEF FailureReasons
<1> QED
  BY <1>2, <1>3, <1>4, <1>5, FailureType, SuccessType DEF FinishTransition

-----------------------------------------------------------------------------
(* The inductive step, action by action. *)

(* Creating a run keeps the invariant: the identity is new, so the call    *)
(* that creates it is its only executor.                                   *)
LEMMA StartCreatedStep ==
    ASSUME IndInv, NEW p \in Starters, NEW q \in StartRequests, StartCreated(p, q)
    PROVE  IndInv'
<1> DEFINE i == IdentityOf(q)
           k == StartKeyOf(i)
           r == PendingRun(Catalog[q.workflow].max_evidence_bytes)
<1>1. i \in Identities /\ k \in StartKeys /\ q.policy \in ValidPolicies /\ r \in Run
  BY AcceptedRequest DEF StartCreated
<1>2. /\ i \notin identities /\ keys[k] = NoIdentity /\ start[p].pc = "idle"
      /\ keys' = [keys EXCEPT ![k] = i]
      /\ identities' = identities \cup {i}
      /\ runs' = [runs EXCEPT ![i] = r]
      /\ start' = [start EXCEPT ![p].pc = "begin", ![p].id = i, ![p].policy = q.policy]
      /\ UNCHANGED <<cancellations, next_registration, signalled, cancel, invocations>>
  BY DEF StartCreated, KeyIsFree, registry
<1>3. r # NoRun
  BY <1>1, NoRunIsNotARun
<1> HIDE DEF i, k, r
<1>4. TypeOK'
  <2> start[p] \in StartCall
    BY DEF IndInv, TypeOK
  <2>1. [start[p] EXCEPT !.pc = "begin", !.id = i, !.policy = q.policy] \in StartCall
    BY <1>1, ZenonT(30) DEF StartCall, StartPc
  <2>2. start' \in [Starters -> StartCall]
    BY <1>2, <2>1 DEF IndInv, TypeOK
  <2> QED
    BY <1>1, <1>2, <2>2 DEF IndInv, TypeOK
<1>5. StoreAgrees'
  <2>1. identities' = {j \in Identities : runs'[j] # NoRun}
    BY <1>1, <1>2, <1>3 DEF IndInv, TypeOK, StoreAgrees
  <2>2. ASSUME NEW j \in identities PROVE keys'[StartKeyOf(j)] = j
    <3>1. j \in Identities /\ keys[StartKeyOf(j)] = j /\ StartKeyOf(j) \in StartKeys
      BY DEF IndInv, TypeOK, StoreAgrees, Identities, StartKeys, StartKeyOf
    <3>2. StartKeyOf(j) # k
      BY <1>2, <3>1, NoIdentityIsNotAnIdentity
    <3> QED
      BY <1>2, <3>1, <3>2 DEF IndInv, TypeOK
  <2>3. keys'[StartKeyOf(i)] = i
    BY <1>1, <1>2 DEF IndInv, TypeOK, k
  <2> QED
    BY <1>2, <2>1, <2>2, <2>3 DEF StoreAgrees
<1>6. OneExecutor'
  BY <1>1, <1>2 DEF IndInv, TypeOK, OneExecutor, StartCall, ExecutingPc
<1>7. ExecutorLocals'
  BY <1>1, <1>2 DEF IndInv, TypeOK, ExecutorLocals, StartCall, ExecutingPc, ActivePc
<1>8. CancelLocals'
  BY <1>1, <1>2 DEF IndInv, TypeOK, CancelLocals
<1>9. InvocationsTracked'
  BY <1>1, <1>2 DEF IndInv, TypeOK, InvocationsTracked, OneExecutor, StartCall, ExecutingPc
<1> QED
  BY <1>4, <1>5, <1>6, <1>7, <1>8, <1>9 DEF IndInv

(* A step that only moves one start call on, along the order of execute,   *)
(* keeps the invariant.                                                    *)
LEMMA LocalStep ==
    ASSUME IndInv, NEW p \in Starters, NEW s \in StartCall,
           s.pc \in ExecutingPc \cup {"reread", "dropped"} =>
               start[p].pc \in ExecutingPc /\ s.id = start[p].id,
           s.pc \notin {"begin", "register"},
           s.pc \in ActivePc => s.active \in Run /\ s.active.attempt \in Attempt,
           s.outcome.kind = "setup" => s.outcome.error \in FailureReasons,
           s.pc = "registered" => start[p].pc = "register",
           s.pc = "invoking" => start[p].pc = "invoking",
           s.pc \in {"unregister", "finish"} /\ s.outcome.kind = "ok" =>
               \/ start[p].pc = "invoking"
               \/ start[p].pc = "unregister" /\ start[p].outcome.kind = "ok",
           start' = [start EXCEPT ![p] = s],
           UNCHANGED <<store, signalled, cancel, invocations>>,
           cancellations' \in [Identities -> [token : Nat, signal : Starters] \cup {NoEntry}],
           next_registration' \in 1 .. MaxRegistration
    PROVE  IndInv'
<1>1. UNCHANGED <<runs, identities, keys, signalled, cancel, invocations>>
  BY DEF store
<1>2. start'[p] = s /\ \A x \in Starters : x # p => start'[x] = start[x]
  BY DEF IndInv, TypeOK
<1>3. TypeOK'
  BY <1>1 DEF IndInv, TypeOK
<1>4. StoreAgrees'
  BY <1>1 DEF IndInv, StoreAgrees
<1>5. OneExecutor'
  BY <1>1, <1>2 DEF IndInv, OneExecutor
<1>6. ExecutorLocals'
  BY <1>2 DEF IndInv, ExecutorLocals
<1>7. CancelLocals'
  BY <1>1 DEF IndInv, CancelLocals
<1>8. InvocationsTracked'
  <2>1. ASSUME NEW x \in Starters, x # p
        PROVE  /\ start'[x].pc \in {"begin", "register", "registered"} =>
                     invocations[start'[x].id] = 0
               /\ start'[x].pc \in {"register", "registered"} =>
                     runs[start'[x].id].status \in {"Running", "Cancelled"}
               /\ start'[x].pc = "invoking" => invocations[start'[x].id] = 1
               /\ start'[x].pc \in {"unregister", "finish"} /\ start'[x].outcome.kind = "ok" =>
                     invocations[start'[x].id] = 1
    BY <1>2, <2>1 DEF IndInv, InvocationsTracked
  <2>2. s.pc \in ExecutingPc => s.id = start[p].id
    OBVIOUS
  <2>3. /\ s.pc = "registered" => invocations[s.id] = 0
        /\ s.pc = "registered" => runs[s.id].status \in {"Running", "Cancelled"}
        /\ s.pc = "invoking" => invocations[s.id] = 1
        /\ s.pc \in {"unregister", "finish"} /\ s.outcome.kind = "ok" =>
              invocations[s.id] = 1
    BY <2>2 DEF IndInv, InvocationsTracked, ExecutingPc
  <2>4. /\ \A i \in Identities : invocations'[i] \in {0, 1}
        /\ \A i \in Identities \ identities' : invocations'[i] = 0
    BY <1>1 DEF IndInv, InvocationsTracked
  <2> QED
    BY <1>1, <1>2, <2>1, <2>3, <2>4 DEF InvocationsTracked
<1> QED
  BY <1>3, <1>4, <1>5, <1>6, <1>7, <1>8 DEF IndInv

(* Reporting a status of a recorded run is a well-formed reply. *)
LEMMA SummaryType ==
    ASSUME IndInv, NEW i \in identities
    PROVE  Summary(runs[i]) \in Replies /\ runs[i] \in Run
<1>1. runs[i] \in Run
  BY DEF IndInv, TypeOK, StoreAgrees
<1>2. runs[i].status \in RunStatus
  BY <1>1 DEF Run
<1> QED
  BY <1>1, <1>2 DEF Summary, Reply, Replies

(* A rejected start call changes nothing but its own reply. *)
LEMMA StartRejectedStep ==
    ASSUME IndInv, NEW p \in Starters, NEW q \in StartRequests, StartRejected(p, q)
    PROVE  IndInv'
<1> DEFINE reply == Reply("error", StartRejection(q))
           s == [start[p] EXCEPT !.pc = "done", !.reply = reply]
<1>1. start[p] \in StartCall
  BY DEF IndInv, TypeOK
<1>2. StartRejection(q) \in WorkflowErrors
  BY DEF StartRejected, StartRejection, WorkflowErrors
<1>3. reply \in Replies
  BY <1>2 DEF Reply, Replies
<1>4. s \in StartCall /\ s.pc = "done" /\ s.outcome = start[p].outcome
  BY <1>1, <1>3, ZenonT(30) DEF StartCall, StartPc
<1>5. start' = [start EXCEPT ![p] = s]
  BY ZenonT(30) DEF StartRejected, StartReplies
<1>6. UNCHANGED <<store, signalled, cancel, invocations, cancellations, next_registration>>
  BY DEF StartRejected, registry
<1> HIDE DEF s
<1> QED
  BY <1>4, <1>5, <1>6, LocalStep, ZenonT(30)
     DEF IndInv, TypeOK, ExecutorLocals, ExecutingPc, ActivePc

(* A replayed or conflicting start call changes nothing but its own reply. *)
LEMMA StartReplayedStep ==
    ASSUME IndInv, NEW p \in Starters, NEW q \in StartRequests, StartReplayed(p, q)
    PROVE  IndInv'
<1> DEFINE i == IdentityOf(q)
           reply == IF i \in identities THEN Summary(runs[i])
                    ELSE Reply("error", "run_key_conflict")
           s == [start[p] EXCEPT !.pc = "done", !.id = i, !.reply = reply]
<1>1. start[p] \in StartCall
  BY DEF IndInv, TypeOK
<1>2. i \in Identities
  BY AcceptedRequest DEF StartReplayed
<1>3. reply \in Replies
  BY SummaryType DEF Reply, Replies, WorkflowErrors
<1>4. s \in StartCall /\ s.pc = "done" /\ s.outcome = start[p].outcome
  <2> HIDE DEF i, reply
  <2> QED
    BY <1>1, <1>2, <1>3, ZenonT(30) DEF StartCall, StartPc
<1>5. start' = [start EXCEPT ![p] = s]
  BY ZenonT(30) DEF StartReplayed
<1>6. UNCHANGED <<store, signalled, cancel, invocations, cancellations, next_registration>>
  BY DEF StartReplayed, registry
<1> HIDE DEF s
<1> QED
  BY <1>4, <1>5, <1>6, LocalStep, ZenonT(30)
     DEF IndInv, TypeOK, ExecutorLocals, ExecutingPc, ActivePc

(* Taking a token and registering the signal, or failing to. *)
LEMMA RegisterStep ==
    ASSUME IndInv, NEW p \in Starters, Register(p)
    PROVE  IndInv'
<1>1. /\ start[p] \in StartCall /\ start[p].pc = "register"
      /\ start[p].id \in Identities
      /\ start[p].active \in Run /\ start[p].active.attempt \in Attempt
  BY DEF Register, IndInv, TypeOK, OneExecutor, ExecutorLocals, ExecutingPc, ActivePc
<1>2. UNCHANGED <<store, signalled, cancel, invocations>>
  BY DEF Register
<1>3. ASSUME NEW reason \in FailureReasons, SetupFailed(p, reason), UNCHANGED registry
      PROVE  IndInv'
  <2> DEFINE o == Outcome("setup", reason)
             s == [start[p] EXCEPT !.pc = "finish", !.outcome = o]
  <2>1. o \in OutcomeType /\ o.kind = "setup" /\ o.error = reason
    BY DEF Outcome, OutcomeType
  <2>2. /\ s \in StartCall /\ s.pc = "finish" /\ s.id = start[p].id /\ s.outcome = o
        /\ s.active = start[p].active
    <3> HIDE DEF o
    <3> QED
      BY <1>1, <2>1, ZenonT(30) DEF StartCall, StartPc
  <2>3. start' = [start EXCEPT ![p] = s]
    BY <1>3, ZenonT(30) DEF SetupFailed
  <2>4. UNCHANGED <<cancellations, next_registration>>
    BY <1>3 DEF registry
  <2> HIDE DEF s, o
  <2> QED
    BY <1>1, <1>2, <2>1, <2>2, <2>3, <2>4, LocalStep, ZenonT(30) DEF IndInv, TypeOK, ExecutingPc
<1>4. ASSUME next_registration # MaxRegistration,
             next_registration' = next_registration + 1,
             cancellations' = [cancellations EXCEPT
                 ![start[p].id] = [token |-> next_registration, signal |-> p]],
             start' = [start EXCEPT ![p].pc = "registered", ![p].token = next_registration]
      PROVE  IndInv'
  <2> DEFINE s == [start[p] EXCEPT !.pc = "registered", !.token = next_registration]
  <2>1. next_registration \in Nat /\ next_registration' \in 1 .. MaxRegistration
    BY <1>4, WorkflowAssumption DEF IndInv, TypeOK
  <2>2. cancellations' \in [Identities -> [token : Nat, signal : Starters] \cup {NoEntry}]
    <3>1. [token |-> next_registration, signal |-> p] \in [token : Nat, signal : Starters]
      BY <2>1
    <3> QED
      BY <1>1, <1>4, <3>1 DEF IndInv, TypeOK
  <2>3. /\ s \in StartCall /\ s.pc = "registered" /\ s.id = start[p].id
        /\ s.active = start[p].active /\ s.outcome = start[p].outcome
    BY <1>1, <2>1, ZenonT(30) DEF StartCall, StartPc
  <2>4. start' = [start EXCEPT ![p] = s]
    BY <1>4, ZenonT(30)
  <2> HIDE DEF s
  <2> QED
    BY <1>1, <1>2, <2>1, <2>2, <2>3, <2>4, LocalStep, ZenonT(30) DEF IndInv, ExecutorLocals, ExecutingPc
<1>5. "evidence_limit_exceeded" \in FailureReasons
      /\ "cancellation_registration_failed" \in FailureReasons
  BY DEF FailureReasons
<1> QED
  BY <1>3, <1>4, <1>5 DEF Register, RegistrationExhausted

(* Ending an invocation, or its setup, with a well-formed outcome. *)
LEMMA EndsStep ==
    ASSUME IndInv, NEW p \in Starters, start[p].pc \in {"registered", "invoking"},
           NEW o \in OutcomeType,
           o.kind = "setup" => o.error \in FailureReasons,
           o.kind = "ok" => start[p].pc = "invoking",
           InvocationEnds(p, o),
           UNCHANGED <<store, registry, signalled, cancel, invocations>>
    PROVE  IndInv'
<1> DEFINE s == [start[p] EXCEPT !.pc = "unregister", !.outcome = o]
<1>1. /\ start[p] \in StartCall /\ start[p].pc \in ExecutingPc
      /\ start[p].active \in Run /\ start[p].active.attempt \in Attempt
  BY ZenonT(30) DEF IndInv, TypeOK, ExecutorLocals, ExecutingPc, ActivePc
<1>2. /\ s \in StartCall /\ s.pc = "unregister" /\ s.id = start[p].id
      /\ s.active = start[p].active /\ s.outcome = o
  BY <1>1, ZenonT(30) DEF StartCall, StartPc
<1>3. start' = [start EXCEPT ![p] = s]
  BY ZenonT(30) DEF InvocationEnds
<1>4. UNCHANGED <<store, signalled, cancel, invocations, cancellations, next_registration>>
  BY DEF registry
<1> HIDE DEF s
<1> QED
  BY <1>1, <1>2, <1>3, <1>4, LocalStep, ZenonT(30) DEF IndInv, TypeOK, ExecutorLocals

(* A setup failure after the registration. *)
LEMMA ControlFailsStep ==
    ASSUME IndInv, NEW p \in Starters, ControlFails(p)
    PROVE  IndInv'
<1> DEFINE o == Outcome("setup", "invocation_control_failed")
<1>1. o \in OutcomeType /\ o.kind = "setup" /\ o.error \in FailureReasons
  BY DEF Outcome, OutcomeType, FailureReasons
<1>2. InvocationEnds(p, o) /\ start[p].pc = "registered"
  BY DEF ControlFails, InvocationEnds
<1>3. UNCHANGED <<store, registry, signalled, cancel, invocations>>
  BY DEF ControlFails
<1> HIDE DEF o
<1> QED
  BY <1>1, <1>2, <1>3, EndsStep

(* The invoker returns. *)
LEMMA InvokerReturnsStep ==
    ASSUME IndInv, NEW p \in Starters, NEW o \in Outcomes, InvokerReturns(p, o)
    PROVE  IndInv'
<1>1. o \in OutcomeType /\ o.kind # "setup"
  BY DEF Outcomes, Outcome, OutcomeType, WorkflowErrors, None
<1>2. /\ InvocationEnds(p, o) /\ start[p].pc = "invoking"
      /\ UNCHANGED <<store, registry, signalled, cancel, invocations>>
  BY DEF InvokerReturns
<1> QED
  BY <1>1, <1>2, EndsStep

(* The invoker emits an item, accepted or refused. *)
LEMMA EmitStep ==
    ASSUME IndInv, NEW p \in Starters, NEW item \in EvidenceItems, Emit(p, item)
    PROVE  IndInv'
<1> DEFINE error == EmitError(start[p].active, start[p].evidence, item)
<1>1. /\ start[p].pc = "invoking"
      /\ UNCHANGED <<store, registry, signalled, cancel, invocations>>
  BY DEF Emit
<1>2. CASE error = None
  <2> DEFINE items == Append(start[p].evidence, item)
             s == [start[p] EXCEPT !.evidence = items]
  <2>1. start[p] \in StartCall /\ start[p].evidence \in Seq(EvidenceItem)
    BY ZenonT(30) DEF IndInv, TypeOK, StartCall
  <2>2. items \in Seq(EvidenceItem)
    BY <2>1, WorkflowAssumption
  <2>3. /\ s \in StartCall /\ s.pc = start[p].pc /\ s.id = start[p].id
        /\ s.active = start[p].active /\ s.outcome = start[p].outcome
    <3> HIDE DEF items
    <3> QED
      BY <2>1, <2>2 DEF StartCall
  <2>4. start' = [start EXCEPT ![p] = s]
    BY <1>2 DEF Emit
  <2>5. start[p].active \in Run /\ start[p].active.attempt \in Attempt
    BY <1>1 DEF IndInv, ExecutorLocals, ActivePc, ExecutingPc
  <2>6. UNCHANGED <<store, signalled, cancel, invocations, cancellations, next_registration>>
    BY <1>1 DEF registry
  <2> HIDE DEF s, items
  <2> QED
    BY <1>1, <2>3, <2>4, <2>5, <2>6, LocalStep, ZenonT(30)
       DEF IndInv, TypeOK, ExecutorLocals, ExecutingPc
<1>3. CASE error # None
  <2> DEFINE o == Outcome("err", error)
  <2>1. error \in WorkflowErrors
    BY <1>3 DEF EmitError, WorkflowErrors
  <2>2. o \in OutcomeType /\ o.kind = "err"
    BY <2>1 DEF Outcome, OutcomeType
  <2>3. InvocationEnds(p, o)
    BY <1>3 DEF Emit
  <2> HIDE DEF o
  <2> QED
    BY <1>1, <2>2, <2>3, EndsStep
<1> QED
  BY <1>2, <1>3

(* Dropping the registration guard leaves the registry well formed. *)
LEMMA DropRegistrationType ==
    ASSUME IndInv, NEW p \in Starters, start[p].id \in Identities, DropRegistration(p)
    PROVE  /\ cancellations' \in [Identities -> [token : Nat, signal : Starters] \cup {NoEntry}]
           /\ next_registration' \in 1 .. MaxRegistration
BY DEF DropRegistration, IndInv, TypeOK

(* The guard is dropped when the invocation is over. *)
LEMMA UnregisterStep ==
    ASSUME IndInv, NEW p \in Starters, Unregister(p)
    PROVE  IndInv'
<1> DEFINE s == [start[p] EXCEPT !.pc = "finish"]
<1>1. /\ start[p] \in StartCall /\ start[p].pc = "unregister" /\ start[p].id \in Identities
      /\ start[p].active \in Run /\ start[p].active.attempt \in Attempt
  BY DEF Unregister, IndInv, TypeOK, OneExecutor, ExecutorLocals, ExecutingPc, ActivePc
<1>2. /\ s \in StartCall /\ s.pc = "finish" /\ s.id = start[p].id
      /\ s.active = start[p].active /\ s.outcome = start[p].outcome
  BY <1>1 DEF StartCall, StartPc
<1>3. /\ start' = [start EXCEPT ![p] = s]
      /\ DropRegistration(p) /\ UNCHANGED <<store, signalled, cancel, invocations>>
  BY DEF Unregister
<1> HIDE DEF s
<1> QED
  BY <1>1, <1>2, <1>3, LocalStep, DropRegistrationType, ZenonT(30) DEF IndInv, ExecutorLocals, ExecutingPc

(* The guard is dropped with the future. *)
LEMMA DropStartStep ==
    ASSUME IndInv, NEW p \in Starters, DropStart(p)
    PROVE  IndInv'
<1> DEFINE s == [start[p] EXCEPT !.pc = "dropped"]
<1>1. start[p] \in StartCall /\ start[p].pc = "invoking" /\ start[p].id \in Identities
  BY DEF DropStart, IndInv, TypeOK, OneExecutor, ExecutingPc
<1>2. /\ s \in StartCall /\ s.pc = "dropped" /\ s.id = start[p].id
      /\ s.outcome = start[p].outcome
  BY <1>1 DEF StartCall, StartPc
<1>3. /\ start' = [start EXCEPT ![p] = s]
      /\ DropRegistration(p) /\ UNCHANGED <<store, signalled, cancel, invocations>>
  BY DEF DropStart
<1> HIDE DEF s
<1> QED
  BY <1>1, <1>2, <1>3, LocalStep, DropRegistrationType, ZenonT(30)
     DEF IndInv, ExecutorLocals, ExecutingPc, ActivePc

(* The executor that lost its transition reports what is there. *)
LEMMA StartRereadStep ==
    ASSUME IndInv, NEW p \in Starters, StartReread(p)
    PROVE  IndInv'
<1> DEFINE reply == Summary(runs[start[p].id])
           s == [start[p] EXCEPT !.pc = "done", !.reply = reply]
<1>1. start[p] \in StartCall /\ start[p].id \in identities
  BY DEF StartReread, IndInv, TypeOK, OneExecutor
<1>2. reply \in Replies
  BY <1>1, SummaryType
<1>3. s \in StartCall /\ s.pc = "done" /\ s.outcome = start[p].outcome
  <2> HIDE DEF reply
  <2> QED
    BY <1>1, <1>2, ZenonT(30) DEF StartCall, StartPc
<1>4. /\ start' = [start EXCEPT ![p] = s]
      /\ UNCHANGED <<store, registry, signalled, cancel, invocations>>
  BY ZenonT(30) DEF StartReread, StartReplies
<1>5. UNCHANGED <<cancellations, next_registration>>
  BY <1>4 DEF registry
<1> HIDE DEF s
<1> QED
  BY <1>3, <1>4, <1>5, LocalStep, ZenonT(30) DEF IndInv, TypeOK, ExecutorLocals, ExecutingPc, ActivePc

(* The transition to Running, and the snapshot it returns. *)
LEMMA BeginStep ==
    ASSUME IndInv, NEW p \in Starters, Begin(p)
    PROVE  IndInv'
<1> DEFINE i == start[p].id
           t == Started(start[p].policy)
           result == TransitionResult(i.tenant, i, 0, "Pending", t)
<1>1. /\ start[p] \in StartCall /\ start[p].pc = "begin" /\ i \in Identities
      /\ i \in identities /\ start[p].policy \in ValidPolicies /\ invocations[i] = 0
      /\ runs \in [Identities -> Run \cup {NoRun}]
  BY DEF Begin, IndInv, TypeOK, OneExecutor, ExecutorLocals, ExecutingPc, InvocationsTracked
<1>2. t \in Transition /\ t.attempt \in Attempt /\ t.status = "Running"
  BY <1>1, StartedType DEF Started
<1>3. /\ Apply(i, result, t)
      /\ UNCHANGED <<cancellations, next_registration, signalled, cancel, invocations>>
  BY DEF Begin, registry
<1>4. IF result = "Applied"
        THEN start' = [start EXCEPT ![p].pc = "register", ![p].active = Published(runs[i], t)]
        ELSE StartReplies(p, Reply("error",
               IF result = "NotFound" THEN "not_found" ELSE "conflict"))
  BY DEF Begin
<1> HIDE DEF i, t, result
<1>5. /\ runs' \in [Identities -> Run \cup {NoRun}]
      /\ \A j \in Identities : j # i => runs'[j] = runs[j]
      /\ \A j \in Identities : runs'[j] = NoRun <=> runs[j] = NoRun
      /\ identities' = identities /\ keys' = keys
      /\ result # "Applied" => runs' = runs
      /\ result = "Applied" => /\ runs'[i] = Published(runs[i], t) /\ runs[i] \in Run
                               /\ runs'[i] \in Run /\ runs'[i].status = "Running"
  <2>1. result = TransitionResult(i.tenant, i, 0, "Pending", t)
    BY DEF result
  <2>2. /\ runs' \in [Identities -> Run \cup {NoRun}]
        /\ \A j \in Identities : j # i => runs'[j] = runs[j]
        /\ runs'[i] = NoRun <=> runs[i] = NoRun
        /\ identities' = identities /\ keys' = keys
        /\ result # "Applied" => runs' = runs
        /\ result = "Applied" => /\ runs'[i] = Published(runs[i], t) /\ runs[i] \in Run
                                 /\ runs'[i] \in Run /\ runs'[i].status = t.status
    BY <1>1, <1>2, <1>3, <2>1, ApplyEffect
  <2> QED
    BY <1>2, <2>2
<1>6. \E s \in StartCall :
        /\ start' = [start EXCEPT ![p] = s]
        /\ s.outcome = start[p].outcome
        /\ \/ s.pc = "done"
           \/ /\ s.pc = "register" /\ result = "Applied" /\ s.id = i
              /\ s.active \in Run /\ s.active.attempt \in Attempt
  <2>1. CASE result = "Applied"
    <3> DEFINE r == Published(runs[i], t)
               s == [start[p] EXCEPT !.pc = "register", !.active = r]
    <3>1. r \in Run /\ r.attempt \in Attempt
      BY <1>2, <1>5, <2>1, PublishedType
    <3>2. start' = [start EXCEPT ![p] = s]
      BY <1>4, <2>1, ZenonT(30)
    <3> HIDE DEF r
    <3>3. /\ s \in StartCall /\ s.pc = "register" /\ s.id = i /\ s.active = r
          /\ s.outcome = start[p].outcome
      BY <1>1, <3>1, ZenonT(30) DEF StartCall, StartPc, i
    <3> QED
      BY <2>1, <3>1, <3>2, <3>3, ZenonT(30)
  <2>2. CASE result # "Applied"
    <3> DEFINE reply == Reply("error", IF result = "NotFound" THEN "not_found" ELSE "conflict")
               s == [start[p] EXCEPT !.pc = "done", !.reply = reply]
    <3>1. reply \in Replies
      BY DEF Reply, Replies, WorkflowErrors
    <3>2. start' = [start EXCEPT ![p] = s]
      BY <1>4, <2>2, ZenonT(30) DEF StartReplies
    <3> HIDE DEF reply
    <3>3. s \in StartCall /\ s.pc = "done" /\ s.outcome = start[p].outcome
      BY <1>1, <3>1, ZenonT(30) DEF StartCall, StartPc
    <3> QED
      BY <3>2, <3>3, ZenonT(30)
  <2> QED
    BY <2>1, <2>2
<1>7. PICK s \in StartCall :
        /\ start' = [start EXCEPT ![p] = s]
        /\ s.outcome = start[p].outcome
        /\ \/ s.pc = "done"
           \/ /\ s.pc = "register" /\ result = "Applied" /\ s.id = i
              /\ s.active \in Run /\ s.active.attempt \in Attempt
  BY <1>6, ZenonT(30)
<1>8. start'[p] = s /\ \A x \in Starters : x # p => start'[x] = start[x]
  BY <1>7 DEF IndInv, TypeOK
<1>9. TypeOK'
  BY <1>3, <1>5, <1>7 DEF IndInv, TypeOK
<1>10. StoreAgrees'
  BY <1>5 DEF IndInv, StoreAgrees
<1>11. OneExecutor'
  <2>1. s.pc \in ExecutingPc \cup {"reread", "dropped"} => s.id = i
    BY <1>7 DEF ExecutingPc
  <2>2. start[p].id = i /\ start[p].pc \in ExecutingPc /\ i \in identities'
    BY <1>1, <1>5 DEF ExecutingPc, i
  <2> QED
    BY <1>5, <1>8, <2>1, <2>2 DEF IndInv, OneExecutor
<1>12. ExecutorLocals'
  BY <1>7, <1>8 DEF IndInv, ExecutorLocals, ExecutingPc, ActivePc
<1>13. CancelLocals'
  BY <1>3, <1>5 DEF IndInv, CancelLocals
<1>14. InvocationsTracked'
  <2>1. \A x \in Starters : x # p /\ start[x].pc \in {"register", "registered"} =>
          runs'[start[x].id].status \in {"Running", "Cancelled"}
    BY <1>1, <1>5, ZenonT(30) DEF IndInv, TypeOK, OneExecutor, InvocationsTracked, ExecutingPc, i
  <2>2. /\ s.pc = "register" =>
              s.id = i /\ i \in Identities /\ runs'[i].status = "Running" /\ invocations[i] = 0
        /\ s.pc \in {"done", "register"}
    BY <1>1, <1>5, <1>7
  <2>3. ASSUME NEW x \in Starters, x # p
        PROVE  /\ start'[x].pc \in {"begin", "register", "registered"} =>
                     invocations[start'[x].id] = 0
               /\ start'[x].pc \in {"register", "registered"} =>
                     runs'[start'[x].id].status \in {"Running", "Cancelled"}
               /\ start'[x].pc = "invoking" => invocations[start'[x].id] = 1
               /\ start'[x].pc \in {"unregister", "finish"} /\ start'[x].outcome.kind = "ok" =>
                     invocations[start'[x].id] = 1
    BY <1>8, <2>1, <2>3 DEF IndInv, InvocationsTracked
  <2>4. /\ \A j \in Identities : invocations'[j] \in {0, 1}
        /\ \A j \in Identities \ identities' : invocations'[j] = 0
    BY <1>3, <1>5 DEF IndInv, InvocationsTracked
  <2> QED
    BY <1>3, <1>8, <2>2, <2>3, <2>4 DEF InvocationsTracked
<1> QED
  BY <1>9, <1>10, <1>11, <1>12, <1>13, <1>14 DEF IndInv

(* Calling the invoker: the run's only executor does it, once. *)
LEMMA InvokeStep ==
    ASSUME IndInv, NEW p \in Starters, Invoke(p)
    PROVE  IndInv'
<1> DEFINE s == [start[p] EXCEPT !.pc = "invoking"]
<1>1. /\ start[p] \in StartCall /\ start[p].pc = "registered"
      /\ start[p].id \in identities /\ start[p].id \in Identities
      /\ start[p].active \in Run /\ start[p].active.attempt \in Attempt
      /\ invocations[start[p].id] = 0
  BY DEF Invoke, IndInv, TypeOK, OneExecutor, ExecutorLocals, InvocationsTracked,
         ExecutingPc, ActivePc
<1>2. /\ s \in StartCall /\ s.pc = "invoking" /\ s.id = start[p].id
      /\ s.active = start[p].active /\ s.outcome = start[p].outcome
  BY <1>1 DEF StartCall, StartPc
<1>3. /\ start' = [start EXCEPT ![p] = s]
      /\ invocations' = [invocations EXCEPT ![start[p].id] = 1]
      /\ UNCHANGED <<runs, identities, keys, cancellations, next_registration, signalled, cancel>>
  BY <1>1 DEF Invoke, store, registry, IndInv, TypeOK
<1> HIDE DEF s
<1>4. start'[p] = s /\ \A x \in Starters : x # p => start'[x] = start[x]
  BY <1>3 DEF IndInv, TypeOK
<1>5. TypeOK'
  BY <1>1, <1>2, <1>3 DEF IndInv, TypeOK
<1>6. StoreAgrees'
  BY <1>3 DEF IndInv, StoreAgrees
<1>7. OneExecutor'
  <2>1. start[p].pc \in ExecutingPc
    BY <1>1 DEF ExecutingPc
  <2>2. \A x \in Starters : SameExecutor(start[x], start'[x])
    BY <1>2, <1>4, <2>1 DEF SameExecutor
  <2> QED
    BY <1>3, <2>2, OneExecutorKept DEF IndInv
<1>8. ExecutorLocals'
  BY <1>1, <1>2, <1>4 DEF IndInv, ExecutorLocals
<1>9. CancelLocals'
  BY <1>3 DEF IndInv, CancelLocals
<1>10. InvocationsTracked'
  <2>1. /\ invocations'[start[p].id] = 1
        /\ \A j \in Identities : j # start[p].id => invocations'[j] = invocations[j]
    BY <1>1, <1>3 DEF IndInv, TypeOK
  <2>2. \A x \in Starters : x # p /\ start[x].pc \in ExecutingPc =>
          start[x].id \in Identities /\ start[x].id # start[p].id
    BY <1>1 DEF IndInv, TypeOK, OneExecutor, ExecutingPc
  <2>3. ASSUME NEW x \in Starters, x # p
        PROVE  /\ start'[x].pc \in {"begin", "register", "registered"} =>
                     invocations'[start'[x].id] = 0
               /\ start'[x].pc \in {"register", "registered"} =>
                     runs'[start'[x].id].status \in {"Running", "Cancelled"}
               /\ start'[x].pc = "invoking" => invocations'[start'[x].id] = 1
               /\ start'[x].pc \in {"unregister", "finish"} /\ start'[x].outcome.kind = "ok" =>
                     invocations'[start'[x].id] = 1
    <3>1. start[x].pc \in ExecutingPc => invocations'[start[x].id] = invocations[start[x].id]
      BY <2>1, <2>2, <2>3
    <3>2. start'[x] = start[x] /\ runs' = runs
      BY <1>3, <1>4, <2>3
    <3> QED
      BY <3>1, <3>2 DEF IndInv, InvocationsTracked, ExecutingPc
  <2>4. /\ \A j \in Identities : invocations'[j] \in {0, 1}
        /\ \A j \in Identities \ identities' : invocations'[j] = 0
    BY <1>1, <1>3, <2>1 DEF IndInv, InvocationsTracked
  <2>5. start'[p].pc = "invoking" /\ invocations'[start'[p].id] = 1
    BY <1>2, <1>4, <2>1
  <2> QED
    BY <2>3, <2>4, <2>5 DEF InvocationsTracked
<1> QED
  BY <1>5, <1>6, <1>7, <1>8, <1>9, <1>10 DEF IndInv

(* What the executor answers once its terminal transition was tried. *)
LEMMA FinishReplyType ==
    ASSUME NEW s, NEW run, run.status \in RunStatus
    PROVE  FinishReply(s, run) \in Replies
BY DEF FinishReply, Summary, Reply, Replies, WorkflowErrors

(* The terminal transition: no other call executes the run it may end. *)
LEMMA FinishStep ==
    ASSUME IndInv, NEW p \in Starters, Finish(p)
    PROVE  IndInv'
<1> DEFINE i == start[p].id
           t == FinishTransition(start[p])
           result == TransitionResult(i.tenant, i, start[p].active.revision, "Running", t)
<1>1. /\ start[p] \in StartCall /\ start[p].pc = "finish" /\ i \in Identities
      /\ i \in identities /\ start[p].active \in Run
      /\ runs \in [Identities -> Run \cup {NoRun}]
  BY DEF Finish, IndInv, TypeOK, OneExecutor, ExecutorLocals, ExecutingPc, ActivePc
<1>2. t \in Transition
  BY <1>1, FinishType DEF IndInv
<1>3. /\ Apply(i, result, t)
      /\ UNCHANGED <<cancellations, next_registration, signalled, cancel, invocations>>
  BY DEF Finish, registry
<1>4. IF result = "NotFound" THEN StartReplies(p, Reply("error", "not_found"))
      ELSE IF result = "Conflict" /\ start[p].outcome.kind # "setup"
        THEN start' = [start EXCEPT ![p].pc = "reread"]
      ELSE StartReplies(p, FinishReply(start[p], Published(start[p].active, t)))
  BY DEF Finish
<1> HIDE DEF i, t, result
<1>5. /\ runs' \in [Identities -> Run \cup {NoRun}]
      /\ \A j \in Identities : j # i => runs'[j] = runs[j]
      /\ \A j \in Identities : runs'[j] = NoRun <=> runs[j] = NoRun
      /\ identities' = identities /\ keys' = keys
  BY <1>1, <1>2, <1>3, ApplyEffect DEF result
<1>6. ASSUME NEW reply \in Replies, StartReplies(p, reply)
      PROVE  \E s \in StartCall :
               /\ start' = [start EXCEPT ![p] = s]
               /\ s.outcome = start[p].outcome /\ s.id = i /\ s.pc \in {"done", "reread"}
  <2> DEFINE s == [start[p] EXCEPT !.pc = "done", !.reply = reply]
  <2>1. s \in StartCall /\ s.pc = "done" /\ s.outcome = start[p].outcome /\ s.id = i
    BY <1>1, ZenonT(30) DEF StartCall, StartPc, i
  <2>2. start' = [start EXCEPT ![p] = s]
    BY <1>6, ZenonT(30) DEF StartReplies
  <2> QED
    BY <2>1, <2>2, ZenonT(30)
<1>7. ASSUME start' = [start EXCEPT ![p].pc = "reread"]
      PROVE  \E s \in StartCall :
               /\ start' = [start EXCEPT ![p] = s]
               /\ s.outcome = start[p].outcome /\ s.id = i /\ s.pc \in {"done", "reread"}
  <2> DEFINE s == [start[p] EXCEPT !.pc = "reread"]
  <2>1. s \in StartCall /\ s.pc = "reread" /\ s.outcome = start[p].outcome /\ s.id = i
    BY <1>1 DEF StartCall, StartPc, i
  <2>2. start' = [start EXCEPT ![p] = s]
    BY <1>7
  <2> QED
    BY <2>1, <2>2, ZenonT(30)
<1>8. PICK s \in StartCall :
        /\ start' = [start EXCEPT ![p] = s]
        /\ s.outcome = start[p].outcome /\ s.id = i /\ s.pc \in {"done", "reread"}
  <2>1. Reply("error", "not_found") \in Replies
    BY DEF Reply, Replies, WorkflowErrors
  <2>2. Published(start[p].active, t).status \in RunStatus
    BY <1>1, <1>2, PublishedType DEF Run
  <2>3. FinishReply(start[p], Published(start[p].active, t)) \in Replies
    BY <2>2, FinishReplyType
  <2> QED
    BY <1>4, <1>6, <1>7, <2>1, <2>3
<1>9. start'[p] = s /\ \A x \in Starters : x # p => start'[x] = start[x]
  BY <1>8 DEF IndInv, TypeOK
<1>10. TypeOK'
  BY <1>3, <1>5, <1>8 DEF IndInv, TypeOK
<1>11. StoreAgrees'
  BY <1>5 DEF IndInv, StoreAgrees
<1>12. OneExecutor'
  <2>1. start[p].pc \in ExecutingPc /\ start[p].id = i
    BY <1>1 DEF ExecutingPc, i
  <2>2. start'[p].id = i /\ start'[p].pc \notin ExecutingPc
    BY <1>8, <1>9 DEF ExecutingPc
  <2>3. \A x \in Starters : SameExecutor(start[x], start'[x])
    BY <1>9, <2>1, <2>2 DEF SameExecutor
  <2> QED
    BY <1>5, <2>3, OneExecutorKept DEF IndInv
<1>13. ExecutorLocals'
  BY <1>8, <1>9 DEF IndInv, ExecutorLocals, ExecutingPc, ActivePc
<1>14. CancelLocals'
  BY <1>3, <1>5, ZenonT(30) DEF IndInv, CancelLocals
<1>15. InvocationsTracked'
  <2>1. \A x \in Starters : x # p /\ start[x].pc \in {"register", "registered"} =>
          runs'[start[x].id].status \in {"Running", "Cancelled"}
    BY <1>1, <1>5, ZenonT(30) DEF IndInv, TypeOK, OneExecutor, InvocationsTracked, ExecutingPc, i
  <2>2. /\ \A j \in Identities : invocations'[j] \in {0, 1}
        /\ \A j \in Identities \ identities' : invocations'[j] = 0
    BY <1>3, <1>5 DEF IndInv, InvocationsTracked
  <2>3. start'[p].pc \in {"done", "reread"}
    BY <1>8, <1>9
  <2>4. ASSUME NEW x \in Starters, x # p
        PROVE  /\ start'[x].pc \in {"begin", "register", "registered"} =>
                     invocations'[start'[x].id] = 0
               /\ start'[x].pc \in {"register", "registered"} =>
                     runs'[start'[x].id].status \in {"Running", "Cancelled"}
               /\ start'[x].pc = "invoking" => invocations'[start'[x].id] = 1
               /\ start'[x].pc \in {"unregister", "finish"} /\ start'[x].outcome.kind = "ok" =>
                     invocations'[start'[x].id] = 1
    BY <1>3, <1>9, <2>1, <2>4 DEF IndInv, InvocationsTracked
  <2> QED
    BY <2>2, <2>3, <2>4 DEF InvocationsTracked
<1> QED
  BY <1>10, <1>11, <1>12, <1>13, <1>14, <1>15 DEF IndInv

(* A step that only moves one cancel call on keeps the invariant. *)
LEMMA LocalCancelStep ==
    ASSUME IndInv, NEW c \in Cancellers, NEW x \in CancelCall,
           x.pc \in {"lookup", "signal", "publish", "reread"} =>
               x.id \in identities /\ x.run \in Run,
           x.pc = "signal" => x.signal \in Starters,
           cancel' = [cancel EXCEPT ![c] = x],
           signalled' \subseteq Starters,
           UNCHANGED <<store, registry, start, invocations>>
    PROVE  IndInv'
<1>1. UNCHANGED <<runs, identities, keys, cancellations, next_registration, start, invocations>>
  BY DEF store, registry
<1>2. cancel'[c] = x /\ \A d \in Cancellers : d # c => cancel'[d] = cancel[d]
  BY DEF IndInv, TypeOK
<1>3. TypeOK'
  BY <1>1 DEF IndInv, TypeOK
<1>4. CancelLocals'
  BY <1>1, <1>2 DEF IndInv, CancelLocals
<1>5. StoreAgrees' /\ OneExecutor'
  BY <1>1 DEF IndInv, StoreAgrees, OneExecutor
<1>6. ExecutorLocals' /\ InvocationsTracked'
  BY <1>1 DEF IndInv, ExecutorLocals, InvocationsTracked
<1> QED
  BY <1>3, <1>4, <1>5, <1>6 DEF IndInv

(* A cancel call reads the run, if it is the tenant's. *)
LEMMA CancelGetStep ==
    ASSUME IndInv, NEW c \in Cancellers, NEW tenant \in Tenants, NEW i \in Identities,
           CancelGet(c, tenant, i)
    PROVE  IndInv'
<1> DEFINE run == get(tenant, i)
           reply == IF run = NoRun THEN Reply("error", "not_found")
                    ELSE IF run.status \in Terminal THEN Summary(run) ELSE NoReply
           pc == IF run = NoRun \/ run.status \in Terminal THEN "done" ELSE "lookup"
           x == [cancel[c] EXCEPT !.pc = pc, !.id = i, !.tenant = tenant, !.run = run,
                                  !.reply = reply]
<1>1. cancel[c] \in CancelCall
  BY DEF IndInv, TypeOK
<1>2. run \in Run \cup {NoRun} /\ (run # NoRun => i \in identities)
  BY DEF get, IndInv, TypeOK, StoreAgrees
<1>3. reply \in Replies
  BY <1>2 DEF Summary, Reply, Replies, WorkflowErrors, NoReply, Run, RunStatus, Terminal
<1>4. pc \in CancelPc /\ pc # "signal" /\ (pc # "done" => run # NoRun)
  BY DEF CancelPc
<1>5. cancel' = [cancel EXCEPT ![c] = x]
  BY ZenonT(30) DEF CancelGet
<1>6. UNCHANGED <<store, registry, signalled, start, invocations>>
  BY DEF CancelGet
<1> HIDE DEF run, reply, pc
<1>7. x \in CancelCall /\ x.pc = pc /\ x.id = i /\ x.run = run
  BY <1>1, <1>2, <1>3, <1>4, ZenonT(30) DEF CancelCall
<1> HIDE DEF x
<1> QED
  BY <1>2, <1>4, <1>5, <1>6, <1>7, LocalCancelStep, ZenonT(30) DEF IndInv, TypeOK

(* It looks the run's signal up. *)
LEMMA CancelLookupStep ==
    ASSUME IndInv, NEW c \in Cancellers, CancelLookup(c)
    PROVE  IndInv'
<1> DEFINE entry == cancellations[cancel[c].id]
           reply == Reply("error", "conflict")
           x == [cancel[c] EXCEPT !.pc = "done", !.reply = reply]
           y == [cancel[c] EXCEPT !.pc = "signal", !.signal = entry.signal]
<1>1. /\ cancel[c] \in CancelCall /\ cancel[c].id \in identities
      /\ cancel[c].id \in Identities /\ cancel[c].run \in Run
  BY DEF CancelLookup, IndInv, TypeOK, CancelLocals
<1>2. reply \in Replies
  BY DEF Reply, Replies, WorkflowErrors
<1>3. UNCHANGED <<store, registry, signalled, start, invocations>>
  BY DEF CancelLookup
<1>4. IF entry = NoEntry THEN cancel' = [cancel EXCEPT ![c] = x]
      ELSE cancel' = [cancel EXCEPT ![c] = y]
  BY ZenonT(30) DEF CancelLookup, CancelReplies
<1>5. CASE entry = NoEntry
  <2> HIDE DEF reply
  <2>1. x \in CancelCall /\ x.pc = "done"
    BY <1>1, <1>2, ZenonT(30) DEF CancelCall, CancelPc
  <2> HIDE DEF x
  <2> QED
    BY <1>3, <1>4, <1>5, <2>1, LocalCancelStep DEF IndInv, TypeOK
<1>6. CASE entry # NoEntry
  <2>1. entry.signal \in Starters
    BY <1>1, <1>6 DEF IndInv, TypeOK
  <2> HIDE DEF entry
  <2>2. /\ y \in CancelCall /\ y.id = cancel[c].id /\ y.run = cancel[c].run
        /\ y.signal = entry.signal
    BY <1>1, <2>1, ZenonT(30) DEF CancelCall, CancelPc
  <2> HIDE DEF y
  <2> QED
    BY <1>1, <1>3, <1>4, <1>6, <2>1, <2>2, LocalCancelStep DEF IndInv, TypeOK
<1> QED
  BY <1>5, <1>6

(* It raises the signal. *)
LEMMA CancelSignalStep ==
    ASSUME IndInv, NEW c \in Cancellers, CancelSignal(c)
    PROVE  IndInv'
<1> DEFINE x == [cancel[c] EXCEPT !.pc = "publish"]
<1>1. /\ cancel[c] \in CancelCall /\ cancel[c].id \in identities
      /\ cancel[c].run \in Run /\ cancel[c].signal \in Starters
  BY DEF CancelSignal, IndInv, TypeOK, CancelLocals
<1>2. x \in CancelCall /\ x.pc = "publish" /\ x.id = cancel[c].id /\ x.run = cancel[c].run
  BY <1>1 DEF CancelCall, CancelPc
<1>3. /\ cancel' = [cancel EXCEPT ![c] = x]
      /\ signalled' = signalled \cup {cancel[c].signal}
      /\ UNCHANGED <<store, registry, start, invocations>>
  BY DEF CancelSignal
<1> HIDE DEF x
<1> QED
  BY <1>1, <1>2, <1>3, LocalCancelStep, ZenonT(30) DEF IndInv, TypeOK

(* It publishes Cancelled, if the run is still as it was read. *)
LEMMA CancelPublishStep ==
    ASSUME IndInv, NEW c \in Cancellers, CancelPublish(c)
    PROVE  IndInv'
<1> DEFINE i == cancel[c].id
           t == Cancelling(cancel[c].run)
           result == TransitionResult(cancel[c].tenant, i, cancel[c].run.revision, "Running", t)
<1>1. /\ cancel[c] \in CancelCall /\ i \in identities /\ i \in Identities
      /\ cancel[c].run \in Run /\ runs \in [Identities -> Run \cup {NoRun}]
  BY DEF CancelPublish, IndInv, TypeOK, CancelLocals
<1>2. t \in Transition /\ t.status = "Cancelled"
  BY <1>1, CancellingType DEF Cancelling
<1>3. /\ Apply(i, result, t)
      /\ UNCHANGED <<cancellations, next_registration, signalled, start, invocations>>
      /\ IF result = "Conflict" THEN cancel' = [cancel EXCEPT ![c].pc = "reread"]
         ELSE IF result = "NotFound" THEN CancelReplies(c, Reply("error", "not_found"))
         ELSE CancelReplies(c, Reply("summary", t.status))
  BY DEF CancelPublish, registry
<1> HIDE DEF i, t, result
<1>4. /\ runs' \in [Identities -> Run \cup {NoRun}]
      /\ \A j \in Identities : runs'[j] = runs[j] \/ runs'[j].status = "Cancelled"
      /\ \A j \in Identities : runs'[j] = NoRun <=> runs[j] = NoRun
      /\ identities' = identities /\ keys' = keys
  BY <1>1, <1>2, <1>3, ApplyEffect DEF result
<1>5. ASSUME NEW reply \in Replies, CancelReplies(c, reply)
      PROVE  \E x \in CancelCall :
               /\ cancel' = [cancel EXCEPT ![c] = x] /\ x.pc \in {"done", "reread"}
               /\ x.id = i /\ x.run = cancel[c].run
  <2> DEFINE x == [cancel[c] EXCEPT !.pc = "done", !.reply = reply]
  <2>1. x \in CancelCall /\ x.pc = "done" /\ x.id = i /\ x.run = cancel[c].run
    BY <1>1, ZenonT(30) DEF CancelCall, CancelPc, i
  <2>2. cancel' = [cancel EXCEPT ![c] = x]
    BY <1>5, ZenonT(30) DEF CancelReplies
  <2> QED
    BY <2>1, <2>2, ZenonT(30)
<1>6. ASSUME cancel' = [cancel EXCEPT ![c].pc = "reread"]
      PROVE  \E x \in CancelCall :
               /\ cancel' = [cancel EXCEPT ![c] = x] /\ x.pc \in {"done", "reread"}
               /\ x.id = i /\ x.run = cancel[c].run
  <2> DEFINE x == [cancel[c] EXCEPT !.pc = "reread"]
  <2>1. x \in CancelCall /\ x.pc = "reread" /\ x.id = i /\ x.run = cancel[c].run
    BY <1>1 DEF CancelCall, CancelPc, i
  <2> QED
    BY <1>6, <2>1, ZenonT(30)
<1>7. PICK x \in CancelCall :
        /\ cancel' = [cancel EXCEPT ![c] = x] /\ x.pc \in {"done", "reread"}
        /\ x.id = i /\ x.run = cancel[c].run
  <2>1. Reply("error", "not_found") \in Replies /\ Reply("summary", t.status) \in Replies
    BY <1>2 DEF Reply, Replies, WorkflowErrors, RunStatus
  <2> QED
    BY <1>3, <1>5, <1>6, <2>1
<1>8. cancel'[c] = x /\ \A d \in Cancellers : d # c => cancel'[d] = cancel[d]
  BY <1>7 DEF IndInv, TypeOK
<1>9. TypeOK'
  BY <1>3, <1>4, <1>7 DEF IndInv, TypeOK
<1>10. StoreAgrees'
  BY <1>4 DEF IndInv, StoreAgrees
<1>11. OneExecutor' /\ ExecutorLocals'
  BY <1>3, <1>4 DEF IndInv, OneExecutor, ExecutorLocals
<1>12. CancelLocals'
  BY <1>1, <1>4, <1>7, <1>8 DEF IndInv, CancelLocals
<1>13. InvocationsTracked'
  <2>1. \A x1 \in Starters : start[x1].pc \in {"register", "registered"} =>
          runs'[start[x1].id].status \in {"Running", "Cancelled"}
    BY <1>4, ZenonT(30) DEF IndInv, TypeOK, OneExecutor, InvocationsTracked, ExecutingPc
  <2> QED
    BY <1>3, <1>4, <2>1 DEF IndInv, InvocationsTracked
<1> QED
  BY <1>9, <1>10, <1>11, <1>12, <1>13 DEF IndInv

(* A cancel call that lost the race reports what is there. *)
LEMMA CancelRereadStep ==
    ASSUME IndInv, NEW c \in Cancellers, CancelReread(c)
    PROVE  IndInv'
<1> DEFINE reply == Summary(runs[cancel[c].id])
           x == [cancel[c] EXCEPT !.pc = "done", !.reply = reply]
<1>1. cancel[c] \in CancelCall /\ cancel[c].id \in identities
  BY DEF CancelReread, IndInv, TypeOK, CancelLocals
<1>2. reply \in Replies
  BY <1>1, SummaryType
<1>3. cancel' = [cancel EXCEPT ![c] = x] /\ UNCHANGED <<store, registry, signalled, start, invocations>>
  BY ZenonT(30) DEF CancelReread, CancelReplies
<1> HIDE DEF reply
<1>4. x \in CancelCall /\ x.pc = "done"
  BY <1>1, <1>2, ZenonT(30) DEF CancelCall, CancelPc
<1> HIDE DEF x
<1> QED
  BY <1>3, <1>4, LocalCancelStep, ZenonT(30) DEF IndInv, TypeOK

-----------------------------------------------------------------------------
(* The invariant holds, and what follows from it. *)

(* The empty store and the idle calls satisfy the invariant. *)
LEMMA InitInv == Init => IndInv
<1> SUFFICES ASSUME Init PROVE IndInv
  OBVIOUS
<1>1. NoReply \in Replies /\ Outcome(None, None) \in OutcomeType
  BY DEF NoReply, Reply, Replies, Outcome, OutcomeType
<1>2. IdleStart \in StartCall /\ IdleStart.pc = "idle" /\ IdleStart.outcome.kind = None
  <2>1. "idle" \in StartPc
    BY DEF StartPc
  <2>2. <<>> \in Seq(EvidenceItem) /\ 0 \in Nat
    OBVIOUS
  <2>3. /\ NoIdentity \in Identities \cup {NoIdentity}
        /\ None \in ValidPolicies \cup {None}
        /\ NoRun \in Run \cup {NoRun}
    OBVIOUS
  <2>4. IdleStart \in StartCall
    BY <1>1, <2>1, <2>2, <2>3 DEF IdleStart, StartCall
  <2> QED
    BY <2>4 DEF IdleStart, Outcome
<1>3. IdleCancel \in CancelCall /\ IdleCancel.pc = "idle"
  BY <1>1 DEF IdleCancel, CancelCall, CancelPc
<1>4. TypeOK
  BY <1>2, <1>3, WorkflowAssumption DEF Init, TypeOK
<1>5. StoreAgrees /\ InvocationsTracked
  BY <1>2 DEF Init, StoreAgrees, InvocationsTracked
<1>6. OneExecutor /\ ExecutorLocals
  BY <1>2 DEF Init, OneExecutor, ExecutorLocals, ExecutingPc, ActivePc, None
<1>7. CancelLocals
  BY <1>3 DEF Init, CancelLocals
<1> QED
  BY <1>4, <1>5, <1>6, <1>7 DEF IndInv

(* A step of a start call or of a cancel call keeps the invariant. *)
LEMMA NextInv == IndInv /\ [Next]_vars => IndInv'
<1> SUFFICES ASSUME IndInv, [Next]_vars PROVE IndInv'
  OBVIOUS
<1>1. CASE UNCHANGED vars
  BY <1>1, ZenonT(30) DEF vars, IndInv, TypeOK, StoreAgrees, OneExecutor, ExecutorLocals,
              CancelLocals, InvocationsTracked
<1>2. ASSUME NEW p \in Starters, NEW q \in StartRequests,
             StartRejected(p, q) \/ StartReplayed(p, q) \/ StartCreated(p, q)
      PROVE  IndInv'
  BY <1>2, StartRejectedStep, StartReplayedStep, StartCreatedStep
<1>3. ASSUME NEW p \in Starters,
             StartStep(p) \/ ControlFails(p) \/ Invoke(p) \/ DropStart(p)
      PROVE  IndInv'
  BY <1>3, BeginStep, RegisterStep, UnregisterStep, FinishStep, StartRereadStep,
     ControlFailsStep, InvokeStep, DropStartStep DEF StartStep
<1>4. ASSUME NEW p \in Starters, NEW item \in EvidenceItems, Emit(p, item)
      PROVE  IndInv'
  BY <1>4, EmitStep
<1>5. ASSUME NEW p \in Starters, NEW outcome \in Outcomes, InvokerReturns(p, outcome)
      PROVE  IndInv'
  BY <1>5, InvokerReturnsStep
<1>6. ASSUME NEW c \in Cancellers, NEW tenant \in Tenants, NEW i \in Identities,
             CancelGet(c, tenant, i)
      PROVE  IndInv'
  BY <1>6, CancelGetStep
<1>7. ASSUME NEW c \in Cancellers, CancelStep(c)
      PROVE  IndInv'
  BY <1>7, CancelLookupStep, CancelSignalStep, CancelPublishStep, CancelRereadStep
     DEF CancelStep
<1>8. CASE AllReturned
  BY <1>1, <1>8 DEF AllReturned
<1> QED
  BY <1>1, <1>2, <1>3, <1>4, <1>5, <1>6, <1>7, <1>8 DEF Next

(* The inductive invariant holds in every reachable state. *)
THEOREM Invariance == Spec => []IndInv
BY InitInv, NextInv, PTL DEF Spec

(* The runner, its registry and its store are type correct. *)
THEOREM TypeCorrect == Spec => []TypeOK
<1>1. IndInv => TypeOK
  BY DEF IndInv
<1> QED
  BY <1>1, Invariance, PTL

(* The agent is invoked at most once for a start key, whatever calls start, *)
(* replay, cancel or are dropped.                                          *)
THEOREM AgentInvokedOncePerKey == Spec => []InvokedOncePerKey
<1>1. IndInv => InvokedOncePerKey
  <2> SUFFICES ASSUME IndInv, NEW i \in Identities, NEW j \in Identities,
                      StartKeyOf(i) = StartKeyOf(j),
                      invocations[i] > 0, invocations[j] > 0
               PROVE  i = j /\ invocations[i] = 1
    BY DEF InvokedOncePerKey
  <2>1. i \in identities /\ j \in identities /\ invocations[i] = 1
    BY DEF IndInv, InvocationsTracked
  <2>2. keys[StartKeyOf(i)] = i /\ keys[StartKeyOf(j)] = j
    BY <2>1 DEF IndInv, StoreAgrees
  <2> QED
    BY <2>1, <2>2
<1> QED
  BY <1>1, Invariance, PTL

-----------------------------------------------------------------------------
(* What a step does to the runs and to the count of invocations. *)

Creates(i) ==
    /\ \A j \in Identities : StartKeyOf(j) = StartKeyOf(i) => runs[j] = NoRun
    /\ \E r \in Run : r.status = "Pending" /\ runs' = [runs EXCEPT ![i] = r]
    /\ invocations' = invocations

Publishes(i, t) ==
    /\ runs[i] \in Run
    /\ LegalMove(runs[i], t)
    /\ t.status = "Succeeded" => invocations[i] = 1
    /\ runs' = [runs EXCEPT ![i] = Published(runs[i], t)]
    /\ invocations' = invocations

Invokes(i) ==
    /\ runs[i].status \in {"Running", "Cancelled"}
    /\ invocations[i] = 0
    /\ invocations' = [invocations EXCEPT ![i] = 1]
    /\ runs' = runs

Moves ==
    \/ UNCHANGED <<runs, invocations>>
    \/ \E i \in Identities : Creates(i) \/ Invokes(i)
    \/ \E i \in Identities, t \in Transition : Publishes(i, t)

(* A transition that the store applies is a legal move of the run. *)
LEMMA AppliedPublishes ==
    ASSUME runs \in [Identities -> Run \cup {NoRun}],
           NEW i \in Identities, NEW t \in Transition,
           NEW tenant, NEW revision, NEW expected, NEW result,
           result = TransitionResult(tenant, i, revision, expected, t),
           Apply(i, result, t), invocations' = invocations,
           t.status = "Succeeded" => invocations[i] = 1
    PROVE  Moves
<1>1. CASE result # "Applied"
  BY <1>1 DEF Apply, Moves
<1>2. CASE result = "Applied"
  <2>1. get(tenant, i) # NoRun /\ transition_is_valid(runs[i], expected, t)
    BY <1>2 DEF TransitionResult
  <2>2. runs[i] \in Run /\ LegalMove(runs[i], t)
    BY <2>1 DEF get, transition_is_valid
  <2>3. runs' = [runs EXCEPT ![i] = Published(runs[i], t)]
    BY <1>2 DEF Apply
  <2>4. Publishes(i, t)
    BY <2>2, <2>3 DEF Publishes
  <2> QED
    BY <2>4 DEF Moves
<1> QED
  BY <1>1, <1>2

(* Only an invocation that returned publishes a success. *)
LEMMA SuccessWasInvoked ==
    ASSUME IndInv, NEW p \in Starters, start[p].pc = "finish",
           FinishTransition(start[p]).status = "Succeeded"
    PROVE  invocations[start[p].id] = 1
<1>1. start[p].outcome.kind = "ok"
  BY DEF FinishTransition, finish_failure
<1> QED
  BY <1>1 DEF IndInv, InvocationsTracked

(* Every step leaves the runs alone, creates one, publishes one legal      *)
(* transition, or calls the agent for the first time.                      *)
LEMMA StepMoves == IndInv /\ [Next]_vars => Moves
<1> SUFFICES ASSUME IndInv, [Next]_vars PROVE Moves
  OBVIOUS
<1> USE DEF store
<1>0. runs \in [Identities -> Run \cup {NoRun}]
  BY DEF IndInv, TypeOK
<1>1. CASE UNCHANGED vars
  BY <1>1 DEF vars, Moves
<1>2. ASSUME NEW p \in Starters, NEW q \in StartRequests, StartCreated(p, q)
      PROVE  Moves
  <2> DEFINE i == IdentityOf(q)
             r == PendingRun(Catalog[q.workflow].max_evidence_bytes)
  <2>1. i \in Identities /\ r \in Run /\ r.status = "Pending"
    BY <1>2, AcceptedRequest DEF StartCreated, PendingRun
  <2>2. runs' = [runs EXCEPT ![i] = r] /\ invocations' = invocations
        /\ keys[StartKeyOf(i)] = NoIdentity
    BY <1>2 DEF StartCreated, KeyIsFree
  <2> HIDE DEF i, r
  <2>3. \A j \in Identities : StartKeyOf(j) = StartKeyOf(i) => runs[j] = NoRun
    BY <2>1, <2>2, NoIdentityIsNotAnIdentity DEF IndInv, StoreAgrees
  <2>4. Creates(i)
    BY <2>1, <2>2, <2>3, ZenonT(30) DEF Creates
  <2> QED
    BY <2>1, <2>4 DEF Moves
<1>3. ASSUME NEW p \in Starters, NEW q \in StartRequests,
             StartRejected(p, q) \/ StartReplayed(p, q)
      PROVE  Moves
  BY <1>3 DEF StartRejected, StartReplayed, Moves
<1>4. ASSUME NEW p \in Starters, Begin(p)
      PROVE  Moves
  <2> DEFINE i == start[p].id
             t == Started(start[p].policy)
             result == TransitionResult(i.tenant, i, 0, "Pending", t)
  <2>1. i \in Identities /\ start[p].policy \in ValidPolicies
    BY <1>4 DEF Begin, IndInv, TypeOK, OneExecutor, ExecutorLocals, ExecutingPc
  <2>2. t \in Transition /\ t.status # "Succeeded"
    BY <2>1, StartedType DEF Started
  <2>3. Apply(i, result, t) /\ invocations' = invocations
    BY <1>4 DEF Begin
  <2> HIDE DEF i, t
  <2> QED
    BY <1>0, <2>1, <2>2, <2>3, AppliedPublishes
<1>5. ASSUME NEW p \in Starters, Finish(p)
      PROVE  Moves
  <2> DEFINE i == start[p].id
             t == FinishTransition(start[p])
             result == TransitionResult(i.tenant, i, start[p].active.revision, "Running", t)
  <2>1. i \in Identities /\ start[p].pc = "finish"
    BY <1>5 DEF Finish, IndInv, TypeOK, OneExecutor, ExecutingPc
  <2>2. t \in Transition /\ (t.status = "Succeeded" => invocations[i] = 1)
    BY <2>1, FinishType, SuccessWasInvoked DEF IndInv
  <2>3. Apply(i, result, t) /\ invocations' = invocations
    BY <1>5 DEF Finish
  <2> HIDE DEF i, t
  <2> QED
    BY <1>0, <2>1, <2>2, <2>3, AppliedPublishes
<1>6. ASSUME NEW c \in Cancellers, CancelPublish(c)
      PROVE  Moves
  <2> DEFINE i == cancel[c].id
             t == Cancelling(cancel[c].run)
             result == TransitionResult(cancel[c].tenant, i, cancel[c].run.revision,
                                        "Running", t)
  <2>1. i \in Identities /\ cancel[c].run \in Run
    BY <1>6 DEF CancelPublish, IndInv, TypeOK, CancelLocals
  <2>2. t \in Transition /\ t.status # "Succeeded"
    BY <2>1, CancellingType DEF Cancelling
  <2>3. Apply(i, result, t) /\ invocations' = invocations
    BY <1>6 DEF CancelPublish
  <2> HIDE DEF i, t
  <2> QED
    BY <1>0, <2>1, <2>2, <2>3, AppliedPublishes
<1>7. ASSUME NEW p \in Starters, Invoke(p)
      PROVE  Moves
  <2>1. /\ start[p].id \in Identities /\ invocations[start[p].id] = 0
        /\ runs[start[p].id].status \in {"Running", "Cancelled"}
    BY <1>7 DEF Invoke, IndInv, TypeOK, OneExecutor, InvocationsTracked, ExecutingPc
  <2>2. invocations' = [invocations EXCEPT ![start[p].id] = 1] /\ runs' = runs
    BY <1>7, <2>1 DEF Invoke, IndInv, TypeOK
  <2>3. Invokes(start[p].id)
    BY <2>1, <2>2 DEF Invokes
  <2> QED
    BY <2>1, <2>3 DEF Moves
<1>8. ASSUME NEW p \in Starters,
             \/ Register(p) \/ Unregister(p) \/ StartReread(p) \/ ControlFails(p) \/ DropStart(p)
             \/ \E item \in EvidenceItems : Emit(p, item)
             \/ \E outcome \in Outcomes : InvokerReturns(p, outcome)
      PROVE  Moves
  BY <1>8 DEF Register, Unregister, StartReread, ControlFails, DropStart, Emit,
              InvokerReturns, Moves
<1>9. ASSUME NEW c \in Cancellers,
             \/ CancelLookup(c) \/ CancelSignal(c) \/ CancelReread(c)
             \/ \E tenant \in Tenants, i \in Identities : CancelGet(c, tenant, i)
      PROVE  Moves
  <2>1. ASSUME NEW tenant \in Tenants, NEW i \in Identities, CancelGet(c, tenant, i)
        PROVE  UNCHANGED <<runs, invocations>>
    BY <2>1 DEF CancelGet
  <2>2. CASE CancelLookup(c) \/ CancelSignal(c) \/ CancelReread(c)
    BY <2>2 DEF CancelLookup, CancelSignal, CancelReread, Moves
  <2> QED
    BY <1>9, <2>1, <2>2 DEF Moves
<1>10. ASSUME NEW p \in Starters,
              StartStep(p) \/ ControlFails(p) \/ Invoke(p) \/ DropStart(p)
       PROVE  Moves
  BY <1>4, <1>5, <1>7, <1>8, <1>10 DEF StartStep
<1>11. ASSUME NEW c \in Cancellers, CancelStep(c)
       PROVE  Moves
  BY <1>6, <1>9, <1>11 DEF CancelStep
<1>12. CASE AllReturned
  BY <1>1, <1>12 DEF AllReturned
<1> QED
  BY <1>1, <1>2, <1>3, <1>8, <1>9, <1>10, <1>11, <1>12 DEF Next

(* A terminal run is never touched again. *)
THEOREM TerminalStaysTerminal == Spec => TerminalIsFinal
<1>1. ASSUME IndInv, [Next]_vars, NEW i \in Identities, runs[i].status \in Terminal
      PROVE  runs'[i] = runs[i]
  <2>1. Moves
    BY <1>1, StepMoves
  <2>2. runs \in [Identities -> Run \cup {NoRun}]
    BY <1>1 DEF IndInv, TypeOK
  <2>3. runs[i] # NoRun
    BY <1>1 DEF NoRun, Terminal, None
  <2>4. ASSUME NEW j \in Identities, Creates(j)
        PROVE  runs'[i] = runs[i]
    BY <2>2, <2>3, <2>4 DEF Creates
  <2>5. ASSUME NEW j \in Identities, NEW t \in Transition, Publishes(j, t)
        PROVE  runs'[i] = runs[i]
    <3>1. runs[j].status \notin Terminal
      BY <2>5 DEF Publishes, LegalMove, Terminal
    <3> QED
      BY <1>1, <2>2, <2>5, <3>1 DEF Publishes
  <2> QED
    BY <2>1, <2>4, <2>5 DEF Moves, Invokes
<1>2. IndInv /\ [Next]_vars =>
        [\A i \in Identities : runs[i].status \in Terminal => runs'[i] = runs[i]]_vars
  BY <1>1
<1> QED
  BY <1>2, Invariance, PTL DEF Spec, TerminalIsFinal

(* A step of the runner is a step of the lifecycle, or changes neither the *)
(* phase of a run nor its count of invocations.                            *)
LEMMA MoveIsLifecycleStep ==
    ASSUME IndInv, Moves
    PROVE  \/ Lifecycle!Next
           \/ UNCHANGED <<[i \in Identities |-> runs[i].status], invocations>>
<1> DEFINE phase == [i \in Identities |-> runs[i].status]
           key == [i \in Identities |-> StartKeyOf(i)]
<1>1. runs \in [Identities -> Run \cup {NoRun}]
  BY DEF IndInv, TypeOK
<1>2. ASSUME NEW i \in Identities, Creates(i)
      PROVE  Lifecycle!Next
  <2>1. PICK r \in Run : r.status = "Pending" /\ runs' = [runs EXCEPT ![i] = r]
    BY <1>2, ZenonT(30) DEF Creates
  <2>2. phase' = [phase EXCEPT ![i] = "Pending"]
    BY <1>1, <2>1, ZenonT(30)
  <2>3. \A j \in Identities : key[j] = key[i] => phase[j] = None
    BY <1>2 DEF Creates, NoRun
  <2>4. Lifecycle!Create(i)
    BY <1>2, <2>2, <2>3 DEF Creates, Lifecycle!Create, Lifecycle!Absent, None
  <2> QED
    BY <2>4 DEF Lifecycle!Next
<1>3. ASSUME NEW i \in Identities, Invokes(i)
      PROVE  Lifecycle!Next
  <2>1. phase' = phase /\ phase[i] \in {"Running", "Cancelled"}
    BY <1>3 DEF Invokes
  <2>2. Lifecycle!Invoke(i)
    BY <1>3, <2>1 DEF Invokes, Lifecycle!Invoke
  <2> QED
    BY <2>2 DEF Lifecycle!Next
<1>4. ASSUME NEW i \in Identities, NEW t \in Transition, Publishes(i, t)
      PROVE  Lifecycle!Next
  <2>1. Published(runs[i], t).status = t.status
    BY <1>4, PublishedType DEF Publishes
  <2>2. phase' = [phase EXCEPT ![i] = t.status]
    BY <1>1, <1>4, <2>1, ZenonT(30) DEF Publishes
  <2>3. \/ phase[i] = "Pending" /\ t.status = "Running"
        \/ phase[i] = "Running" /\ t.status \in {"Succeeded", "Failed", "Cancelled"}
    BY <1>4, ZenonT(30) DEF Publishes, LegalMove
  <2>4. CASE phase[i] = "Pending" /\ t.status = "Running"
    <3>1. Lifecycle!Begin(i)
      BY <1>4, <2>2, <2>4, ZenonT(30) DEF Publishes, Lifecycle!Begin
    <3> QED
      BY <3>1 DEF Lifecycle!Next
  <2>5. CASE phase[i] = "Running" /\ t.status \in {"Succeeded", "Failed", "Cancelled"}
    <3>1. Lifecycle!End(i, t.status)
      BY <1>4, <2>2, <2>5 DEF Publishes, Lifecycle!End
    <3> QED
      BY <2>5, <3>1, ZenonT(30) DEF Lifecycle!Next
  <2> QED
    BY <2>3, <2>4, <2>5
<1>5. CASE UNCHANGED <<runs, invocations>>
  BY <1>5
<1> QED
  BY <1>2, <1>3, <1>4, <1>5 DEF Moves

(* The runner, its registry and its store implement the run lifecycle. *)
THEOREM ImplementsLifecycle == Spec => LifecycleSpec
<1>1. Init => Lifecycle!Init
  BY DEF Init, Lifecycle!Init, Lifecycle!Absent, NoRun, None
<1>2. IndInv /\ [Next]_vars =>
        [Lifecycle!Next]_<<[i \in Identities |-> runs[i].status], invocations>>
  BY StepMoves, MoveIsLifecycleStep
<1> QED
  BY <1>1, <1>2, Invariance, PTL DEF Spec, LifecycleSpec, Lifecycle!Spec

=============================================================================
