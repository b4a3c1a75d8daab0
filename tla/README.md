# A verification of Rust-Factory in TLA+

This directory holds TLA+ models of Rust-Factory, a Rust workspace of small
*bricks* (one crate per capability, each with a port, adapters and an MCP
surface), the TLC configurations that check them, and TLAPS proofs of the
properties that matter most. Paths such as `crates/workflow/src/lib.rs` are
relative to the repository. `PROJECT.json` lists components, runs, mutants, the
map from definitions to source lines, findings, hazards and theorems.

## 1. Inventory: the parts of the system

| Part | Source | State and concurrency | Modules |
|---|---|---|---|
| Workflow runner, in-memory store | `crates/workflow` | async start calls, sync cancel calls, CAS store, registry of cancellation signals | `WorkflowRun`, `Workflow`, `RunLifecycle` |
| Object storage | `crates/storage` | a mutex (Local) or transactions on a file (Redb); quotas, revisions, reopen | `StorageState`, `LocalStore`, `RedbStore`, `RedbRows`, `ObjectStore` |
| Sandbox, Docker adapter | `crates/sandbox` | a Docker CLI driven without a lock, CLI timeouts | `DockerSandbox` |
| Sandbox service and tools | `crates/sandbox` | an effect, then an event, then a projected response | `SandboxService` |
| Agent runtime and registry | `crates/agent` | capability narrowing, effects in several steps | `AgentDefinition`, `AgentRuntime` |
| LLM gateway | `crates/llm-gateway` | a provider call racing a deadline and a signal | `LlmGateway`, `AgentRuntime` |
| Knowledge | `crates/knowledge` | an immutable index, and a check of what any index returns | `Knowledge`, `AgentRuntime` |
| Memory | `crates/memory` | two stores under a lock, one over an external graph | `MemoryModel`, `InProcessStore`, `AgenticStore`, `MemoryMcp` |
| Policy | `crates/policy` | decisions bound to a request by a digest | `Policy`, `PolicyGate` |
| Evaluation | `crates/evaluation` | evidence read before an await, stored after it; quotas | `Evaluation`, `EvaluationService` |
| Observability | `crates/observability` | a bounded ring, an instrument cache, trace headers | `Telemetry`, `TelemetryService` |
| Auth | `crates/auth` | tokens that holders attenuate, decisions with an expiry | `Auth` |
| Project | `crates/project` | a scaffold written to disk by several calls, with clean-up | `ProjectScaffold` |
| MCP contract, transport, aggregate | `crates/mcp-contract`, `crates/mcp-transport` | framing of a byte stream, a shared writer, routing of tools | `McpContract`, `StdioTransport`, `AggregateRouter` |
| MCP surfaces of agent and workflow | `mcp.rs` of both | a grant resolved at a start and used by the run | `AgentMcp`, `WorkflowMcp`, `CanonicalJson` |
| Demo composition | `experiments/workflow-evaluation-demo` | workflow, evaluation and telemetry in one process, a deadline thread | `WorkflowEvaluationDemo` |
| Maintenance scripts | `scripts` | batch validators | not modelled |

`Results` has `Ok` and `Err`. The `MC*` modules are the instances for TLC, the
`*Proofs` modules the proofs.

## 2. How the parts are composed

The bricks meet at ports, and the models meet at the same places.

* `PolicyGate` (trusted context, resolver, digest check) is extended by every MCP
  surface: `MemoryMcp` has its own copy of the steps, because its errors and
  their order differ.
* `WorkflowMcp` is composed with `AgentMcp`; the runner behind it is
  `RunLifecycle`, which section 3 shows the runner to implement. The definitions
  and ceilings are those of `AgentDefinition`, which `AgentRuntime` uses too.
* `SandboxService` emits into the ring of `TelemetryService`; its adapter is the
  port that `DockerSandbox` implements.
* `AgentRuntime` is composed with the gateway and with the knowledge brick, over
  either adapter of each.
* `WorkflowEvaluationDemo` drives the evaluation service with runs that end as
  `Workflow` ends them.
* `AggregateRouter` dispatches to the project contribution.

Parts that share no state and do not interact are put in one run, each moving
while the others rest (`MCServer`, `MCRedbStore`, `MCEvaluation`, `MCTelemetry`):
the states of such a run are the sum of the parts, not the product.

Where a run stops exploring, it is because calls are finite in number; those
configurations say `CHECK_DEADLOCK FALSE` (memory, telemetry, evaluation, server,
surfaces). The others have an action that stays enabled. `VIEW` hides the last
answer of a call where no action reads it and every property of it is about a
step (memory, telemetry, surfaces).

## 3. The workflow

`WorkflowRun` holds the data and the pure functions of
`crates/workflow/src/lib.rs`: runs, attempts, events, the transitions the runner
builds and `transition_is_valid`. Texts are their sizes in bytes; the sizes of
the texts the runner writes itself are the real ones, because the evidence
budget is checked against them.

`Workflow` is the runner over `InMemoryWorkflowStore`. Start calls and cancel
calls are processes with a program counter; each action is one critical section
(a lock of the store, a lock of the registry) with the local code around it.
`Begin`, `Register`, `Invoke`, `Unregister`, `Finish` are the sections of
`execute`; `CancelGet`, `CancelLookup`, `CancelSignal`, `CancelPublish` those of
`cancel`; the rereads are the calls of `get` after a conflict. `DropStart` drops
the future at its only await. The invoker is the environment: it emits evidence
and returns. A run is named by its identity (tenant, workflow, run key, input
digest); the code's run id is a hash of it, taken to be injective.

`RunLifecycle` is the abstract specification: a start key names at most one run,
a run goes pending, running, terminal and stays there, the agent is invoked at
most once and a run succeeds only if it was.

### Runs

* `workflow_calls`: two starts and a cancel of two tenants, one run key, two
  inputs, refusals and dropped futures. One invocation per key; the registry
  holds exactly the executing calls; the lifecycle is implemented, in which a
  terminal run is final.
* `workflow_progress`: one execution that emits every kind of evidence, with the
  smallest accepted evidence budget or one in which every failure fits, and two
  cancels. The evidence of a terminal run matches its status; a reported terminal
  status is never replaced. Liveness under `Fairness`: a future that can be
  polled is polled, `cancel` is synchronous, and an invocation returns at the
  latest when its 30 second deadline elapses. Runs settle unless their future is
  dropped or a failure does not fit their budget (section 12).

Two start calls suffice for every race on a key because the store serialises
creation and only the creator executes; two cancel calls suffice for a cancel
that loses to another. Sizes are chosen around the 47-byte minimal budget.

### Proofs (`WorkflowProofs`)

For any number of calls, any catalog and any requests: `TypeCorrect`,
`AgentInvokedOncePerKey`, `TerminalStaysTerminal`, `ImplementsLifecycle`. The
inductive invariant `IndInv` adds to the type invariant that the store's three
maps agree, that a run has at most one executor, what each stage of the executor
says about the run and about the number of invocations. Without "one executor"
the count of invocations is not inductive; without the agreement of the maps
"one run per key" is not. `StepMoves` then reduces every step to one of: nothing,
creation, a legal transition, a first invocation; the last two theorems follow.
Assumptions: `LimitsAssumption`, `WorkflowAssumption`. Liveness and the other
invariants are model-checked only.

## 4. Storage

`StorageState` holds what both adapters share: the objects, the store-wide
revision, the counters of each tenant and the global ones, and what `put`,
`delete` and `list` compute from them. The order of the checks is the code's:
condition, then revision, then counters and limits. A value is its length, an
object key a natural number.

`LocalStore` is `LocalObjectStore`: every operation holds the one mutex, so each
is one action. Callers remember the version they saw, and listers the cursor of
an unfinished listing; both are stale when used, and the properties are about
that. `ObjectStore` is the promise to callers: versions are issued once, in
order, and objects change only by a write or a removal.

`RedbStore` is `RedbObjectStore`: `open` in three steps (`Reserve` with
create_new, `OpenDatabase`, `CheckSchema`), the operations as transactions, and
`Stop` at any point. `PutFails` and `DeleteFails` are a commit that reports an
error or that its process does not survive: all of it is durable or none. What
is assumed of redb: an exclusive lock per database, atomic transactions,
durability at commit under `Durability::Immediate`, `Database::open` refusing an
empty file, and no further service from a database whose commit failed.

`RedbRows` is the objects table as bytes: the length-prefixed keys, their
decoding, `prefix_successor` and the range that `list` reads. The byte base is
4, so carries and highest bytes happen with short keys.

### Runs

* `local_store`: two tenants, two keys, values of 0 to 2 bytes, three writes,
  two callers and a listing in pages of one key. Counters equal what the objects
  add up to; a listing misses no key that stays; the abstract store is
  implemented, whose versions never recur. Limits of 2 objects and of 2 and 3
  bytes let every quota bind.
* `redb_restart`: two processes, two limit sets, crashes everywhere: answered
  writes survive, the store's own files validate, the abstract store is
  implemented across restarts. Beside it the rows: a range is exactly one scope,
  with identifiers that are prefixes of each other.

### Proofs (`LocalStoreProofs`)

For any tenants, namespaces, keys, value lengths, limits and callers:
`TypeCorrect`, `VersionsNeverRecur`, `ImplementsObjectStore`, `QuotaIsKept`. The
version argument needs that every version on an object or in a caller's memory
was issued (`VersionsIssued`): a write then takes a version nobody holds. The
quota argument needs that the counters count the objects (`ObjectCounts`) and
fit the limits (`CountersFit`), with the cardinality of the present objects
changed by one at a time. Assumptions: `StorageAssumption`, `LocalAssumption`.
That the byte counters are exact is model-checked only; the bytes held are the
cardinality of a set (`StoredBytes`), so that the same argument can be made.

## 5. Sandbox

`DockerSandbox` is the Docker adapter. Every docker command is one action, and
between two commands of a call anything may happen: other calls, somebody else
using the name, a container's end, a `docker run` whose client was killed taking
effect later. A command that reports failure may have had its effect. A
container name stands for the hash of owner, tenant and request, taken to be
injective.

* `docker_calls`: two calls at a time (slots are reused), two tenants, at most
  two containers and one late run. A call removes only containers of its tenant
  and of this adapter; after an answered timeout the container that ran the
  command is gone.
* `docker_start_keeps_others_container` (violation): a start that compensates
  can remove the container of a concurrent identical start, which the comment at
  `docker.rs:278` excludes.

### Proofs (`DockerProofs`)

For any number of calls, tenants, names and containers: `TypeCorrect`,
`TimeoutKillsCommand`, `RemovalIsOwned`. A call remembers the id of a container
while the daemon changes; what makes that safe is that ids are issued once
(`IdsIssued`), so the container with the id is the one the call inspected, or
there is none. `Sound` says, for each stage, what the remembered ids still mean:
before `docker rm` whatever has the id is owned by the tenant, and in the clean-up
of a timed-out command it is the container that ran it. `Inv` joins both with the
type invariant and with "a late `docker run` belongs to a call that has not
returned", without which a late container could take an id under an answered
timeout. Assumption: `DockerAssumption`.

### The service (`SandboxService`)

A tool call is two steps, the effect in the adapter and then the event and the
projected response; other calls and emitters come in between. It is checked with
the telemetry it emits (section 8).

## 6. Agent, LLM gateway, knowledge

`LlmGateway` holds the functions of the gateway: the limits of a prompt, a
request, a fixture and a response, `preflight`, the biased race of cancellation,
deadline and provider, and the normalisation of responses, token usage and
errors. `Knowledge` holds the static index (what its construction refuses, what
its search returns) and `KnowledgeService::search`, which checks what any index
returns. `AgentDefinition` holds the validation of definitions, the registry's
built-ins, how a ceiling narrows a definition to a capability scope, and the
digest of a scope: the sequence of its fields, for each is hashed behind the
lengths of its name and value, and SHA-256 is taken to be injective.

`AgentRuntime` is `LocalAgentRuntime` over them: `Refuse` and `Resolve` are the
code before the model is called, `Generate` and `Poll` the genai adapter,
`GenerateStatic` the static one, `Plan` the check of every call of the response,
`Check` the preflight before an effect, and one action per kind of effect the
effect itself. `Drop` drops the future at its only await. `Register` and `Delete`
change the registry at any moment, `Cancel` and `Elapse` raise the signals of a
running invocation.

The variable `ports` says what the runtime is composed with, and never changes.
External ports (the client behind the genai adapter, tools, sandbox, index)
answer anything of a small set or fail; they are assumed not to answer
`Cancelled` or `DeadlineExceeded` on their own. The local ports are
`StaticProvider` with any fixture that `StaticFixture::new` accepts,
`FixedToolRegistry`, `StaticKnowledgeIndex` over any corpus it accepts, and
`DenySandbox`. The memory is `InMemoryMemoryStore` in both.

* `agent_calls`: two invocations, of any of ten requests in two tenants: one
  under a narrowing ceiling, the others without a ceiling or refused, each for
  another reason. Effects stay within the definition and the ceiling, and equal
  digests in two results mean equal grants and limits; one unacceptable call of a
  response means no effect at all; effects are a prefix of the plan, and all of
  it when the answer is Ok; after a signal only the effect whose preflight had
  passed still happens; recalled values and search results stay in their tenant,
  and from the static index come exactly the first matches by id, which the
  service never refuses as a violation. Two calls per response and an output
  limit of three bytes let the second effect be the one that fails, is stopped or
  overflows; the corpora have more matches than the limit, an order of their own,
  a repeated key, and too much text.

These are model-checked only: the definitions use folds, and what a fold computes
for every input is out of the prover's reach.

## 7. Memory and policy

`Policy` holds grants in canonical form, the bytes of a decision, its digest and
the static resolver. `PolicyGate` is what a surface does before an operation. The
resolver is a port: it may also repeat a decision it made for another request, or
return one whose grant was changed after it was digested, which is what the
digest check is for.

`InProcessStore` is the in-process memory store as a specification: its state
changes by `Put` and `Delete` only. `AgenticStore` is the store over the graph of
the agentic-memory crate, with an index from keys to nodes and the fields an
event cannot hold beside it; the graph may refuse to add or to remove a node.
`MemoryMcp` is the service and its tools.

* `memory_calls`: two tenants, two namespaces of which a tenant may hold one, two
  records in it, contents around every ceiling. Index, sidecars and graph agree
  although superseded nodes stay in the graph; the store implements the
  in-process one, seen through the index (`Stored` is the refinement mapping); a
  search names every match in its records, its deferred or its oversized keys; a
  tool answers only under a decision made for this context and this tool.

## 8. Observability and the sandbox service

`Telemetry` is the model of events, metrics and spans with their validation, and
the headers traceparent, tracestate and baggage, parsed and formatted at every
hop; `TelemetryService` is the ring with its service, its tools and the
OpenTelemetry adapters. A metric takes two steps, because the instrument
leaves the lock of the cache as a handle.

* `telemetry_calls`: two concurrent sandbox calls, other emitters and the query
  tool over a ring in which one tenant can fill the total. The ring holds each
  tenant's newest events; a sandbox event tells of one operation that happened
  for its tenant under a grant; a page is the newest matches of the caller's
  tenant and says truncated exactly when one is missing; the points of a metric
  go through one instrument; a context survives any number of hops. Calls that
  change nothing but the answer are tried only in some of the states in which
  they would be answered alike (`Next` of `MCTelemetry`).

## 9. Evaluation and the demo

`Evaluation` has the validation, canonical encodings and digests, the two
executors and the store; `EvaluationService` reads evidence, awaits the executor
and stores the result, in two steps, and has the three tools.
`WorkflowEvaluationDemo` adds the demo, whose calls all use one run, and the
deadline it hands to an invocation: a future, and the thread that its first poll
spawns.

* `evaluation_demo`: two callers, the demo's run and one of another tenant, room
  for two results. A stored result is what evaluating its run again would give;
  repeated and concurrent evaluations agree, and what is answered can be read
  back; a task that awaits the deadline is woken. Fairness for that last one:
  time passes, a runnable task is polled to the end, and the sleeping thread runs
  on once its instant has passed.

## 10. The MCP server: contract, transport, router, project, auth

`StdioTransport` is the codec that bounds a line while its bytes arrive in
chunks, the receive loop and the sends that share a writer; a receive or a send
may be dropped. `AggregateRouter` goes from the builder to `call_tool`.
`ProjectScaffold` has blueprints, the plan, the tools and the writer, with several
calls for one target, failing file operations and crashes. `Auth` has minting,
attenuation and the resolver; a token is the key that signed it and its blocks,
and Datalog is modelled by facts, rules from one fact to another and checks.

* `server_calls`: every chunking of eight streams, with dropped futures and
  failed writes: the same messages are delivered, and a send that returned Ok is
  in the output whole and once. Every composition of up to three of nine
  contributions: a call that reaches a contribution reaches the only one that
  declared the name. Two concurrent generations: a target reported as written
  holds exactly its plan, and the other directories are accounted for. Tokens
  while time passes: a holder's block only narrows, and a decision verifies for
  its own request only.

## 11. The agent and workflow surfaces

`AgentMcp` and `WorkflowMcp` are the tools with their gates, bounds and public
errors. A start resolves a grant, and the run uses it later as the ceiling of its
agent. `CanonicalJson` is the canonical form of the input document, which the
identity of a run is made of: the parser, the scanner of the code's own that
refuses repeated keys, and the writer; texts are sequences of tokens. It is the
only module with `RECURSIVE` operators.

* `surface_calls`: two principals of a tenant with different grants, another
  tenant, an agent definition that is replaced, documents that mean the same in
  different spellings and others that do not. Every agent runs under the grant of
  the call that created its run, whoever replays the start; starts under a key
  name the same run exactly if their documents mean the same; tools answer, and
  tell of runs, only within the context's grant and tenant.

## 12. Known divergences

One disagreement between code and documentation is a run
(`docker_start_keeps_others_container`). Five more were met while modelling; each
has a definition, and TLC shows it violated when that is put in the place of the
properties of the configuration named here:

| Definition, configuration | The code | The text |
|---|---|---|
| `CancelReportsTerminal`, `WorkflowProgress.cfg` | `cancel` can answer a Running run (`crates/workflow/src/lib.rs:748`) | `.kiro/specs/workflow/design.md:39`: "`workflow_cancel` returns the terminal projection." |
| `ConflictReadsTerminal`, `WorkflowProgress.cfg` | with an evidence budget of 47 or 48 bytes a run can stay Running after the conflict (`lib.rs:675`) | `.kiro/specs/llm-gateway/design.md:367`: "a conflict reads the already-published terminal state." |
| `CancelledInvocationIsNotFailure`, `WorkflowProgress.cfg` | a cancelled run can end Failed (`lib.rs:728`) | `.kiro/specs/workflow/design.md:49`: "Cancellation … transitions an active locally registered run to terminal `cancelled`; late completion cannot publish a competing success/failure transition." |
| `FailureLeavesNoTrace`, `MemoryCalls.cfg` | a put the graph refuses leaves an empty partition, which counts against the namespaces of the tenant (`crates/memory/src/agentic.rs:165`) | `crates/memory/src/port.rs:66`: "Failure leaves no trace" |
| `ListedIsDispatched`, `Server.cfg` | the router splits the name of a call at the first underscore, so that a listed tool of a namespace such as `a_1` is refused: `1_…` cannot be an operation (`crates/mcp-transport/src/aggregate.rs:374`) | `aggregate.rs:12`: "dispatching each call by looking up the contribution that owns the requested tool name" |

Some more behaviours are modelled and contradict nothing the repository says, but
a maintainer may want to know them:

* An operation can take place and its response exceed the ceiling of the surface,
  so that the caller sees `limit_exceeded`: a sandbox command
  (`crates/sandbox/src/mcp.rs:494`), an invocation (`crates/agent/src/mcp.rs:342`),
  an evaluation (`crates/evaluation/src/mcp.rs:198`, where the stored result
  cannot be read through the tool either).
* Runs are never deleted and `workflow_list` has no limit: once the summaries of a
  tenant exceed the ceiling, every list fails (`crates/workflow/src/mcp.rs:402`).
* `docker run` can take effect after its client was killed; only a retry or a stop
  of the same request finds the container (`crates/sandbox/src/docker.rs:267`).
* A definition may name 64 tools and enable memory, knowledge and sandbox, but a
  request declares at most 64 tools with the reserved ones, so that such a
  definition can never be invoked (`crates/agent/src/lib.rs:1266`).

## 13. What is proved and what is only checked

Proved for every value of the constants: the theorems of `WorkflowProofs`
(section 3), `LocalStoreProofs` (section 4) and `DockerProofs` (section 5). Only
model-checked: liveness (`RunSettles`, `DeadlineWakes`), which the prover cannot
do; the modules with folds, recursion or encodings (sections 6 to 11), whose
results for every input would need induction over data; and the durability of
`RedbStore`.

## 14. Not modelled

* The maintenance scripts: batch validators of repository files, outside the
  running system.
* Poisoned locks (a panic while a lock is held), and panics in general.
* SHA-256 and signatures, which are taken to be injective and unforgeable; the
  translation of a request into the chat request of the genai crate; JSON schemas
  and the wording of responses and errors; the text of generated project files.
* The syntax of identifiers, where it only decides whether a text is accepted:
  the sets of accepted texts, or a flag, stand for it.
* Files corrupted from outside (Redb), container options (Docker), exporters
  (OpenTelemetry).
