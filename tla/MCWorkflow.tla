----------------------------- MODULE MCWorkflow -----------------------------
(* Small instances of Workflow for TLC. *)
EXTENDS Workflow, TLC

CONSTANTS p1, p2, c1, c2

StartSymmetry == Permutations({p1, p2})

(* `roomy` has the smallest evidence budget in which every failure the     *)
(* runner records fits, `minimal` the smallest that validate_definition    *)
(* accepts and `unusable` one byte less; `orphan` names an unknown agent.  *)
SampleDefinition(budget, agent) ==
    [max_attempts |-> 1, max_input_bytes |-> 2,
     max_evidence_bytes |-> budget, agent |-> agent]

SampleCatalog == [w \in Workflows \ {"absent"} |->
    CASE w = "roomy"    -> SampleDefinition(56, "agent")
      [] w = "minimal"  -> SampleDefinition(47, "agent")
      [] w = "unusable" -> SampleDefinition(46, "agent")
      [] w = "orphan"   -> SampleDefinition(56, "ghost")]

Input(bytes, digest) == [bytes |-> bytes, digest |-> digest]

Request(tenant, workflow, run_key, input, policy) ==
    [tenant |-> tenant, workflow |-> workflow, run_key |-> run_key,
     input |-> input, policy |-> policy]

(* One key with two inputs, another tenant that uses the same key, and two *)
(* requests that are refused before the store is asked.                    *)
SampleRequests == {
    Request("t", "roomy", "k", Input(1, "d"), "allow"),
    Request("t", "roomy", "k", Input(2, "e"), "allow"),
    Request("u", "roomy", "k", Input(1, "d"), "narrow"),
    Request("t", "roomy", "k", Input(1, "d"), "forged"),
    Request("t", "roomy", "k", Input(3, "d"), "allow") }

BudgetRequests ==
    { Request("t", workflow, "k", Input(1, "d"), "allow") : workflow \in {"roomy", "minimal"} }

SampleKeyBytes == [k \in RunKeys |-> IF k = "empty" THEN 0 ELSE 1]

OneItem == { [kind |-> "result", bytes |-> 20] }

(* An item that fits with the others, one that leaves no room for a second *)
(* of its kind, and one above the chunk limit.                             *)
SampleItems == {
    [kind |-> "result", bytes |-> 20],
    [kind |-> "llm_generation", bytes |-> 25],
    [kind |-> "event", bytes |-> 31] }

=============================================================================
