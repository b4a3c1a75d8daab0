CONSTANTS
  p1 = p1
  p2 = p2
  c1 = c1
  c2 = c2
  MaxEvents = 3
  MaxChunkBytes = 30
  MaxEvidenceBytes = 60
  MaxInputBytes = 3
  ValidPolicies = {"allow", "narrow"}
  Policies = {"allow", "narrow", "forged"}
  ItemKinds = {"llm_generation", "event", "result"}
  Agents = {"agent", "ghost"}
  KnownAgents = {"agent"}
  RunKeyBytes <- SampleKeyBytes
  Catalog <- SampleCatalog
  EvidenceItems <- SampleItems
  Tenants = {"t"}
  Workflows = {"roomy", "minimal"}
  RunKeys = {"k"}
  Digests = {"d"}
  Starters = {p1}
  Cancellers = {c1, c2}
  MaxRegistration = 2
  StartRequests <- BudgetRequests
SPECIFICATION FairSpec
INVARIANTS EvidenceMatchesStatus ReportedTerminalIsFinal
PROPERTIES RunSettles
