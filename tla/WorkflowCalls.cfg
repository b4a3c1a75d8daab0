CONSTANTS
  p1 = p1
  p2 = p2
  c1 = c1
  c2 = c2
  MaxEvents = 3
  MaxChunkBytes = 30
  MaxEvidenceBytes = 60
  MaxInputBytes = 3
  ValidPolicies = {"allow", "narrow"}
  Policies = {"allow", "narrow", "forged"}
  ItemKinds = {"llm_generation", "event", "result"}
  Agents = {"agent", "ghost"}
  KnownAgents = {"agent"}
  RunKeyBytes <- SampleKeyBytes
  Catalog <- SampleCatalog
  EvidenceItems <- OneItem
  Tenants = {"t", "u"}
  Workflows = {"roomy"}
  RunKeys = {"k"}
  Digests = {"d", "e"}
  Starters = {p1, p2}
  Cancellers = {c1}
  MaxRegistration = 3
  StartRequests <- SampleRequests
SPECIFICATION Spec
SYMMETRY StartSymmetry
INVARIANTS InvokedOncePerKey RegistryIsExact
PROPERTIES LifecycleSpec
