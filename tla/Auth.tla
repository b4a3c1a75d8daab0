-------------------------------- MODULE Auth --------------------------------
(***************************************************************************)
(* The auth brick: a Biscuit token is minted, attenuated by its holders,   *)
(* and turned into a decision that is bound to one request.                *)
(*                                                                         *)
(* A token is the key that signed it and its blocks; a block has facts,    *)
(* rules, each from one fact to another, and checks of an expiry.  Tool    *)
(* ids are numbers, ordered as their bytes are.                            *)
(***************************************************************************)
EXTENDS Integers, FiniteSets, Sequences, SequencesExt, Results

CONSTANTS
    LogicalIds,             \* what is_logical_id accepts
    AuthToolIds,            \* what is_tool_id accepts
    MAX_TOOL_IDS,
    MAX_TOKEN_PRESENTATION_BYTES,
    MAX_TOKEN_BYTES,
    MAX_BLOCKS,
    MAX_DATALOG_FACTS,
    MAX_DATALOG_RULES,
    MAX_DATALOG_CHECKS,
    RootKey,                \* the key whose public half the resolver holds
    Mints,                  \* arguments of mint
    Authorities,            \* authority blocks of an issuer that does not use mint
    HolderBlocks,           \* blocks that holders append
    AuthRequests,
    Clock,                  \* the times that are told apart
    MaxTokenBlocks          \* bound: blocks a token may grow to

VARIABLES
    token,                  \* what the bearer holds
    time,                   \* the host's clock
    decided                 \* history: the authorization of the last step

auth == <<token, time, decided>>

-----------------------------------------------------------------------------
(* Grants and decisions. *)

Flags == {"memory", "knowledge", "sandbox", "communication"}

canonical_tools(tools) ==
    LET set == ToSet(tools)
    IN  IF Cardinality(set) > MAX_TOOL_IDS THEN Err("LimitExceeded")
        ELSE IF ~(set \subseteq AuthToolIds) THEN Err("InvalidGrant")
        ELSE Ok(SetToSortSeq(set, <))

validate_grant(grant) == Len(grant.tools) <= MAX_TOOL_IDS /\ ToSet(grant.tools) \subseteq AuthToolIds

(* GrantV1::new; flags are the names of the enabled capabilities. *)
NewGrant(tools, flags) ==
    LET canonical == canonical_tools(tools)
        grant == [tools |-> canonical.value, flags |-> flags]
    IN  IF ~canonical.ok THEN canonical
        ELSE IF validate_grant(grant) THEN Ok(grant) ELSE Err("InvalidGrant")

canonical_grant(grant) == NewGrant(grant.tools, grant.flags)

validate_request_scope(request, context) ==
    context.request_id = request.request_id /\ context.correlation_id = request.correlation_id

Allow(context, grant, supplied) ==
    [kind |-> "allow", context |-> context, grant |-> grant, digest |-> supplied]
deny_decision == [kind |-> "deny"]

(* The bytes without the capability that was asked for. *)
decision_canonical_bytes_AnyCapability(request, decision) ==
    LET context == decision.context
        canonical == canonical_grant(decision.grant)
    IN  IF ~validate_request_scope(request, context) THEN Err("InvalidId")
        ELSE IF ~canonical.ok THEN canonical
        ELSE Ok(<<"auth-decision-v1", context.tenant, context.principal, request.request_id,
                  request.correlation_id, "allow", canonical.value>>)

(* Every field is written behind its length, so that the bytes of an allow  *)
(* determine its fields, which stand for them.                             *)
decision_canonical_bytes(request, decision) ==
    LET context == decision.context
        canonical == canonical_grant(decision.grant)
    IN  IF ~validate_request_scope(request, context) THEN Err("InvalidId")
        ELSE IF ~canonical.ok THEN canonical
        ELSE Ok(<<"auth-decision-v1", context.tenant, context.principal, request.request_id,
                  request.correlation_id, request.capability, "allow", canonical.value>>)

(* SHA-256, taken to be injective. *)
decision_digest(request, decision) ==
    LET bytes == decision_canonical_bytes(request, decision)
    IN  IF bytes.ok THEN Ok([sha256 |-> bytes.value]) ELSE bytes

verify_decision(request, decision) ==
    IF decision.kind = "deny" THEN TRUE
    ELSE LET canonical == canonical_grant(decision.grant)
             expected == decision_digest(request, Allow(decision.context, canonical.value, <<>>))
         IN  /\ validate_request_scope(request, decision.context)
             /\ canonical = Ok(decision.grant)
             /\ expected = Ok(decision.digest)

allow_decision(request, context, grant) ==
    LET canonical == canonical_grant(grant)
        expected == decision_digest(request, Allow(context, canonical.value, <<>>))
    IN  IF ~validate_request_scope(request, context) THEN Err("InvalidId")
        ELSE IF ~canonical.ok THEN canonical
        ELSE IF ~expected.ok THEN expected
        ELSE Ok(Allow(context, canonical.value, expected.value))

-----------------------------------------------------------------------------
(* The Biscuit library. *)

Fact(name, value) == [name |-> name, string |-> TRUE, value |-> value]
Block(facts, rules, checks) == [facts |-> facts, rules |-> rules, checks |-> checks]
Token(key, blocks) == [key |-> key, blocks |-> blocks]

Sum(blocks, F(_)) == FoldLeft(LAMBDA total, b : total + F(b), 0, blocks)
(* The facts that are loaded: a block says a fact once. *)
Facts(blocks) == Sum(blocks, LAMBDA b : Cardinality(ToSet(b.facts)))
Rules(blocks) == Sum(blocks, LAMBDA b : Len(b.rules))
Checks(blocks) == Sum(blocks, LAMBDA b : Len(b.checks))
EncodedBytes(t) ==
    Sum(t.blocks, LAMBDA b : 1 + Len(b.facts) + Len(b.rules) + Len(b.checks))

(* What the rules derive from the facts: one round for each rule. *)
Fixpoint(facts, rules) ==
    FoldLeft(LAMBDA world, round : world \cup {r.head : r \in {q \in ToSet(rules) : q.body \in world}},
             facts, rules)

(* Facts of every block, as if no query named its origin. *)
Trusted_AnyBlock(t) ==
    Fixpoint(UNION {ToSet(t.blocks[i].facts) : i \in DOMAIN t.blocks},
             FoldLeft(LAMBDA rules, b : rules \o b.rules, <<>>, t.blocks))

(* "trusting authority": what the authority block says and derives. *)
Trusted(t) == Fixpoint(ToSet(Head(t.blocks).facts), Head(t.blocks).rules)

(* Rows of a query for one term; a term that is no string is an error. *)
Column(t, name) ==
    LET rows == {f \in Trusted(t) : f.name = name}
    IN  IF \A f \in rows : f.string THEN Ok({f.value : f \in rows}) ELSE Err("Type")

-----------------------------------------------------------------------------
(* BiscuitAuthorizationResolver *)

exact_direct_string_fact(facts, name) ==
    LET values == SelectSeq(facts, LAMBDA f : f.name = name)
    IN  IF Len(values) = 1 /\ values[1].string THEN <<values[1].value>> ELSE <<>>

direct_authority_identity(t) ==
    LET tenant == exact_direct_string_fact(Head(t.blocks).facts, "tenant")
        principal == exact_direct_string_fact(Head(t.blocks).facts, "principal")
    IN  IF tenant # <<>> /\ principal # <<>> /\ {Head(tenant), Head(principal)} \subseteq LogicalIds
          THEN <<[tenant |-> Head(tenant), principal |-> Head(principal)]>> ELSE <<>>

(* The fact of the time is one of the facts. *)
WithinCeilings(t) ==
    /\ EncodedBytes(t) <= MAX_TOKEN_BYTES
    /\ t.key = RootKey
    /\ Len(t.blocks) <= MAX_BLOCKS
    /\ Facts(t.blocks) + 1 <= MAX_DATALOG_FACTS
    /\ Rules(t.blocks) <= MAX_DATALOG_RULES
    /\ Checks(t.blocks) <= MAX_DATALOG_CHECKS

(* The capability gate, and the checks of every block. *)
GatePasses(request, t, now) ==
    /\ Fact("capability", request.capability) \in Trusted(t)
    /\ \A i \in DOMAIN t.blocks : \A expiry \in ToSet(t.blocks[i].checks) : now <= expiry

authorize_inner(request, t, now) ==
    LET identity == direct_authority_identity(t)
        tools == Column(t, "allowed_tool")
        grants == Column(t, "grant")
        grant == NewGrant(SetToSeq(tools.value), grants.value \cap Flags)
        context == [request_id |-> request.request_id, correlation_id |-> request.correlation_id]
                     @@ Head(identity)
        decision == allow_decision(request, context, grant.value)
    IN  IF ~WithinCeilings(t) \/ identity = <<>> THEN deny_decision
        ELSE IF ~GatePasses(request, t, now) THEN deny_decision
        ELSE IF ~tools.ok \/ ~grants.ok THEN deny_decision
        ELSE IF ~grant.ok \/ ~decision.ok THEN deny_decision
        ELSE IF verify_decision(request, decision.value) THEN decision.value ELSE deny_decision

-----------------------------------------------------------------------------

(* mint: one fact for each part of the identity, capability, tool and flag. *)
Minted(m) ==
    Token(RootKey,
      <<Block(<<Fact("tenant", m.tenant), Fact("principal", m.principal)>>
                \o [i \in DOMAIN m.capabilities |-> Fact("capability", m.capabilities[i])]
                \o [i \in DOMAIN m.tools |-> Fact("allowed_tool", m.tools[i])]
                \o [i \in DOMAIN m.flags |-> Fact("grant", m.flags[i])], <<>>, <<>>)>>)

Nothing == Token("none", <<>>)

AuthInit ==
    /\ token = Nothing /\ time = 1
    /\ decided = <<>>

mint ==
    /\ token = Nothing
    /\ \E m \in Mints : token' = Minted(m)
    /\ decided' = <<>> /\ UNCHANGED time

(* Another issuer, with the root key or with one of its own. *)
Issue ==
    /\ token = Nothing
    /\ \E block \in Authorities, key \in {RootKey, "other"} : token' = Token(key, <<block>>)
    /\ decided' = <<>> /\ UNCHANGED time

attenuate_expiration(expiry) ==
    /\ token.key = RootKey /\ Len(token.blocks) < MaxTokenBlocks
    /\ token' = [token EXCEPT !.blocks = Append(@, Block(<<>>, <<>>, <<expiry>>))]
    /\ decided' = <<>> /\ UNCHANGED time

(* A holder appends a block of their own. *)
HolderAppends ==
    /\ token # Nothing /\ Len(token.blocks) < MaxTokenBlocks
    /\ \E block \in HolderBlocks : token' = [token EXCEPT !.blocks = Append(@, block)]
    /\ decided' = <<>> /\ UNCHANGED time

Tick ==
    /\ time + 1 \in Clock
    /\ time' = time + 1
    /\ decided' = <<>> /\ UNCHANGED token

(* TokenPresentation::new, then authorize; the engine's wall-clock limit    *)
(* may deny at any time.                                                    *)
authorize(request) ==
    /\ EncodedBytes(token) \in 1 .. MAX_TOKEN_PRESENTATION_BYTES
    /\ \E decision \in {authorize_inner(request, token, time), deny_decision} :
         decided' = <<[request |-> request, token |-> token, at |-> time, decision |-> decision]>>
    /\ UNCHANGED <<token, time>>

AuthNext ==
    \/ mint \/ Issue \/ HolderAppends \/ Tick
    \/ \E expiry \in Clock : attenuate_expiration(expiry)
    \/ \E request \in AuthRequests : authorize(request)

=============================================================================
