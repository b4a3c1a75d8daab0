------------------------------- MODULE Policy -------------------------------
(***************************************************************************)
(* Grants, decisions and the static resolver of the policy brick.  A tool  *)
(* id is a number, ordered as its bytes are; the other texts are opaque.   *)
(***************************************************************************)
EXTENDS Integers, FiniteSets, Sequences, SequencesExt, Results

CONSTANTS
    ToolIds,                \* what is_tool_id accepts
    MaxToolIds,             \* MAX_TOOL_IDS
    MaxGrantRecords         \* MAX_STATIC_GRANT_RECORDS

ASSUME PolicyAssumption == ToolIds \subseteq Nat /\ {MaxToolIds, MaxGrantRecords} \subseteq Nat

is_tool_id(id) == id \in ToolIds

(* A BTreeSet of tool ids, listed in order. *)
canonical_tools(tools) ==
    LET set == ToSet(tools)
    IN  IF Cardinality(set) > MaxToolIds THEN Err("LimitExceeded")
        ELSE IF \E id \in set : ~is_tool_id(id) THEN Err("InvalidGrant")
        ELSE Ok(SetToSortSeq(set, <))

validate_grant(grant) ==
    IF Len(grant.tools) > MaxToolIds THEN Err("LimitExceeded")
    ELSE IF \E id \in ToSet(grant.tools) : ~is_tool_id(id) THEN Err("InvalidGrant")
    ELSE Ok(grant)

(* GrantV1::new *)
NewGrant(tools, memory, knowledge, sandbox, communication) ==
    LET canonical == canonical_tools(tools)
    IN  IF ~canonical.ok THEN canonical
        ELSE validate_grant([tools |-> canonical.value, memory |-> memory,
                             knowledge |-> knowledge, sandbox |-> sandbox,
                             communication |-> communication])

canonical_grant(grant) ==
    NewGrant(grant.tools, grant.memory, grant.knowledge, grant.sandbox, grant.communication)

(* Every value is written behind its length, so that the bytes determine    *)
(* the sequence of values; that sequence stands for them.                  *)
fields(bytes, values) == bytes \o values

boolean(b) == IF b THEN "true" ELSE "false"

(* The fields of a canonical grant. *)
GrantFields(grant) ==
    <<Len(grant.tools)>> \o grant.tools
      \o <<boolean(grant.memory), boolean(grant.knowledge),
           boolean(grant.sandbox), boolean(grant.communication)>>

(* A digest without the capability that was asked for. *)
decision_canonical_bytes_AnyCapability(request, decision) ==
    LET c == request.context
        canonical == canonical_grant(decision.grant)
        head == <<"policy-decision-v1", c.tenant, c.principal, c.request, c.correlation>>
    IN  IF decision.kind = "deny" THEN Ok(fields(head, <<"deny", "denied", "grant-absent">>))
        ELSE IF ~canonical.ok THEN canonical
        ELSE Ok(fields(head, <<"allow", "grant-present">> \o GrantFields(canonical.value)))

decision_canonical_bytes(request, decision) ==
    LET c == request.context
        canonical == canonical_grant(decision.grant)
        head == <<"policy-decision-v1", c.tenant, c.principal, c.request, c.correlation,
                  request.capability>>
    IN  IF decision.kind = "deny" THEN Ok(fields(head, <<"deny", "denied", "grant-absent">>))
        ELSE IF ~canonical.ok THEN canonical
        ELSE Ok(fields(head, <<"allow", "grant-present">> \o GrantFields(canonical.value)))

(* SHA-256 in hexadecimal, taken to be injective. *)
digest(bytes) == [sha256 |-> bytes]

decision_digest(request, decision) ==
    LET bytes == decision_canonical_bytes(request, decision)
    IN  IF bytes.ok THEN Ok(digest(bytes.value)) ELSE bytes

Allow(grant, supplied) == [kind |-> "allow", grant |-> grant, digest |-> supplied]
deny_decision == [kind |-> "deny"]

allow_decision(request, grant) ==
    LET canonical == canonical_grant(grant)
    IN  IF ~canonical.ok THEN canonical
        ELSE Ok(Allow(canonical.value,
                      decision_digest(request, Allow(canonical.value, <<>>)).value))

(* StaticPolicyResolver::new over a sequence of <<key, grant>>: the first   *)
(* entry that is refused refuses them all.                                 *)
NewResolver(entries) ==
    LET Insert(grants, entry) ==
          LET canonical == canonical_grant(entry[2])
          IN  IF ~grants.ok THEN grants
              ELSE IF Cardinality(DOMAIN grants.value) >= MaxGrantRecords
                THEN Err("LimitExceeded")
              ELSE IF ~canonical.ok THEN canonical
              ELSE IF entry[1] \in DOMAIN grants.value THEN Err("DuplicateGrantKey")
              ELSE Ok([k \in DOMAIN grants.value \cup {entry[1]} |->
                         IF k = entry[1] THEN canonical.value ELSE grants.value[k]])
    IN  FoldLeft(Insert, Ok(<<>>), entries)

(* PolicyResolver::authorize of the static resolver. *)
StaticAuthorize(grants, request) ==
    LET key == [tenant |-> request.context.tenant, principal |-> request.context.principal,
                capability |-> request.capability]
        decision == allow_decision(request, grants[key])
    IN  IF key \in DOMAIN grants /\ decision.ok THEN decision.value ELSE deny_decision

=============================================================================
