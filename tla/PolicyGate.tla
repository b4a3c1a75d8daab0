----------------------------- MODULE PolicyGate -----------------------------
(***************************************************************************)
(* What every MCP surface does before an operation: resolve the trusted    *)
(* context, ask the policy resolver for the capability of the tool, and    *)
(* act on the grant only once the digest binds it to this very request.    *)
(* The surfaces differ in the errors they make of a refusal.               *)
(*                                                                         *)
(* The resolver is a port.  It answers as the static resolver does, or     *)
(* repeats a decision it issued for another request, or returns one whose  *)
(* grant was changed after it was digested.                                *)
(***************************************************************************)
EXTENDS Policy

CONSTANTS
    Contexts,               \* what TrustedContextSource may resolve to
    Grants                  \* entries of the static policy resolver

Context(tenant, principal) ==
    [tenant |-> tenant, principal |-> principal, request |-> "q", correlation |-> "c"]

resolver == NewResolver(Grants)

(* The resolver's own answer to a request. *)
Granted(context, capability) ==
    StaticAuthorize(resolver.value, [context |-> context, capability |-> capability])

(* What the resolver allows: contexts with the capabilities granted to them.*)
Allowed ==
    {<<context, capability>> \in Contexts \X {entry[1].capability : entry \in ToSet(Grants)} :
       Granted(context, capability).kind = "allow"}

(* A gate that believes the grant of the resolver without its digest. *)
verified_Undigested(trusted, capability, decision) ==
    LET canonical == canonical_grant(decision.grant)
    IN  IF trusted = <<>> THEN Err("unresolved")
        ELSE IF decision.kind = "deny" THEN Err("denied")
        ELSE IF ~canonical.ok THEN Err("unverified")
        ELSE Ok([context |-> Head(trusted), grant |-> canonical.value])

(* trusted is the Option of the trusted context source. *)
verified(trusted, capability, decision) ==
    LET canonical == canonical_grant(decision.grant)
        expected == decision_digest([context |-> Head(trusted), capability |-> capability],
                                    Allow(canonical.value, <<>>))
    IN  IF trusted = <<>> THEN Err("unresolved")
        ELSE IF decision.kind = "deny" THEN Err("denied")
        ELSE IF ~canonical.ok THEN Err("unverified")
        ELSE IF ~expected.ok \/ decision.digest # expected.value THEN Err("unverified")
        ELSE Ok([context |-> Head(trusted), grant |-> canonical.value])

(* The decisions the resolver may return for the tools of a surface. *)
Decisions(capabilities) ==
    LET issued == {Granted(context, capability) :
                     context \in Contexts, capability \in capabilities}
        Raised(d) == [d EXCEPT !.grant.memory = TRUE, !.grant.sandbox = TRUE,
                               !.grant.tools = Append(@, Len(@) + 1)]
    IN  issued \cup {deny_decision} \cup {Raised(d) : d \in {e \in issued : e.kind = "allow"}}

(* What the gate may answer for a tool: an error, or a context with its     *)
(* grant.                                                                  *)
GateOutcomes(capabilities) ==
    LET decisions == Decisions(capabilities)
    IN  {[capability |-> capability, result |-> verified(trusted, capability, decision)] :
           capability \in capabilities, trusted \in {<<>>} \cup {<<c>> : c \in Contexts},
           decision \in decisions}

GateFor(outcomes, capability) == {o.result : o \in {p \in outcomes : p.capability = capability}}

=============================================================================
