--------------------------- MODULE PolicyEngine ----------------------------
(***************************************************************************)
(* PolicyEngine::evaluate (sphere/src/policy): which rules of which        *)
(* policies an event violates in a pipeline context.  Pure; no handler     *)
(* calls it yet: it is evaluated in the contexts that the filters fill.    *)
(* An identity's metadata are pairs of a key and a value.                  *)
(***************************************************************************)
EXTENDS PipelineContext

RequestReceived         == [type |-> "RequestReceived"]
ToolCallRequested(tool) == [type |-> "ToolCallRequested", tool |-> tool]
SessionUpdate           == [type |-> "SessionUpdate"]

(* Session, Identity and Global policies always apply.                     *)
ScopeMatches(scope, event) ==
  scope.type = "Tool" =>
    event.type = "ToolCallRequested" /\ event.tool = scope.name

Exceeds(option, limit) == option # None /\ option > limit

(* evaluate_rule returns a reason.                                         *)
Violated(rule, context, event) ==
  CASE rule.type = "MaxToolCallsPerSession" ->
         event.type \in {"ToolCallRequested", "SessionUpdate"}
           /\ Exceeds(context.turns, rule.limit)
    [] rule.type = "MaxTokensPerIdentityPerHour" ->
         Exceeds(context.sessionTokens, rule.limit)
    [] rule.type = "RequireMfa" ->
         context.identity = None \/ <<"mfa_verified", "true">> \notin context.identity.metadata
    [] rule.type = "RequireRoles" ->
         context.identity = None \/ ~(rule.roles \subseteq context.identity.roles)
    [] rule.type = "MaxResultSize" ->
         LET sizes == GetAnnotations(context, "result_size")
         IN  sizes # <<>> /\ Last(sizes) > rule.limit

Evaluate(policies, context, event) ==
  LET Broken(policy) ==
        IF ScopeMatches(policy.scope, event)
        THEN Select(policy.rules, {rule \in ToSet(policy.rules) : Violated(rule, context, event)})
        ELSE <<>>
      Report(policy) ==
        [i \in DOMAIN Broken(policy) |->
           [policy |-> policy.name, action |-> policy.action, rule |-> Broken(policy)[i]]]
  IN  FlattenSeq([i \in DOMAIN policies |-> Report(policies[i])])
=============================================================================
