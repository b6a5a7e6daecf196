----------------------------- MODULE MCActuation -----------------------------
(* Actuation with two targets; the policies hold the coach's kinds of rules. *)
EXTENDS Actuation, TLC

RuleOf(tier, scope, rate) ==
    [tier |-> tier, scope |-> scope, restricts |-> scope # Targets, rate |-> rate]
PatternsForAll == [RuleOf("control", Targets, {}) EXCEPT !.restricts = TRUE]

Policy(rules, default) == [rules |-> rules, default |-> default]

MCPolicies == {
    Policy(<<RuleOf("deny", {"a"}, {}), RuleOf("control", {"b"}, {1}),
             RuleOf("control", Targets, {2})>>, "deny"),
    Policy(<<RuleOf("read", {"a"}, {}), PatternsForAll>>, "deny"),
    Policy(<<RuleOf("guarded", {"a"}, {})>>, "control")}

Symmetry == Permutations(Threads)

=============================================================================
