------------------------------ MODULE Actuation ------------------------------
(***************************************************************************)
(* PolicyEngine.authorize under call_service, for the actions of one key:  *)
(* they differ in their targets alone.  A rule claims an action by the     *)
(* targets its patterns cover; the first that does gives the tier, and a   *)
(* limit that RateLimiter holds.  What becomes of a guarded action is the  *)
(* subject of Approvals; here a human may or may not have approved it.     *)
(***************************************************************************)
EXTENDS RateLimiter

CONSTANTS
    Targets,    \* entity ids
    Policies    \* rules of the key, in their order, and the default tier

Tiers == {"read", "control", "guarded", "deny"}

\* Patterns that are just "*" do not restrict targets; others may cover all of them.
Rule == [tier : Tiers, scope : SUBSET Targets, restricts : BOOLEAN, rate : SUBSET Limits]

ASSUME PoliciesAssumption ==
    \A p \in Policies :
       /\ p.rules \in Seq(Rule) /\ p.default \in Tiers
       /\ \A i \in 1..Len(p.rules) :
             /\ \A m, n \in p.rules[i].rate : m = n
             /\ ~p.rules[i].restricts => p.rules[i].scope = Targets

VARIABLES
    policy,
    asks,   \* what each thread has asked for, while it waits for the limiter
    line    \* the last line of the audit log

actVars == <<vars, policy, asks, line>>

Action == SUBSET Targets
Lines == [targets : Action, tier : Tiers \cup {"none"},
          status : {"allowed", "pending_approval", "denied", "rate_limited", "none"}]

ActTypeOK ==
    /\ policy \in Policies
    /\ asks \in [Threads -> Action]
    /\ line \in Lines

ActInit ==
    /\ Init
    /\ policy \in Policies
    /\ asks = [t \in Threads |-> {}]
    /\ line = [targets |-> {}, tier |-> "none", status |-> "none"]

\* Mistake: one target that is covered is enough.
ClaimsSome(rule, a) == ~rule.restricts \/ a \cap rule.scope # {}
Claims(rule, a) ==
    IF a = {} THEN ~rule.restricts ELSE a \subseteq rule.scope

Claiming(a) == {i \in 1..Len(policy.rules) : Claims(policy.rules[i], a)}
Default == [tier |-> policy.default, scope |-> Targets, restricts |-> FALSE, rate |-> {}]

\* _find_rule: the first that claims the action.
FindRule(a) ==
    IF Claiming(a) = {} THEN Default
    ELSE policy.rules[CHOOSE i \in Claiming(a) : \A j \in Claiming(a) : i <= j]

Decide(a, status) ==
    line' = [targets |-> a, tier |-> FindRule(a).tier, status |-> status]

\* The branches that end without the limiter, or begin with it.
Deny(a) == FindRule(a).tier = "deny" /\ Decide(a, "denied")

Guarded(a) ==
    /\ FindRule(a).tier = "guarded"
    /\ \E status \in {"allowed", "pending_approval", "denied"} : Decide(a, status)

Free(a) == FindRule(a).tier \in {"read", "control"}
AllowFree(a) == Free(a) /\ FindRule(a).rate = {} /\ Decide(a, "allowed")

Authorize(t, a) ==
    /\ call[t].pc = "idle"
    /\ \/ /\ Deny(a) \/ Guarded(a) \/ AllowFree(a)
          /\ UNCHANGED <<vars, asks>>
       \/ /\ Free(a)
          /\ \E limit \in FindRule(a).rate, now \in 0..MaxTime : ReadClock(t, now, limit)
          /\ asks' = [asks EXCEPT ![t] = a]
          /\ UNCHANGED line
    /\ UNCHANGED policy

Limited(t) ==
    /\ \E k \in popped..Len(grants) :
          \/ Allow(t, k) /\ Decide(asks[t], "allowed")
          \/ Refuse(t, k) /\ Decide(asks[t], "rate_limited")
    /\ asks' = [asks EXCEPT ![t] = {}]
    /\ UNCHANGED policy

Passes == Tick /\ UNCHANGED <<policy, asks, line>>

ActNext ==
    \/ \E t \in Threads : Limited(t) \/ \E a \in Action : Authorize(t, a)
    \/ Passes

ActSpec == ActInit /\ [][ActNext]_actVars

-----------------------------------------------------------------------------

RuleAt(i) == IF i <= Len(policy.rules) THEN policy.rules[i] ELSE Default
Covers(rule, a) == (\A x \in a : x \in rule.scope) /\ (a = {} => ~rule.restricts)

\* One grant of the window if the rule has a limit, and none if it has not.
Spends(rule) ==
    IF rule.rate = {} THEN grants' = grants
    ELSE Len(grants') = Len(grants) + 1 /\ grants'[Len(grants')].limit \in rule.rate

\* Whoever else asks meanwhile, what is allowed without a human is allowed by a rule
\* that covers each of its targets, or claims any when it names none; no rule that
\* denies or guards all of them comes before; and it takes one place in the window
\* exactly if its rule has a limit, under that limit (authorize, matches).
ActsByRule ==
    [][line'.status = "allowed" /\ <<line, grants>>' # <<line, grants>> =>
          \/ line'.tier = "guarded"
          \/ \E i \in 1 .. Len(policy.rules) + 1 :
                /\ RuleAt(i).tier = line'.tier /\ line'.tier \in {"read", "control"}
                /\ Covers(RuleAt(i), line'.targets) /\ Spends(RuleAt(i))
                /\ \A j \in 1 .. i - 1 : RuleAt(j).tier \in {"guarded", "deny"} =>
                                            ~Covers(RuleAt(j), line'.targets)]_actVars

(* The inductive invariant *)

\* The limit a thread is held to is one of the rule that claims what it asked for.
AsksInv ==
    /\ RateInv /\ ActTypeOK
    /\ \A t \in Threads : call[t].pc = "lock" =>
          /\ Free(asks[t])
          /\ call[t].limit \in FindRule(asks[t]).rate

=============================================================================
