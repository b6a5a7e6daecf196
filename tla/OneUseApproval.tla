--------------------------- MODULE OneUseApproval ---------------------------
(***************************************************************************)
(* What ADR-014 promises of a guarded action, with nothing of how: an      *)
(* approval is asked for one action, decided once, spent once, and spending*)
(* it lets that action happen at most once.                                *)
(***************************************************************************)
EXTENDS Naturals

CONSTANTS Actions, NoAction, Ids

VARIABLES
    state,  \* where each approval is in its life
    want,   \* the action it was asked for
    uses    \* how often each action happened on its behalf

vars == <<state, want, uses>>

Init ==
    /\ state = [id \in Ids |-> "absent"]
    /\ want = [id \in Ids |-> NoAction]
    /\ uses = [id \in Ids |-> [a \in Actions |-> 0]]

Ask(id, a) ==
    /\ state[id] = "absent"
    /\ state' = [state EXCEPT ![id] = "pending"]
    /\ want' = [want EXCEPT ![id] = a]
    /\ UNCHANGED uses

Move(id, from, to) ==
    /\ state[id] = from
    /\ state' = [state EXCEPT ![id] = to]
    /\ UNCHANGED <<want, uses>>

Decide(id) == Move(id, "pending", "approved") \/ Move(id, "pending", "denied")

Spend(id) == Move(id, "approved", "consumed")

\* Spending is a permission: a crash may waste it, nothing renews it.
Act(id, a) ==
    /\ state[id] = "consumed"
    /\ want[id] = a
    /\ uses[id][a] = 0
    /\ uses' = [uses EXCEPT ![id][a] = 1]
    /\ UNCHANGED <<state, want>>

Next == \E id \in Ids : \/ \E a \in Actions : Ask(id, a) \/ Act(id, a)
                        \/ Decide(id)
                        \/ Spend(id)

Spec == Init /\ [][Next]_vars

=============================================================================
