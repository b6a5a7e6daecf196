----------------------------- MODULE MCApprovals -----------------------------
(***************************************************************************)
(* Approvals for TLC.  The configurations give the engines (the API, and   *)
(* an `aios rv ask` beside it), the decide requests and the ids.           *)
(***************************************************************************)
EXTENDS Approvals, TLC

\* No definition of Approvals tells two ids or two decide requests apart; two
\* actions it does (AnyAction).
Symmetry == Permutations(Ids) \cup Permutations(Deciders)

=============================================================================
