--------------------------- MODULE ApprovalsSerial ---------------------------
(***************************************************************************)
(* The deployment in which approvals keep every promise of ADR-014: one    *)
(* process authorizes (the API, no `aios rv ask` beside it), the database  *)
(* is on disk, and one decide request is in progress at a time.  Approvals *)
(* then implements OneUseApproval.                                         *)
(***************************************************************************)
EXTENDS Approvals

ASSUME SerialAssumption == /\ Engines = {Api}
                           /\ \A c, d \in Deciders : c = d
                           /\ Durable

\* An abstract approval is the row; a use is a call Home Assistant carried out.
Promise == INSTANCE OneUseApproval WITH
    state <- [id \in Ids |-> store[id].status],
    want <- asked,
    uses <- [id \in Ids |-> [a \in Actions |-> performed[Api][a][id]]]

\* The gate implements the single-use approval: rows move only along its life,
\* and Home Assistant carries out an action at most once per approval, only
\* after the approval was spent and only the action it was asked for.
ImplementsOneUse == Promise!Spec

-----------------------------------------------------------------------------
(* The inductive invariant behind SingleUse and the implementation *)

\* A verdict is written to a row that is still pending, a token is consumed
\* from a row that is still approved, and an action that is on its way or done
\* has a consumed row: with one decision and one authorization at a time, no
\* status an operation has read is stale when it writes.
FreshReads ==
    /\ \A d \in Deciders :
          dec[d].pc = "write" => store[dec[d].id].status = "pending"
    /\ \A e \in Engines :
          auth[e].pc = "consume" => store[auth[e].id].status = "approved"
    /\ \A e \in Engines, a \in Actions, id \in Ids :
          Committed(e, a, id) > 0 => store[id].status = "consumed"

ApprovedOnce ==
    \A id \in Ids :
        /\ approvals[id] <= 1
        /\ store[id].status \in {"absent", "pending"} => approvals[id] = 0
        /\ asked[id] = NoAction <=> store[id].status = "absent"

SerialInv == FreshReads /\ ApprovedOnce

=============================================================================
