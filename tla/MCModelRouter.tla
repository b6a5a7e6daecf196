----------------------------- MODULE MCModelRouter -----------------------------
(* ModelRouter with a workstation that offers all, and a coach that chats. *)
EXTENDS ModelRouter, TLC

MCProviders == {1, 2}
MCCapabilities == {"chat", "heavy"}
MCOffers == [chat |-> {1, 2}, heavy |-> {1}]

Symmetry == Permutations(Asks)

=============================================================================
