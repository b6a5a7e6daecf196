---------------------------- MODULE MCEntityRename ----------------------------
(* EntityRename with names on both sides of the temporaries in the order.  *)
EXTENDS EntityRename

MCNames == {-2, -1, 4}

=============================================================================
