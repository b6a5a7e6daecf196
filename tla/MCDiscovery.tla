----------------------------- MODULE MCDiscovery -----------------------------
(* Discovery with a fixture that is renamed and a zone that gets a name. *)
EXTENDS Discovery

MCMaps == <<[f |-> "a"], [f |-> "b", z |-> "b"]>>
MCLayouts == {{"x"}, {"x", "y"}}

=============================================================================
