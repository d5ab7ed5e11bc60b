----------------------------- MODULE MCOperator -----------------------------
(* Small instances of Operator; the bounds are given in the .cfg files. *)
EXTENDS Operator

MCValues == {"a"}
MCManifests == {[p \in Parts |-> Unset], [p \in Parts |-> "a"]}
MCBareManifest == {[p \in Parts |-> Unset]}
MCOrders == {1, 2}
=============================================================================
