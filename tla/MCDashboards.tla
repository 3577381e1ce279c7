---- MODULE MCDashboards ----
(* Small instances of Dashboards. *)
EXTENDS Dashboards, TLC

Symmetry == Permutations(Ids) \cup Permutations(Apps) \cup Permutations(Others)
====
