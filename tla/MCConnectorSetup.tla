---- MODULE MCConnectorSetup ----
(* Small instances of ConnectorSetup. *)
EXTENDS ConnectorSetup
E1 == [r \in Records |-> r % 3]
Lists == {k .. 6 : k \in 1 .. 7} \cup {{2,3,5}}
Ids == {{}, {7}, {2,6}, {1,2,4,7}, {2,3,4,5,6}}
====
