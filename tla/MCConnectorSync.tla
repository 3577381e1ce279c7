--------------------------- MODULE MCConnectorSync ---------------------------
(* Small instances of ConnectorSync.  Column lists are interchangeable: no  *)
(* definition singles one out.                                             *)
EXTENDS ConnectorSync, TLC

ShapeSymmetry == Permutations(Shapes)

(* Everything but blame and alone, which record what has happened and on    *)
(* which no step depends.                                                  *)
NoHistory == << connVars, rowVars, tableVars, pc, sessVars, tickVars, deleteVars,
                crashes >>

=============================================================================
