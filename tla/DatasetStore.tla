----------------------------- MODULE DatasetStore -----------------------------
(***************************************************************************)
(* What connector_service promises about the tables it keeps, without its  *)
(* sessions, statuses and locks: a dataset is recorded, its table is       *)
(* replaced by complete contents any number of times or dropped, and the   *)
(* record is forgotten.  _write_rows: "a reader sees either the previous   *)
(* contents or the new ones, never half of each".                          *)
(***************************************************************************)
EXTENDS Naturals

CONSTANTS Datasets, Shapes, NoTable, Batches

VARIABLES store,     \* the table of each dataset
          record     \* its catalogue row: unborn, live or deleted

storeVars == << store, record >>

Complete(shape) == [shape |-> shape, batches |-> Batches]

Init ==
    /\ store = [d \in Datasets |-> NoTable]
    /\ record \in [Datasets -> {"unborn", "live"}]

Add(d) ==
    /\ record[d] = "unborn"
    /\ record' = [record EXCEPT ![d] = "live"]
    /\ UNCHANGED store

(* The contents change as a whole, and never for a dataset nobody recorded.*)
Replace(d, shape) ==
    /\ record[d] # "unborn"
    /\ store' = [store EXCEPT ![d] = Complete(shape)]
    /\ UNCHANGED record

Drop(d) ==
    /\ record[d] # "unborn"
    /\ store' = [store EXCEPT ![d] = NoTable]
    /\ UNCHANGED record

Forget(d) ==
    /\ record[d] = "live"
    /\ record' = [record EXCEPT ![d] = "deleted"]
    /\ UNCHANGED store

Next ==
    \E d \in Datasets :
        \/ Add(d) \/ Drop(d) \/ Forget(d)
        \/ \E shape \in Shapes : Replace(d, shape)

Spec == Init /\ [][Next]_storeVars

=============================================================================
