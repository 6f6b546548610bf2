------------------------ MODULE PublicationRegister ------------------------
(***************************************************************************)
(* What the control plane promises the readers of the published market     *)
(* data: one register that names a publication and holds its complete set  *)
(* of datasets, or nothing before the first one.  Only a publication that  *)
(* has never been made before replaces it, as a whole; until then no       *)
(* dataset of it changes.                                                  *)
(***************************************************************************)
CONSTANTS
  Run,        \* publications are named by their runs
  Dataset,    \* dataset names
  Required,   \* the names a publication must include
  Content,    \* contents of a dataset
  Missing,    \* the dataset is not part of the publication
  Nothing     \* nothing has been published

VARIABLES
  current,    \* the publication that readers see
  published   \* the runs published so far

Complete(data) == \A d \in Required : data[d] # Missing

Init == current = Nothing /\ published = {}

Publish(r) ==
  /\ r \notin published
  /\ published' = published \cup {r}
  /\ \E data \in [Dataset -> {Missing} \cup Content] :
       /\ Complete(data)
       /\ current' = [run |-> r, data |-> data]

Next == \E r \in Run : Publish(r)

Spec == Init /\ [][Next]_<<current, published>>
=============================================================================
