------------------------------ MODULE WriteOnce ------------------------------
(***************************************************************************)
(* The promise several services of the repository make about their table:  *)
(* a key's row is recorded at most once and never overwritten, and others  *)
(* are told of a key only while its row is recorded.  For the p03 ingress  *)
(* the rows are inbox events and a provider is told by a 2xx; for review-ui *)
(* they are decisions and the receiver workflow is told by a POST; for p02 *)
(* they are documents and the intake workflow is told by a POST.           *)
(***************************************************************************)
CONSTANTS Keys, Rows, NoRow

VARIABLES stored,      \* the row of each key, or NoRow
          told         \* keys others have been told of

Init == /\ stored = [k \in Keys |-> NoRow]
        /\ told = {}

Record(k, row) == /\ stored[k] = NoRow
                  /\ stored' = [stored EXCEPT ![k] = row]
                  /\ UNCHANGED told

Tell(k) == /\ stored[k] # NoRow
           /\ told' = told \union {k}
           /\ UNCHANGED stored

Next == \E k \in Keys : Tell(k) \/ \E row \in Rows : Record(k, row)

Spec == Init /\ [][Next]_<<stored, told>>
=============================================================================
