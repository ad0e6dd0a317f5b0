------------------------------ MODULE MCFlakyApi ------------------------------
(***************************************************************************)
(* Instances of FlakyApi for TLC: creates with and without an id, an       *)
(* update, reads, and the modes that take each path of withFaults.         *)
(***************************************************************************)
EXTENDS FlakyApi, TLC

CONSTANTS c1, c2

Item(kind, val, name) == [id |-> [kind |-> kind, val |-> val], name |-> name]
Post(item) == [route |-> "POST /items", item |-> item]
Put(item) == [route |-> "PUT /items", item |-> item]
Get(k) == [route |-> "GET /items/{id}", item |-> Item("text", k, "a")]
List == [route |-> "GET /items", item |-> Item("none", 0, "a")]

\* Explicit ids that the generated ones do not reach within MaxRequests.
ApartRequests == {Post(Item("none", 0, "a")), Post(Item("number", 57, "a")),
                  Put(Item("text", 5, "b")), Put(Item("none", 0, "b")), Get(1), List}
\* Explicit ids that are also generated ones.
SharedRequests == {Post(Item("none", 0, "a")), Post(Item("text", 1, "b"))}

SomeModes == {[auth |-> TRUE, rate |-> "zero", status |-> 0],
              [auth |-> FALSE, rate |-> "zero", status |-> 429],
              [auth |-> FALSE, rate |-> "some", status |-> 0]}

Symmetry == Permutations(Clients)
=============================================================================
