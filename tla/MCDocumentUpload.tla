--------------------------- MODULE MCDocumentUpload ---------------------------
(***************************************************************************)
(* Instances of DocumentUpload for TLC: one document under two names, a    *)
(* document at the size limit, and uploads that each check refuses.        *)
(***************************************************************************)
EXTENDS DocumentUpload, TLC

CONSTANTS p1, p2

Body(tag, size, magic) == [tag |-> tag, size |-> size, magic |-> magic]
File(body, name, suffix) == [present |-> TRUE, body |-> body, name |-> name, suffix |-> suffix]

Invoice == Body("d1", 1, "pdf")
AtLimit == Body("d2", MAX_UPLOAD_BYTES, "png")

OneFile == {File(Invoice, "a", "pdf")}
SomeFiles == {File(Invoice, "a", "pdf"), File(Invoice, "b", "other"), File(AtLimit, "c", "png")}
Refused == {File(Body("d3", MAX_UPLOAD_BYTES + 1, "pdf"), "a", "pdf"),
            File(Body("d4", 0, "none"), "a", "pdf"),
            File(AtLimit, "a", "pdf"),
            [File(Body("d4", 0, "none"), "a", "other") EXCEPT !.present = FALSE]}
AllFiles == SomeFiles \union Refused

Symmetry == Permutations(Replicas)
=============================================================================
