--------------------------- MODULE MCReviewDecision ---------------------------
(***************************************************************************)
(* Instances of ReviewDecision for TLC.                                    *)
(***************************************************************************)
EXTENDS ReviewDecision

CONSTANTS w1, w2, r1, r2
=============================================================================
