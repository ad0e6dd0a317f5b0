------------------------------ MODULE RuleCalls ------------------------------
(***************************************************************************)
(* What the modules that call a rule have in common: a rule keeps no       *)
(* state, so calls come one at a time, and phase says whether one has been *)
(* answered ("idle" otherwise).                                            *)
(***************************************************************************)
VARIABLE phase
=============================================================================
