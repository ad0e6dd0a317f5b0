-------------------------------- MODULE Sums ---------------------------------
(***************************************************************************)
(* sum() of a list of integers, as the validators of P02 use it.           *)
(***************************************************************************)
EXTENDS Integers, Sequences

SumOf(s) == LET upTo[n \in 0..Len(s)] == IF n = 0 THEN 0 ELSE upTo[n - 1] + s[n]
            IN  upTo[Len(s)]
=============================================================================
