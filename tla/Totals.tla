------------------------------- MODULE Totals -------------------------------
(***************************************************************************)
(* Sums of amounts, as they are counted coin by coin: the total of f over  *)
(* S is the number of pairs of an element x of S and a coin in 1..f[x].    *)
(* It is the sum that a fold computes, in a form that reasoning about      *)
(* finite sets reaches without induction.                                  *)
(***************************************************************************)
EXTENDS Naturals, FiniteSets

Coins(f, S) == UNION {{x} \X (1..f[x]) : x \in S}
Total(f, S) == Cardinality(Coins(f, S))
=============================================================================
