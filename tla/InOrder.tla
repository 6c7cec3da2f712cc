------------------------------- MODULE InOrder -------------------------------
(***************************************************************************)
(* The order of ids and of positions: what a SELECT ... ORDER BY id, or a  *)
(* loop over a list that keeps some of its elements, makes of a set.  The  *)
(* definition counts instead of recurring, for the sake of the proofs.     *)
(***************************************************************************)
EXTENDS Naturals, Sequences, FiniteSets

\* The place of x among the numbers of S.
Place(x, S) == Cardinality({y \in S : y <= x})

\* The numbers of S from the lowest to the highest.
InOrder(S) == [i \in 1 .. Cardinality(S) |-> CHOOSE x \in S : Place(x, S) = i]
==============================================================================
