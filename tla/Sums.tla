-------------------------------- MODULE Sums --------------------------------
(***************************************************************************)
(* The sum of a function over a finite set: what SUM(...) over the rows of *)
(* a table is, and what the running totals kept beside the rows stand for. *)
(***************************************************************************)
EXTENDS Integers, Folds

AnyOf(S) == CHOOSE x \in S : TRUE

SumOver(f, S) == MapThenFoldSet(+, 0, LAMBDA x : f[x], AnyOf, S)

=============================================================================
