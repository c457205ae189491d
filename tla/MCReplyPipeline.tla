--------------------------- MODULE MCReplyPipeline ---------------------------
(***************************************************************************)
(* The instances of ReplyPipeline that TLC checks.                         *)
(***************************************************************************)
EXTENDS ReplyPipeline, TLC

CONSTANTS k1, k2

Symmetry == Permutations({k1, k2})

=============================================================================
