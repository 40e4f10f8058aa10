---------------------------- MODULE MCTreeQueue ----------------------------
(* TLC instances of TreeQueue: replies are interchangeable, the root is not. *)
EXTENDS TreeQueue

ReplySymmetry == Permutations(Node \ {Root})
=============================================================================
