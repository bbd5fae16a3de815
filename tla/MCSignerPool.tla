---------------------------- MODULE MCSignerPool ----------------------------
(* Two tickets at once over two lanes.                                       *)
EXTENDS SignerPool, TLC

MCSymmetry == Permutations(Worker)

=============================================================================
