---------------------------- MODULE MCUnderstand ----------------------------
(* A small instance of Understand for TLC.                                  *)
EXTENDS Understand, TLC

MCRuns == 1..3
Symmetry == Permutations(Convs) \cup Permutations(Texts)
=============================================================================
