---------------------------- MODULE MCGameSync ----------------------------
(* The instances of GameSync that TLC checks.                              *)
EXTENDS GameSync, TLC

Symmetry == Permutations(Values) \cup Permutations(Fields)
GameSymmetry == Symmetry \cup Permutations(Games)
AnswerSymmetry == Symmetry \cup Permutations(Games \ Foreign)
WorkerSymmetry == Permutations(Values) \cup Permutations(Workers)
=============================================================================
