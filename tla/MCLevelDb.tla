----------------------------- MODULE MCLevelDb -----------------------------
(***************************************************************************)
(* Small instances of LevelDb.                                             *)
(***************************************************************************)
EXTENDS LevelDb, TLC

MCKeys == 1..2

Symmetry == Permutations(Deleters)
=============================================================================
