----------------------------- MODULE MCTavernRun -----------------------------
(* Small instances of TavernRun for TLC.                                   *)
EXTENDS TavernRun, TLC

Symmetry == Permutations(Persona) \union Permutations(Worker) \union Permutations(Run)
=============================================================================
