------------------------------ MODULE MCDocument ------------------------------
(* Small instances of DocumentProcess for TLC. *)
EXTENDS DocumentProcess, TLC

DocumentSymmetry == Permutations(Op) \union Permutations(Server)
=============================================================================
