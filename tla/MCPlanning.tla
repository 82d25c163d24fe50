------------------------------ MODULE MCPlanning ------------------------------
EXTENDS DocumentPlanning, TLC

\* Plans and operations are interchangeable, and no liveness is stated.
PlanningSymmetry == Permutations(Plan) \union Permutations(Op)
=============================================================================
