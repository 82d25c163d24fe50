----------------------------- MODULE MCStudyChat -----------------------------
(* Requests are interchangeable, and so are messages. *)
EXTENDS StudyChat, TLC

RequestSymmetry == Permutations(Worker) \union Permutations(Op)
=============================================================================
