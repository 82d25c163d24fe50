---- MODULE MCPlanRevision ----
EXTENDS PlanRevision, TLC

RevisionSymmetry ==
    Permutations(Op) \union Permutations(Learner) \union Permutations(Approver)
====
