-------------------------- MODULE MCReviewAutosave --------------------------
(* The tabs of one reviewer on one proposal differ in nothing but their    *)
(* names.                                                                  *)
EXTENDS ReviewAutosave, TLC

SymmetryOfTabs == Permutations(Tabs)
=============================================================================
