---------------------------- MODULE MCOnboarding ----------------------------
(* One upload task and one task that takes a response.                     *)
EXTENDS Onboarding, TLC

CONSTANTS t1, t2, u1, u2, w1, w2

UploadOnly    == {t1}
SymmetryOfIds == Permutations({u1, u2}) \cup Permutations({w1, w2})
=============================================================================
