----------------------------- MODULE MCProgram -----------------------------
(* Two proposals of one speaker each.                                      *)
EXTENDS Program, TLC

CONSTANTS s1, s2, a, b, w1, w2

TwoTalks == (s1 :> {a}) @@ (s2 :> {b})
OneTalk  == s1 :> {a, b}
SymmetryOfWorkers == Permutations({w1, w2})
=============================================================================
