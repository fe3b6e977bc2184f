----------------------------- MODULE MCReminders -----------------------------
(***************************************************************************)
(* Reminders for TLC: two tasks of one event or of two, both overdue on    *)
(* day 1 or one on each day.                                               *)
(***************************************************************************)
EXTENDS Reminders, TLC

CONSTANTS t1, t2, e1, e2

OneEvent  == [t \in Tasks |-> e1]
TwoEvents == (t1 :> e1) @@ (t2 :> e2)
DueBefore == [t \in Tasks |-> 0]
DueInTurn == (t1 :> 0) @@ (t2 :> 1)

\* Workers are interchangeable, and so are correlation ids.
Symmetry == Permutations(Workers) \cup Permutations(Correlations)
=============================================================================
