--------------------------- MODULE DomainExecutor ---------------------------
(***************************************************************************)
(* domain/commands.py `execute` and domain/state.py `StateMachine`: the    *)
(* one path by which a plugin-owned row changes its status.  A row is any  *)
(* record with the fields status and version; a machine is the set of its  *)
(* <<source, target>> pairs.  A caller that passes expected_version is     *)
(* refused (TransitionError) when the row moved since the caller read it.  *)
(***************************************************************************)
EXTENDS Naturals

\* The optimistic check and the table lookup, under the row lock.
Accepts(machine, row, target, expected) ==
    /\ row.version = expected
    /\ <<row.status, target>> \in machine

\* What an accepted command leaves in the row.
Applied(row, target) ==
    [row EXCEPT !.status = target, !.version = @ + 1]
=============================================================================
