---------------------------- MODULE MCPublication ----------------------------
(***************************************************************************)
(* The program from the proposals to the published calendar.  Publication  *)
(* and the modules of Proposals share no row and no request, so every      *)
(* behaviour runs one of them, the part, and leaves the others as they     *)
(* start.                                                                  *)
(***************************************************************************)
EXTENDS Publication, Proposals, TLC

Lengths == [s \in Sessions |-> 3 - s]
Speakers == [s \in Sessions |-> {"ada"}]

\* Two releases with a change and a placement around them, or more changes and
\* feeds of one.
Allowances ==
    { [releases |-> 2, changes |-> 1, placements |-> 1, feeds |-> 2],
      [releases |-> 1, changes |-> 2, placements |-> 0, feeds |-> 3] }

\* The workers are alike in every part.
SymmetryOfWorkers == Permutations(Workers)

\* One round of one reviewer for two proposals; a scorecard with a rating and a
\* choice, and one with a rating alone.
Scorecards == [initial |-> <<2, 0>>, final |-> <<1>>]

\* Two tracks, two pools of one reviewer each.
PoolStaff  == <<"ada", "eve">>
TrackPools == <<1, 2>>

Parts == {"publication", "rounds", "presenters", "routing"}
allVars == <<part, vars, reviewing, authors, choices>>

\* A part that stands still needs one of its starts only.
PartsInit ==
    /\ part \in Parts
    /\ Init /\ ProposalsInit
    /\ part # "publication" => /\ \A s \in Sessions : approval[s] = "none"
                              /\ budget = CHOOSE b \in Budgets : TRUE
PartsNext ==
    \/ part = "publication" /\ Next /\ UNCHANGED <<part, reviewing, authors, choices>>
    \/ ProposalsNext /\ UNCHANGED vars
PartsSpec == PartsInit /\ [][PartsNext]_allVars
=============================================================================
