------------------------------ MODULE Proposals ------------------------------
(***************************************************************************)
(* What happens to proposals before the program: the evaluation rounds,    *)
(* the presenters with the deadlines, and the routing to reviewers.  The   *)
(* three share no row and no request, so a behaviour runs one of them, the *)
(* part, and leaves the others as they start; the properties of a part are *)
(* those of its behaviours.                                                *)
(***************************************************************************)
CONSTANTS
    Requesters,      \* concurrent requests, of each of the three
    Rounds, RoundReviewers, Submissions, Presets, Limits, MaxPosts, MaxCards,
    People, Types, LastDay, MaxRequests,
    Tracks, Pools, PoolReviewers, Staffed, Split, MaxSaves

VARIABLES
    part,
    card, limit, status, answers, reviewable, reminded, reviewers, posts, raced,
    today, cfp, formats, type, lifecycle, invited, speakers, roles, requests,
    submitted, own, crossed,
    rule, staff, routes, proposal, savers, saves, fresh, surprised

reviewing == <<card, limit, status, answers, reviewable, reminded, reviewers, posts, raced>>
authors   == <<today, cfp, formats, type, lifecycle, invited, speakers, roles, requests,
               submitted, own, crossed>>
choices   == <<rule, staff, routes, proposal, savers, saves, fresh, surprised>>

Scoring == INSTANCE EvaluationRounds WITH
    Reviewers <- RoundReviewers, Workers <- Requesters, workers <- reviewers

Roles == INSTANCE Presenters WITH
    Workers <- Requesters, state <- lifecycle, workers <- requests, requests <- submitted

Routing == INSTANCE CfpRouting WITH
    Reviewers <- PoolReviewers, Workers <- Requesters, MaxRequests <- MaxSaves,
    workers <- savers, requests <- saves

ASSUME ProposalsAssumption ==
    Scoring!RoundsAssumption /\ Roles!PresentersAssumption /\ Routing!RoutingAssumption

ProposalsInit == Scoring!Init /\ Roles!Init /\ Routing!Init
ProposalsNext ==
    /\ UNCHANGED part
    /\ \/ part = "rounds" /\ Scoring!Next /\ UNCHANGED <<authors, choices>>
       \/ part = "presenters" /\ Roles!Next /\ UNCHANGED <<reviewing, choices>>
       \/ part = "routing" /\ Routing!Next /\ UNCHANGED <<reviewing, authors>>
ProposalsSpec == ProposalsInit /\ [][ProposalsNext]_<<part, reviewing, authors, choices>>

\* A completed review answers all of its scorecard and is counted in the results of
\* its round (EvaluationRounds).
CompletedReviewsCount == part = "rounds" => Scoring!CompletedReviewsCount

\* One of the presenters is the primary author (Presenters).
OnePrimaryAuthor == part = "presenters" => Roles!OnePrimaryAuthor

\* Formats without a deadline of their own close with the call for papers (Presenters).
FormatsFollow == part = "presenters" => Roles!FormatsFollow

\* A submitted proposal is with the reviewers that the settings name (CfpRouting).
RoutedAsConfigured == part = "routing" => Routing!RoutedAsConfigured
=============================================================================
