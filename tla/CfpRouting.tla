------------------------------ MODULE CfpRouting ------------------------------
(***************************************************************************)
(* The questions form of the call for papers (cfp.py), the visibility rule *)
(* and the reviewer pools that organisers configure (cfp_forms.py,         *)
(* CfpRoutingView), and the routing of a proposal to its pool.             *)
(*                                                                         *)
(* A request validates its form first and saves it later; settings may     *)
(* change in between.  Saving a proposal validates again what was stored.  *)
(***************************************************************************)
EXTENDS Naturals, FiniteSets

CONSTANTS
    Tracks,         \* a subset of Nat \ {0}; 0 is no track
    Pools,          \* reviewer pools, one for each review category
    Reviewers,
    Staffed, Split, \* how the seed gives pools their reviewer and tracks their pool
    Workers,
    MaxRequests

NoPool == 0
RoutingAssumption ==
    /\ Tracks \subseteq Nat \ {0} /\ IsFiniteSet(Tracks)
    /\ Pools \subseteq Nat \ {0} /\ IsFiniteSet(Reviewers)
    /\ Staffed \in [Pools -> Reviewers] /\ Split \in [Tracks -> Pools]
    /\ MaxRequests \in Nat

VARIABLES
    rule,        \* the ConditionalQuestionRule row
    staff,       \* ReviewerPool.reviewers
    routes,      \* ReviewerPoolTrack: pairs of pool and track
    proposal,    \* the proposal: state, format, track, answers and reviewers
    workers, requests,
    fresh,       \* history: no setting changed since the proposal was routed
    surprised    \* history: a save was refused although its form was accepted
                 \* and no setting changed in between

settings == <<rule, staff, routes>>
vars == <<settings, proposal, workers, requests, fresh, surprised>>

-----------------------------------------------------------------------------
Idle == [pc |-> "idle"]
Formats  == {"workshop", "talk"}
Variants == {"choice", "text"}
Topics   == 1..5

\* What a form holds: the answers to the rule's controller (does it have the
\* trigger) and target (is it given), the workshop prerequisites (given or not),
\* the number of topics, the review category, and whether it is the final one.
FormsOf == [format: Formats, track: Tracks \cup {0}, category: Pools \cup {NoPool},
            trigger: BOOLEAN, target: BOOLEAN, prerequisites: BOOLEAN,
            topics: {5, 6}, final: BOOLEAN]

Mapped(t) == {q \in Pools : <<q, t>> \in routes}

\* The track of a form, or one of the category's pool.
TracksOf(form) ==
    IF form.track # 0 THEN {form.track}
    ELSE {t \in Tracks : form.category # NoPool /\ <<form.category, t>> \in routes}

\* The rule, as both enforcement points mean it.
Obeys(trigger, target) ==
    rule.active =>
        /\ trigger /\ rule.required => target
        /\ ~trigger => ~target

\* SpeakerOpsQuestionsForm.clean with the required fields of its __init__.  A
\* stored answer to the prerequisites keeps the proposal a workshop.
Accepts(form) ==
    /\ form.format = "workshop" => form.prerequisites
    /\ form.format # "workshop" => ~form.prerequisites /\ ~proposal.prerequisites
    /\ form.topics \in Topics
    /\ Obeys(form.trigger, form.target)
    /\ TracksOf(form) # {}
    /\ \A t \in TracksOf(form) : Cardinality(Mapped(t)) = 1

\* Mutant: what is stored is not looked at again.
PersistedValid_Trusts(stored) == TRUE

\* validate_persisted_conditional_answers: only the options of an answer count
\* as its presence, so a text is never there.
PersistedValid(stored) ==
    /\ Obeys(stored.trigger, stored.target /\ rule.variant = "choice")
    /\ stored.format = "workshop" <=> stored.prerequisites

Become(w, q) == workers' = [workers EXCEPT ![w] = q]
Ready(w) == workers[w] = Idle /\ requests < MaxRequests
Begin(w, q) ==
    /\ requests' = requests + 1
    /\ Become(w, q)
    /\ UNCHANGED <<settings, proposal, fresh, surprised>>

-----------------------------------------------------------------------------
(* Organisers.                                                             *)

\* ConditionalQuestionRuleForm: any question can be the target.
SaveRule(active, required, variant) ==
    /\ requests < MaxRequests
    /\ requests' = requests + 1
    /\ rule' = [active |-> active, required |-> required, variant |-> variant]
    /\ rule' # rule
    /\ fresh' = FALSE
    /\ UNCHANGED <<staff, routes, proposal, workers, surprised>>

\* ReviewerPoolForm.clean: no category of another pool.
BeginPool(w, q, tracks, people) ==
    /\ Ready(w) /\ tracks # {} /\ people # {}
    /\ \A t \in tracks : Mapped(t) \subseteq {q}
    /\ Begin(w, [pc |-> "pool", pool |-> q, tracks |-> tracks, people |-> people])

\* ReviewerPoolForm.save, one transaction.  A track has one row.
CommitPool(w) ==
    /\ workers[w].pc = "pool"
    /\ LET q == workers[w].pool IN
       IF \A t \in workers[w].tracks : Mapped(t) \subseteq {q}
       THEN /\ staff' = [staff EXCEPT ![q] = workers[w].people]
            /\ routes' = {x \in routes : x[1] # q} \cup ({q} \X workers[w].tracks)
            /\ fresh' = FALSE
       ELSE UNCHANGED <<staff, routes, fresh>>
    /\ Become(w, Idle)
    /\ UNCHANGED <<rule, proposal, requests, surprised>>

-----------------------------------------------------------------------------
(* Speakers.                                                               *)

BeginSave(w, form) ==
    /\ Ready(w)
    /\ Accepts(form)
    /\ proposal.state = "submitted" => form.final
    /\ \E t \in TracksOf(form) : Begin(w, [pc |-> "save", read |-> settings, answers |->
         [state |-> IF form.final THEN "submitted" ELSE "draft", format |-> form.format,
          track |-> t, trigger |-> form.trigger, target |-> form.target,
          prerequisites |-> form.prerequisites]])

\* The proposal with the answers, format and track of the form.
Stored(w) ==
    [x \in DOMAIN proposal |->
        IF x = "reviewers" THEN proposal.reviewers ELSE workers[w].answers[x]]

Routable(stored) ==
    /\ PersistedValid(stored)
    /\ Cardinality(Mapped(stored.track)) = 1
    /\ \A q \in Mapped(stored.track) : staff[q] # {}

\* SpeakerOpsQuestionsForm.save.  A route that is refused is an exception: what
\* was stored before it stays or is rolled back, as the caller has it.
CommitSave(w) ==
    /\ workers[w].pc = "save"
    /\ LET stored == Stored(w) IN
       CASE stored.state = "draft" ->
              /\ proposal' = stored
              /\ UNCHANGED <<fresh, surprised>>
         [] stored.state = "submitted" /\ Routable(stored) ->
              /\ \E q \in Mapped(stored.track) :
                    proposal' = [stored EXCEPT !.reviewers = staff[q]]
              /\ fresh' = TRUE
              /\ UNCHANGED surprised
         [] OTHER ->
              /\ proposal' \in {proposal, stored}
              /\ fresh' = (fresh /\ proposal' = proposal)
              /\ surprised' = (surprised \/ (workers[w].read = settings /\ rule.variant = "choice"))
    /\ Become(w, Idle)
    /\ UNCHANGED <<settings, requests>>

-----------------------------------------------------------------------------
\* configure_demo_cfp_routing: the tracks are split among the pools.
Init ==
    /\ rule = [active |-> TRUE, required |-> TRUE, variant |-> "choice"]
    /\ staff = [q \in Pools |-> {Staffed[q]}]
    /\ routes = {<<Split[t], t>> : t \in Tracks}
    /\ proposal = [state |-> "draft", format |-> "talk", track |-> 0,
                   trigger |-> FALSE, target |-> FALSE, prerequisites |-> FALSE,
                   reviewers |-> {}]
    /\ workers = [w \in Workers |-> Idle]
    /\ requests = 0
    /\ fresh = FALSE /\ surprised = FALSE

Next ==
    \/ \E active \in BOOLEAN, required \in BOOLEAN, variant \in Variants :
        SaveRule(active, required, variant)
    \/ \E w \in Workers :
        \/ \E q \in Pools, tracks \in SUBSET Tracks, people \in SUBSET Reviewers :
            BeginPool(w, q, tracks, people)
        \/ \E form \in FormsOf : BeginSave(w, form)
        \/ CommitPool(w) \/ CommitSave(w)

Spec == Init /\ [][Next]_vars

-----------------------------------------------------------------------------
\* A submitted proposal that was saved is with the reviewers of the one pool of
\* its category, and its answers obey the rules, until an organiser changes a
\* setting; and a form that was accepted is not refused when it is saved under
\* the same settings (for rules about choices: a rule about a text refuses all).
RoutedAsConfigured ==
    /\ ~surprised
    /\ \A t \in Tracks : Cardinality(Mapped(t)) <= 1
    /\ fresh /\ proposal.state = "submitted" =>
        /\ \E q \in Pools : Mapped(proposal.track) = {q} /\ proposal.reviewers = staff[q]
        /\ proposal.reviewers # {}
        /\ rule.variant = "choice" => Obeys(proposal.trigger, proposal.target)
        /\ proposal.prerequisites <=> proposal.format = "workshop"
=============================================================================
