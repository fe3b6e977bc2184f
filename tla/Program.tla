------------------------------ MODULE Program ------------------------------
(***************************************************************************)
(* Program decisions: a chair stages a decision on a proposal, releases a  *)
(* wave of acceptances, finalizes the rejections (program/decisions.py),   *)
(* and the acceptance plan that follows every native acceptance            *)
(* (receivers.py, onboarding/services.py).                                 *)
(*                                                                         *)
(* The native proposal and its answers belong to pretalx: other requests   *)
(* change them too.  A worker serves one request.  Releasing is one        *)
(* transaction that locks the rows it selected, goes through them one by   *)
(* one, and is rolled back by the first proposal the CfP policy refuses.   *)
(* What was registered on commit runs after it, in the same request.       *)
(***************************************************************************)
EXTENDS Naturals, FiniteSets

CONSTANTS
    Proposals, NoProposal,
    Waves, NoWave,
    Speakers,      \* who presents: [Proposals -> SUBSET people]
    Workers,
    MaxRequests, MaxEdits, MaxCrashes   \* bounds

ASSUME NamesAssumption ==
    /\ NoProposal \notin Proposals /\ NoWave \notin Waves
    /\ DOMAIN Speakers = Proposals
ASSUME LimitsAssumption ==
    MaxRequests \in Nat /\ MaxEdits \in Nat /\ MaxCrashes \in Nat

VARIABLES
    state,      \* native state of each proposal
    eligible,   \* do its answers pass validate_aie_submission_policy?
    decision,   \* its ProgramDecision row
    tasks,      \* <<proposal, speaker>> with an onboarding plan
    accepted,   \* proposals that ever were natively accepted (history)
    outcomes,   \* <<proposal, outcome, request>> applied natively (history)
    work, begun, edits, crashes

rows == <<state, decision, tasks, accepted, outcomes>>
vars == <<rows, eligible, work, begun, edits, crashes>>

-----------------------------------------------------------------------------
Statuses == {"accept", "waitlist", "reject"}
States   == {"submitted", "accepted", "confirmed", "rejected"}

\* The native state an applied decision asks for.
Wanted(status) == IF status = "accept" THEN "accepted" ELSE "rejected"

\* Without a row; by is the request that set applied_at, 0 before that.
Undecided == [status |-> "none", wave |-> NoWave, by |-> 0]

Idle == [ pc |-> "idle", n |-> 0, proposal |-> NoProposal,
          status |-> "none", wave |-> NoWave,
          batch |-> {}, todo |-> {}, calls |-> {}, owed |-> {}, failed |-> FALSE ]

Become(w, q) == work' = [work EXCEPT ![w] = q]

\* A request starts on a worker that has answered the one before.
Begin(w, q) ==
    /\ work[w].pc \in {"idle", "answered"}
    /\ begun < MaxRequests
    /\ begun' = begun + 1
    /\ Become(w, [q EXCEPT !.n = begun + 1])
    /\ UNCHANGED <<rows, eligible, edits, crashes>>

\* What is left of a request that is answered: what it told the chair.
Answered(w, failed) ==
    [Idle EXCEPT !.pc = "answered", !.n = work[w].n, !.calls = work[w].calls,
                 !.failed = failed]

\* select_for_update with select_related: a release holds the decisions and
\* the proposals of its batch until its transaction ends.
Locked(p) == \E w \in Workers : work[w].pc = "apply" /\ p \in work[w].batch

-----------------------------------------------------------------------------
(* stage_program_decision: the policy and applied_at are looked at without *)
(* a lock; a request they refuse changes nothing and is left out.          *)

BeginStage(w) ==
    \E p \in Proposals, status \in Statuses, wave \in Waves \cup {NoWave} :
        /\ (status = "accept") <=> (wave # NoWave)
        /\ status = "accept" => eligible[p]
        /\ decision[p].by = 0
        /\ Begin(w, [Idle EXCEPT !.pc = "stage", !.proposal = p,
                                 !.status = status, !.wave = wave])

\* update_or_create locks the row, writes its defaults and leaves applied_at.
Stage(w) ==
    /\ work[w].pc = "stage"
    /\ ~Locked(work[w].proposal)
    /\ decision' = [decision EXCEPT ![work[w].proposal] =
                      [@ EXCEPT !.status = work[w].status, !.wave = work[w].wave]]
    /\ Become(w, Idle)
    /\ UNCHANGED <<state, eligible, tasks, accepted, outcomes, begun, edits, crashes>>

-----------------------------------------------------------------------------
(* release_acceptance_wave and finalize_rejections.                        *)

\* The staged decisions a release selects: of its wave, or all rejections.
Due(status, wave) ==
    { p \in Proposals : /\ decision[p].status = status
                        /\ decision[p].wave = wave
                        /\ decision[p].by = 0 }

BeginBatch_Unlocked(w, status, wave) ==
    Begin(w, [Idle EXCEPT !.pc = "apply", !.status = status, !.wave = wave,
                          !.batch = Due(status, wave), !.todo = Due(status, wave)])

BeginBatch(w, status, wave) ==
    LET due == Due(status, wave) IN
    /\ \A p \in due : ~Locked(p)
    /\ Begin(w, [Idle EXCEPT !.pc = "apply", !.status = status, !.wave = wave,
                             !.batch = due, !.todo = due])

BeginRelease(w)  == \E wave \in Waves : BeginBatch(w, "accept", wave)
BeginFinalize(w) == BeginBatch(w, "reject", NoWave)

Fits(w, p) == work[w].status = "accept" => eligible[p]

Apply_PlansAtOnce(w) ==
    \E p \in work[w].todo :
        /\ work[w].pc = "apply"
        /\ Fits(w, p)
        /\ Become(w, [work[w] EXCEPT
             !.todo = @ \ {p},
             !.calls = IF state[p] = Wanted(work[w].status) THEN @ ELSE @ \cup {p}])
        /\ tasks' = tasks \cup (IF work[w].status = "accept" THEN {p} \X Speakers[p] ELSE {})
        /\ UNCHANGED <<state, decision, accepted, outcomes, eligible, begun, edits, crashes>>

\* One decision of the loop: the native call is made only when it would
\* change the state, and nothing of it shows before the commit.
Apply(w) ==
    \E p \in work[w].todo :
        /\ work[w].pc = "apply"
        /\ Fits(w, p)
        /\ Become(w, [work[w] EXCEPT
             !.todo = @ \ {p},
             !.calls = IF state[p] = Wanted(work[w].status) THEN @ ELSE @ \cup {p}])
        /\ UNCHANGED <<rows, eligible, begun, edits, crashes>>

Refuse_KeepsApplied(w) ==
    /\ work[w].pc = "apply"
    /\ \E p \in work[w].todo : ~Fits(w, p)
    /\ decision' = [p \in Proposals |-> IF p \in work[w].batch \ work[w].todo
                                        THEN [decision[p] EXCEPT !.by = work[w].n]
                                        ELSE decision[p]]
    /\ Become(w, Answered(w, TRUE))
    /\ UNCHANGED <<state, tasks, accepted, outcomes, eligible, begun, edits, crashes>>

\* The policy raises: the transaction and its callbacks are gone.
Refuse(w) ==
    /\ work[w].pc = "apply"
    /\ \E p \in work[w].todo : ~Fits(w, p)
    /\ Become(w, Answered(w, TRUE))
    /\ UNCHANGED <<rows, eligible, begun, edits, crashes>>

Plans_OfNobody(ps, to) == {}

\* create_acceptance_plan registers one plan for each state change to accepted.
Plans(ps, to) == IF to = "accepted"
                 THEN UNION { {p} \X Speakers[p] : p \in ps } ELSE {}

Commit(w) ==
    LET calls == work[w].calls
        to == Wanted(work[w].status)
    IN
    /\ work[w].pc = "apply" /\ work[w].todo = {}
    /\ decision' = [p \in Proposals |-> IF p \in work[w].batch
                                        THEN [decision[p] EXCEPT !.by = work[w].n]
                                        ELSE decision[p]]
    /\ state' = [p \in Proposals |-> IF p \in calls THEN to ELSE state[p]]
    /\ accepted' = IF to = "accepted" THEN accepted \cup calls ELSE accepted
    /\ outcomes' = outcomes \cup { <<p, work[w].status, work[w].n>> : p \in calls }
    /\ Become(w, [Answered(w, FALSE) EXCEPT !.pc = "plan", !.owed = Plans(calls, to)])
    /\ UNCHANGED <<tasks, eligible, begun, edits, crashes>>

-----------------------------------------------------------------------------
(* After the commit: ensure_acceptance_plan, one speaker after another,    *)
(* outside of any transaction; then the request is answered.               *)

CreateTasks(w) ==
    \E pair \in work[w].owed :
        /\ work[w].pc = "plan"
        /\ tasks' = tasks \cup {pair}
        /\ Become(w, [work[w] EXCEPT !.owed = @ \ {pair}])
        /\ UNCHANGED <<state, decision, accepted, outcomes, eligible, begun, edits, crashes>>

Answer(w) ==
    /\ work[w].pc = "plan" /\ work[w].owed = {}
    /\ Become(w, Answered(w, FALSE))
    /\ UNCHANGED <<rows, eligible, begun, edits, crashes>>

-----------------------------------------------------------------------------
(* pretalx: an organiser or speaker moves a proposal, a speaker edits its  *)
(* answers.                                                                *)

NativeMoves ==
    { <<"submitted", "accepted">>, <<"rejected", "accepted">>,
      <<"accepted", "confirmed">>, <<"submitted", "rejected">>,
      <<"accepted", "rejected">> }

Native(w) ==
    \E p \in Proposals, to \in States :
        /\ work[w].pc \in {"idle", "answered"} /\ begun < MaxRequests
        /\ <<state[p], to>> \in NativeMoves /\ ~Locked(p)
        /\ begun' = begun + 1
        /\ state' = [state EXCEPT ![p] = to]
        /\ accepted' = IF to = "accepted" THEN accepted \cup {p} ELSE accepted
        /\ Become(w, [Idle EXCEPT !.pc = "plan", !.owed = Plans({p}, to)])
        /\ UNCHANGED <<decision, tasks, outcomes, eligible, edits, crashes>>

EditAnswers ==
    /\ edits < MaxEdits
    /\ edits' = edits + 1
    /\ \E p \in Proposals : eligible' = [eligible EXCEPT ![p] = ~@]
    /\ UNCHANGED <<rows, work, begun, crashes>>

\* The process of a worker dies: an open transaction is rolled back and the
\* callbacks that have not run are lost.
Crash(w) ==
    /\ crashes < MaxCrashes
    /\ work[w].pc \in {"stage", "apply", "plan"}
    /\ crashes' = crashes + 1
    /\ Become(w, Idle)
    /\ UNCHANGED <<rows, eligible, begun, edits>>

Init ==
    /\ state = [p \in Proposals |-> "submitted"]
    /\ eligible = [p \in Proposals |-> TRUE]
    /\ decision = [p \in Proposals |-> Undecided]
    /\ tasks = {} /\ accepted = {} /\ outcomes = {}
    /\ work = [w \in Workers |-> Idle]
    /\ begun = 0 /\ edits = 0 /\ crashes = 0

Serve(w) == Stage(w) \/ Apply(w) \/ Refuse(w) \/ Commit(w) \/ CreateTasks(w) \/ Answer(w)

Next ==
    \/ \E w \in Workers : \/ BeginStage(w) \/ BeginRelease(w) \/ BeginFinalize(w)
                          \/ Native(w) \/ Serve(w) \/ Crash(w)
    \/ EditAnswers

Spec     == Init /\ [][Next]_vars
\* The server runs the code of a request it has begun.
FairSpec == Spec /\ \A w \in Workers : WF_vars(Serve(w))

-----------------------------------------------------------------------------
Requests    == 0..MaxRequests
Pairs       == UNION { {p} \X Speakers[p] : p \in Proposals }
DecisionRow == [ status : Statuses \cup {"none"}, wave : Waves \cup {NoWave},
                 by : Requests ]
WorkRow     == [ pc : {"idle", "stage", "apply", "plan", "answered"}, n : Requests,
                 proposal : Proposals \cup {NoProposal},
                 status : Statuses \cup {"none"}, wave : Waves \cup {NoWave},
                 batch : SUBSET Proposals, todo : SUBSET Proposals,
                 calls : SUBSET Proposals, owed : SUBSET Pairs, failed : BOOLEAN ]

TypeOK ==
    /\ state \in [Proposals -> States]
    /\ eligible \in [Proposals -> BOOLEAN]
    /\ decision \in [Proposals -> DecisionRow]
    /\ tasks \subseteq Pairs
    /\ accepted \subseteq Proposals
    /\ outcomes \subseteq Proposals \X {"accept", "reject"} \X (1..MaxRequests)
    /\ work \in [Workers -> WorkRow]
    /\ begun \in Requests /\ edits \in 0..MaxEdits /\ crashes \in 0..MaxCrashes

\* A proposal hears one outcome of the program decisions, once: neither a
\* second release nor a decision that is staged again while a release runs
\* applies it another time.
OneOutcome == \A o, q \in outcomes : o[1] = q[1] => o = q

\* What the chair reads is what happened ("Released n staged acceptances and
\* queued the native speaker notifications", or an error): a release that is
\* refused half way has applied nothing and told nobody.
AnswersTellTheTruth ==
    \A w \in Workers : work[w].pc = "answered" =>
        /\ { o[1] : o \in { x \in outcomes : x[3] = work[w].n } } =
              IF work[w].failed THEN {} ELSE work[w].calls
        /\ work[w].failed => \A p \in Proposals : decision[p].by # work[w].n

\* Onboarding work exists only for proposals whose acceptance was committed
\* (docs/decisions/002: "without surviving a rolled-back acceptance").
PlansAreEarned == \A pair \in tasks : pair[1] \in accepted

\* Every accepted proposal gets the plan of each of its speakers, unless a
\* process dies.
Planned(p) == {p} \X Speakers[p] \subseteq tasks

PlansArrive == \A p \in Proposals : state[p] = "accepted" ~> (Planned(p) \/ crashes > 0)
=============================================================================
