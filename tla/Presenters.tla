------------------------------ MODULE Presenters ------------------------------
(***************************************************************************)
(* A proposal's presenters and their roles (receivers.py, the presenters   *)
(* page of views.py, presenter_roles.py), the deadlines that lock it       *)
(* (cfp_lock.py) and their receivers.                                      *)
(*                                                                         *)
(* Requests are transactions that read when they begin and write when they *)
(* commit.  Only the presenters page locks the proposal, and only against  *)
(* itself.                                                                 *)
(***************************************************************************)
EXTENDS Naturals, FiniteSets

CONSTANTS
    People,       \* users, by primary key
    Types,        \* submission types; the proposal is of one of them
    LastDay,      \* days are 1..LastDay, 0 stands for no deadline
    Workers, MaxRequests

PresentersAssumption ==
    /\ People \subseteq Nat /\ IsFiniteSet(People) /\ People # {}
    /\ LastDay \in Nat /\ MaxRequests \in Nat

VARIABLES
    today,
    cfp,          \* CfP.deadline
    formats,      \* SubmissionType.deadline
    type,         \* the proposal's submission type
    state,        \* the proposal's state
    invited,      \* people with an invitation to the proposal
    speakers,     \* Submission.speakers
    roles,        \* SubmissionPresenterRole rows: a role by speaker
    workers, requests,
    own,          \* history: formats given a deadline of their own
    crossed       \* history: "deadline" or "roles" when the last write of the
                  \* kind was made from a reading that was out of date

deadlines == <<today, cfp, formats, own>>
proposal  == <<type, state, invited, speakers, roles>>
vars == <<deadlines, proposal, workers, requests, crossed>>

-----------------------------------------------------------------------------
Idle == [pc |-> "idle"]
None == 0
Primary     == "primary_author"
CoPresenter == "co_presenter"
RoleChoices == {Primary, "co_author", CoPresenter}
Lowest(S)   == CHOOSE p \in S : \A q \in S : p <= q
Primaries(r) == {p \in DOMAIN r : r[p] = Primary}
Without(r, S) == [p \in DOMAIN r \ S |-> r[p]]
With(r, p)    == [q \in DOMAIN r \cup {p} |-> IF q \in DOMAIN r THEN r[q] ELSE CoPresenter]

\* proposal_mutations_open
Open == LET deadline == IF formats[type] # None THEN formats[type] ELSE cfp
        IN deadline = None \/ today <= deadline

\* The row that the receiver promotes, if no row it sees is the primary's.
Promoted(r) == IF Primaries(r) = {} /\ DOMAIN r # {} THEN {Lowest(DOMAIN r)} ELSE {}

Become(w, q) == workers' = [workers EXCEPT ![w] = q]
Begin(w, q) ==
    /\ workers[w] = Idle /\ requests < MaxRequests
    /\ requests' = requests + 1
    /\ Become(w, q)
    /\ UNCHANGED <<deadlines, proposal, crossed>>
Commit(w, pc) ==
    /\ workers[w].pc = pc
    /\ Become(w, Idle)
    /\ UNCHANGED requests

-----------------------------------------------------------------------------
(* Deadlines.                                                              *)

\* remember_shared_cfp_deadline reads the stored deadline before the save ...
BeginDeadline(w, d) == Begin(w, [pc |-> "deadline", previous |-> cfp, deadline |-> d])

\* Mutant: every format follows, whatever its deadline was.
Followers_All(previous) == Types

Followers(previous) == {t \in Types : formats[t] = previous}

\* ... and synchronize_shared_cfp_deadline moves the formats that had it.  A
\* deadline of its own that the shared one comes to meet is not told apart any more.
CommitDeadline(w) ==
    /\ Commit(w, "deadline")
    /\ LET old == workers[w].previous
           new == workers[w].deadline
       IN /\ cfp' = new
          /\ formats' = [t \in Types |->
                 IF old # new /\ t \in Followers(old) THEN new ELSE formats[t]]
          /\ own' = {x \in own : x[2] # new}
          /\ crossed' = IF cfp # old THEN crossed \cup {"deadline"} ELSE crossed
    /\ UNCHANGED <<today, proposal>>

\* pretalx: a format gets a deadline of its own, or the shared one again.
SetFormat(t, d) ==
    /\ requests < MaxRequests
    /\ formats' = [formats EXCEPT ![t] = d]
    /\ own' = {x \in own : x[1] # t} \cup IF d = cfp THEN {} ELSE {<<t, d>>}
    /\ requests' = requests + 1
    /\ UNCHANGED <<today, cfp, proposal, workers, crossed>>

NextDay ==
    /\ today < LastDay
    /\ today' = today + 1
    /\ UNCHANGED <<cfp, formats, own, proposal, workers, requests, crossed>>

-----------------------------------------------------------------------------
(* The proposal.  Speakers' own requests are refused after the deadline.   *)

\* SubmissionInviteView, SubmissionsWithdrawView, SubmissionDraftDiscardView, and
\* pretalx's own final submission of a draft.
BeginOwn(w, p, pc) ==
    /\ p \in speakers /\ Open
    /\ pc \in {"submit", "discard"} => state = "draft"
    /\ pc = "withdraw" => state = "submitted"
    /\ \E q \in People : Begin(w, [pc |-> pc, guest |-> IF pc = "invite" THEN q ELSE p])

CommitInvite(w) ==
    /\ Commit(w, "invite")
    /\ invited' = invited \cup {workers[w].guest}
    /\ UNCHANGED <<deadlines, type, state, speakers, roles, crossed>>

CommitState(w) ==
    /\ \/ Commit(w, "submit")   /\ state' = "submitted"
       \/ Commit(w, "withdraw") /\ state' = "withdrawn"
       \/ Commit(w, "discard") /\ state' = "deleted"
    /\ UNCHANGED <<deadlines, type, invited, speakers, roles, crossed>>

\* SubmissionInviteAcceptView, or an organiser, adds a presenter: post_add.
BeginAdd(w, p, organiser) ==
    /\ p \notin speakers
    /\ organiser \/ (p \in invited /\ Open)
    /\ Begin(w, [pc |-> "add", person |-> p, read |-> roles])

CommitAdd(w) ==
    /\ Commit(w, "add")
    /\ LET p    == workers[w].person
           seen == With(workers[w].read, p)
           next == With(roles, p)
           done == [q \in DOMAIN next |-> IF q \in Promoted(seen) THEN Primary ELSE next[q]]
       IN IF Promoted(seen) \subseteq DOMAIN next /\ Cardinality(Primaries(done)) <= 1
          THEN /\ speakers' = speakers \cup {p}
               /\ roles' = done
               /\ crossed' = IF roles = workers[w].read
                             THEN crossed \ {"roles"} ELSE crossed \cup {"roles"}
          ELSE UNCHANGED <<speakers, roles, crossed>>
    /\ UNCHANGED <<deadlines, type, state, invited>>

\* pretalx removes a presenter: post_remove.
BeginRemove(w, p) ==
    /\ p \in speakers
    /\ Begin(w, [pc |-> "remove", person |-> p, read |-> roles])

\* Mutant: the role of the presenter who left is deleted, and that is all.
CommitRemove_NoHeir(w) ==
    /\ Commit(w, "remove")
    /\ speakers' = speakers \ {workers[w].person}
    /\ roles' = Without(roles, {workers[w].person})
    /\ crossed' = IF roles = workers[w].read
                  THEN crossed \ {"roles"} ELSE crossed \cup {"roles"}
    /\ UNCHANGED <<deadlines, type, state, invited>>

CommitRemove(w) ==
    /\ Commit(w, "remove")
    /\ LET p    == workers[w].person
           heir == Promoted(Without(workers[w].read, {p}))
           next == Without(roles, {p})
           done == [q \in DOMAIN next |-> IF q \in heir THEN Primary ELSE next[q]]
       IN IF heir \subseteq DOMAIN next /\ Cardinality(Primaries(done)) <= 1
          THEN /\ speakers' = speakers \ {p}
               /\ roles' = done
               /\ crossed' = IF roles = workers[w].read
                             THEN crossed \ {"roles"} ELSE crossed \cup {"roles"}
          ELSE UNCHANGED <<speakers, roles, crossed>>
    /\ UNCHANGED <<deadlines, type, state, invited>>

\* post_clear
Clear ==
    /\ requests < MaxRequests
    /\ requests' = requests + 1
    /\ speakers' = {} /\ roles' = <<>>
    /\ UNCHANGED <<deadlines, type, state, invited, workers, crossed>>

\* The presenters page: a role for everyone attached, one of them primary.
BeginRoles(w, p) ==
    /\ p \in speakers /\ Open
    /\ \A v \in Workers : workers[v].pc # "roles"
    /\ \E selected \in [speakers -> RoleChoices] :
        /\ Cardinality(Primaries(selected)) = 1
        /\ Begin(w, [pc |-> "roles", selected |-> selected])

\* The model's clean() refuses a role for someone who is not attached any more.
CommitRoles(w) ==
    /\ Commit(w, "roles")
    /\ LET selected == workers[w].selected IN
       IF DOMAIN selected \subseteq speakers
       THEN /\ roles' = [q \in DOMAIN roles |->
                  IF q \in DOMAIN selected THEN selected[q]
                  ELSE IF roles[q] = Primary THEN CoPresenter ELSE roles[q]]
            /\ crossed' = crossed \ {"roles"}
       ELSE UNCHANGED <<roles, crossed>>
    /\ UNCHANGED <<deadlines, type, state, invited, speakers>>

\* presenter_rows: what pages and reviews show of a presenter.
Label(p) == IF p \in DOMAIN roles THEN roles[p] ELSE "Presenter"

-----------------------------------------------------------------------------
Init ==
    /\ today = 1 /\ cfp = 1
    /\ formats = [t \in Types |-> cfp]
    /\ type \in Types
    /\ state = "draft"
    /\ invited = {}
    /\ speakers = {Lowest(People)}
    /\ roles = [p \in speakers |-> Primary]
    /\ workers = [w \in Workers |-> Idle]
    /\ requests = 0
    /\ own = {} /\ crossed = {}

Next ==
    \/ \E w \in Workers :
        \/ \E d \in 0..LastDay : BeginDeadline(w, d)
        \/ \E p \in People :
            \/ \E pc \in {"invite", "submit", "withdraw", "discard"} : BeginOwn(w, p, pc)
            \/ \E organiser \in BOOLEAN : BeginAdd(w, p, organiser)
            \/ BeginRemove(w, p) \/ BeginRoles(w, p)
        \/ CommitDeadline(w) \/ CommitInvite(w) \/ CommitState(w)
        \/ CommitAdd(w) \/ CommitRemove(w) \/ CommitRoles(w)
    \/ \E t \in Types, d \in 0..LastDay : SetFormat(t, d)
    \/ Clear \/ NextDay

Spec == Init /\ [][Next]_vars

-----------------------------------------------------------------------------
\* Roles belong to the attached presenters, at most one of them is the primary
\* author, and one is - unless the last change was made beside another, which
\* saw the primary author who was leaving.
OnePrimaryAuthor ==
    /\ DOMAIN roles = speakers
    /\ Cardinality({p \in speakers : Label(p) = Primary}) <= 1
    /\ "roles" \notin crossed /\ speakers # {} =>
         \E p \in speakers : Label(p) = Primary

\* A format without a deadline of its own closes with the call for papers, and a
\* deadline of its own survives every change of the shared one: no format is left
\* behind and no override is lost, unless two changes of the shared deadline
\* overlapped.
FormatsFollow ==
    "deadline" \notin crossed =>
        /\ \A x \in own : formats[x[1]] = x[2]
        /\ \A t \in Types : formats[t] = cfp \/ <<t, formats[t]>> \in own
=============================================================================
