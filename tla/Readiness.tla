------------------------------ MODULE Readiness ------------------------------
(***************************************************************************)
(* What an event's people are told: the dashboard and its lists (views.py),*)
(* the checklist, the content page and its bundle of files                 *)
(* (content_ops.py), and the assistant's answers (buzz_reads.py and        *)
(* integrations/buzz).                                                     *)
(*                                                                         *)
(* Each answer is a query of its own over the same rows.  The rows change  *)
(* by the operations of the other modules, here one atomic step each: how  *)
(* they interleave is checked there, what is told of their outcome here.   *)
(***************************************************************************)
EXTENDS Naturals, FiniteSets, Sequences

CONSTANTS
    Proposals,
    Spoken,        \* those with a speaker, one each
    Seeded,        \* those with a synchronized session item: only the seed
                   \* makes such items, a preview has speakers only
    Requests,      \* task definitions
    Planned,       \* those of the acceptance plan; an organiser adds the others
    Uploads,       \* those whose evidence is a file
    Starts,        \* times of one room
    Moderated,     \* a bound: the proposals whose publication is decided on
    MaxVersions, MaxRuns, MaxSetbacks    \* bounds

ReadinessAssumption ==
    /\ IsFiniteSet(Proposals) /\ Spoken \subseteq Proposals /\ Seeded \subseteq Spoken
    /\ Moderated \subseteq Proposals
    /\ IsFiniteSet(Requests) /\ Uploads \subseteq Requests /\ Planned \subseteq Requests
    /\ Requests \ Planned \subseteq Uploads
    /\ Starts \subseteq Nat \ {0}
    /\ {MaxVersions, MaxRuns, MaxSetbacks} \subseteq Nat

VARIABLES
    state,      \* the submission's state
    reviewed,   \* proposals with a review
    decided,    \* proposals with a ProgramDecision
    tasks,      \* OnboardingTask.status, "none" without a task
    evidence,   \* the review status of every version of a file
    approval,   \* the SessionPublicationApproval, "none" without one
    wip,        \* the start in the working schedule, 0 if unplaced
    current,    \* proposals with a start in the released schedule
    items,      \* the sync items of a proposal's speaker, a run each
    past,       \* the due dates have passed
    stranded,   \* an outbox row that was not dispatched
    setbacks    \* steps back so far

program  == <<state, reviewed, decided>>
work     == <<tasks, evidence, approval>>
schedule == <<wip, current>>
outside  == <<items, past>>
vars     == <<program, work, schedule, outside, stranded, setbacks>>

-----------------------------------------------------------------------------
Duties    == Spoken \X Requests
Files    == Spoken \X Uploads
Accepted == {"accepted", "confirmed"}
Active   == {"pending", "reopened"}
Done     == {"complete", "waived"}
Latest(f) == evidence[f][Len(evidence[f])]
HasFile(f) == evidence[f] # <<>>

Forward == UNCHANGED setbacks
Setback == setbacks < MaxSetbacks /\ setbacks' = setbacks + 1

-----------------------------------------------------------------------------
(* The operations.                                                         *)

Become(p, from, to) ==
    /\ state[p] \in from
    /\ state' = [state EXCEPT ![p] = to]

Submit(p) ==
    /\ Become(p, {"draft"}, "submitted") /\ Forward
    /\ UNCHANGED <<reviewed, decided, work, schedule, outside, stranded>>

Review(p) ==
    /\ state[p] \in {"submitted", "accepted"}
    /\ reviewed' = reviewed \cup {p} /\ Forward
    /\ UNCHANGED <<state, decided, work, schedule, outside, stranded>>

Stage(p) ==
    /\ state[p] \in {"submitted", "accepted"}
    /\ decided' = decided \cup {p} /\ Forward
    /\ UNCHANGED <<state, reviewed, work, schedule, outside, stranded>>

\* By a wave or by pretalx itself; the plan is made with it.
Accept(p) ==
    /\ Become(p, {"submitted"}, "accepted") /\ Forward
    /\ tasks' = [t \in Duties |-> IF t \in {p} \X Planned THEN "pending" ELSE tasks[t]]
    /\ UNCHANGED <<reviewed, decided, evidence, approval, schedule, outside, stranded>>

Confirm(p) ==
    /\ Become(p, {"accepted"}, "confirmed") /\ Forward
    /\ UNCHANGED <<reviewed, decided, work, schedule, outside, stranded>>

\* A rejection or a withdrawal; pretalx empties the slot of the working schedule.
Leave(p) ==
    /\ \/ Become(p, {"submitted"}, "rejected")
       \/ Become(p, Accepted, "withdrawn")
    /\ Setback
    /\ wip' = [wip EXCEPT ![p] = 0]
    /\ UNCHANGED <<reviewed, decided, work, current, outside, stranded>>

Complete(t) ==
    /\ tasks[t] \in Active
    /\ t \in Files => Len(evidence[t]) < MaxVersions
    /\ tasks' = [tasks EXCEPT ![t] = "complete"]
    /\ evidence' = IF t \in Files THEN [evidence EXCEPT ![t] = Append(@, "pending")]
                   ELSE evidence
    /\ \/ Forward /\ UNCHANGED stranded
       \/ Setback /\ stranded' = TRUE    \* the process dies before the dispatch
    /\ UNCHANGED <<program, approval, schedule, outside>>

\* CreateFileRequestView: of the speakers of accepted sessions only.
RequestFile(f) ==
    /\ state[f[1]] \in Accepted
    /\ f[2] \notin Planned /\ tasks[f] = "none"
    /\ tasks' = [tasks EXCEPT ![f] = "pending"] /\ Forward
    /\ UNCHANGED <<program, evidence, approval, schedule, outside, stranded>>

\* A completed task takes another version and stays completed.
Replace(f) ==
    /\ tasks[f] = "complete" /\ Len(evidence[f]) < MaxVersions
    /\ evidence' = [evidence EXCEPT ![f] = Append(@, "pending")]
    /\ Setback
    /\ UNCHANGED <<program, tasks, approval, schedule, outside, stranded>>

\* Any version may be reviewed, and again.
ApproveFile(f, n) ==
    /\ evidence' = [evidence EXCEPT ![f][n] = "approved"] /\ Forward
    /\ UNCHANGED <<program, tasks, approval, schedule, outside, stranded>>

RequestChanges(f, n) ==
    /\ evidence' = [evidence EXCEPT ![f][n] = "changes_requested"]
    /\ tasks' = [tasks EXCEPT ![f] = IF @ = "complete" THEN "reopened" ELSE @]
    /\ Setback
    /\ UNCHANGED <<program, approval, schedule, outside, stranded>>

Reopen(t) ==
    /\ tasks[t] = "complete"
    /\ tasks' = [tasks EXCEPT ![t] = "reopened"] /\ Setback
    /\ UNCHANGED <<program, evidence, approval, schedule, outside, stranded>>

Waive(t) ==
    /\ tasks[t] \in Active \cup {"complete"}
    /\ tasks' = [tasks EXCEPT ![t] = "waived"] /\ Setback
    /\ UNCHANGED <<program, evidence, approval, schedule, outside, stranded>>

Approve(p, status) ==
    /\ approval' = [approval EXCEPT ![p] = status]
    /\ IF status = "approved" THEN Forward ELSE Setback
    /\ UNCHANGED <<program, tasks, evidence, schedule, outside, stranded>>

Place(p, start) ==
    /\ state[p] \in Accepted
    /\ wip' = [wip EXCEPT ![p] = start] /\ Forward
    /\ UNCHANGED <<program, work, current, outside, stranded>>

\* The working schedule's conflicts: two sessions at one time in the room.
Warnings ==
    {c \in SUBSET {p \in Proposals : state[p] \in Accepted /\ wip[p] # 0} :
        Cardinality(c) = 2 /\ \A p, q \in c : wip[p] = wip[q]}

Release ==
    /\ Warnings = {}
    /\ current' = {p \in Proposals : wip[p] # 0} /\ Forward
    /\ UNCHANGED <<program, work, wip, outside, stranded>>

\* A run has an item for each speaker of an accepted proposal, not of a
\* confirmed one.
Sync(failing) ==
    LET sent == {p \in Spoken : state[p] = "accepted"} IN
    /\ sent # {} /\ failing \subseteq sent
    /\ \A p \in sent : Len(items[p]) < MaxRuns
    /\ items' = [p \in Proposals |->
                    IF p \in sent
                    THEN Append(items[p], IF p \in failing THEN "failed" ELSE "succeeded")
                    ELSE items[p]]
    /\ IF failing = {} THEN Forward ELSE Setback
    /\ UNCHANGED <<program, work, schedule, past, stranded>>

\* latest_failed_sync_items: no newer item of the same record.
LatestFailed ==
    {p \in Proposals : items[p] # <<>> /\ items[p][Len(items[p])] = "failed"}

Retry(p) ==
    /\ p \in LatestFailed
    /\ items' = [items EXCEPT ![p][Len(items[p])] = "succeeded"] /\ Forward
    /\ UNCHANGED <<program, work, schedule, past, stranded>>

DueDate ==
    /\ ~past /\ past' = TRUE /\ Setback
    /\ UNCHANGED <<program, work, schedule, items, stranded>>

-----------------------------------------------------------------------------
(* The dashboard and its lists.                                            *)

Submitted == {p \in Proposals : state[p] # "draft"}
Undecided == {p \in Proposals : state[p] = "submitted"}
Open      == {t \in Duties : tasks[t] \in Active}
Overdue   == IF past THEN Open ELSE {}
Missing   == Open \cap Files
Withheld  == {p \in Proposals : approval[p] \in {"pending", "changes_requested"}}
Unread    == UNION {{<<f, n>> : n \in {i \in DOMAIN evidence[f] : evidence[f][i] = "pending"}}
                    : f \in Files}
EverFailed == {p \in Proposals : \E i \in DOMAIN items[p] : items[p][i] = "failed"}

\* A session in the released schedule counts, whether a page shows it or not.
LifecycleIds ==
    [ submitted    |-> Submitted,
      reviewed     |-> reviewed \cap Submitted,
      decided      |-> decided,
      onboarded    |-> {p \in Proposals :
                          /\ \E t \in Duties : t[1] = p /\ tasks[t] # "none"
                          /\ \A t \in Duties : t[1] = p => tasks[t] \in Done \cup {"none"}},
      scheduled    |-> {p \in Proposals : wip[p] # 0},
      published    |-> current,
      synchronized |-> Seeded ]

Lifecycle ==
    [stage \in DOMAIN LifecycleIds |->
        [count |-> Cardinality(LifecycleIds[stage]),
         denominator |-> Cardinality(LifecycleIds.submitted)]]

\* The first rows of the dashboard, each with the record it is about.
AttentionItems ==
    {<<"conflicts", c>> : c \in Warnings}
        \cup {<<"overdue", t>> : t \in Overdue}
        \cup {<<"sync", p>> : p \in EverFailed}
        \cup {<<"undecided", p>> : p \in LifecycleIds.reviewed \ LifecycleIds.decided}

Counts ==
    [ tasks           |-> Cardinality(Open),
      undecided       |-> Cardinality(Undecided),
      conflicts       |-> Cardinality(Warnings),
      missing_assets  |-> Cardinality(Missing),
      pending_content |-> Cardinality(Unread),
      due_reminders   |-> Cardinality(Overdue) ]

\* The list behind a number of the dashboard.
Drilldown(kind) ==
    CASE kind = "tasks"          -> Open
      [] kind = "content"        -> {f \in Files : HasFile(f)}
      [] kind = "undecided"      -> Undecided
      [] kind = "reviewed"       -> reviewed
      [] kind = "missing-assets" -> Missing
      [] kind = "conflicts"      -> Warnings
      [] kind = "sync"           -> EverFailed
      [] OTHER                   -> LifecycleIds[kind]

-----------------------------------------------------------------------------
(* Speakers: the checklist, and what the assistant tells them.             *)

Checklist(p) ==
    LET own == {t \in Duties : t[1] = p /\ tasks[t] # "none"} IN
    [ pending |-> {t \in own : tasks[t] \notin Done},
      total   |-> Cardinality(own),
      done    |-> Cardinality({t \in own : tasks[t] \in Done}) ]

NextActions(p) == {t \in Duties : t[1] = p /\ tasks[t] \in Active}

\* The people to nudge today, each with the tasks that are overdue.
Nudges ==
    [p \in {t[1] : t \in Overdue} |-> {t \in Overdue : t[1] = p}]

-----------------------------------------------------------------------------
(* Files: the content page, its bundle and the assistant's classification. *)

\* Mutant: any approved version counts, not the latest.
FileState_AnyVersion(f) ==
    IF ~HasFile(f) THEN "missing"
    ELSE IF \E n \in DOMAIN evidence[f] : evidence[f][n] = "approved" THEN "approved"
    ELSE Latest(f)

\* An approved version before a latest one that is not approved is stale.
FileState(f) ==
    IF ~HasFile(f) THEN "missing"
    ELSE IF Latest(f) = "approved" THEN "approved"
    ELSE IF \E n \in 1..(Len(evidence[f]) - 1) : evidence[f][n] = "approved" THEN "stale"
    ELSE Latest(f)

Blockers(p) == {f \in Files : f[1] = p /\ tasks[f] # "none" /\ FileState(f) # "approved"}

\* A session has a row if it has a request or an approval.
Sessions ==
    {p \in Proposals : approval[p] # "none" \/ \E f \in Files : f[1] = p /\ tasks[f] # "none"}

ContentReady(p) == p \notin Withheld /\ Blockers(p) = {}

\* The rows of the content page under a filter.
ContentRows(status) ==
    {f \in Files : tasks[f] # "none" /\
        CASE status = "missing" -> ~HasFile(f)
          [] status = ""        -> TRUE
          [] OTHER              -> HasFile(f) /\ Latest(f) = status}

\* The bundle has the latest version of every chosen file, reviewed or not.
Bundle(chosen) == {<<f, Len(evidence[f])>> : f \in {g \in chosen : HasFile(g)}}

-----------------------------------------------------------------------------
(* "Can we release?", "Why is Accelevents out of sync?", "Are we ready?"   *)

\* Mutant: the answer has no part for the synchronization.
ReleaseReasons_NoSync ==
    {r \in {"schedule_conflicts", "overdue_tasks", "undecided_proposals", "unapproved_content"} :
        CASE r = "schedule_conflicts"  -> Warnings # {}
          [] r = "overdue_tasks"       -> Overdue # {}
          [] r = "undecided_proposals" -> Undecided # {}
          [] OTHER -> \E p \in Proposals : approval[p] = "pending"}

\* Requested changes do not hold a release, failures of old runs do.
ReleaseReasons ==
    {r \in {"schedule_conflicts", "overdue_tasks", "undecided_proposals",
            "unapproved_content", "sync_errors"} :
        CASE r = "schedule_conflicts"  -> Warnings # {}
          [] r = "overdue_tasks"       -> Overdue # {}
          [] r = "undecided_proposals" -> Undecided # {}
          [] r = "sync_errors"         -> EverFailed # {}
          [] OTHER -> \E p \in Proposals : approval[p] = "pending"}

RecoveryItems == LatestFailed

ExecutiveIds == LifecycleIds
FunnelComplete ==
    /\ ExecutiveIds.submitted # {}
    /\ \A stage \in DOMAIN ExecutiveIds :
        Cardinality(ExecutiveIds[stage]) >= Cardinality(ExecutiveIds.submitted)

Risks ==
    {r \in {"schedule_conflicts", "overdue_tasks", "missing_assets", "unapproved_content",
            "pending_evidence_review", "undecided_proposals", "sync_failures", "outbox_backlog"} :
        CASE r = "schedule_conflicts"      -> Warnings # {}
          [] r = "overdue_tasks"           -> Overdue # {}
          [] r = "missing_assets"          -> Missing # {}
          [] r = "unapproved_content"      -> Withheld # {}
          [] r = "pending_evidence_review" -> Unread # {}
          [] r = "undecided_proposals"     -> Undecided # {}
          [] r = "sync_failures"           -> EverFailed # {}
          [] OTHER                         -> stranded}

Verdict ==
    IF FunnelComplete /\ Risks = {} THEN "ready"
    ELSE IF Submitted # {} \/ Risks # {} THEN "not_ready"
    ELSE "insufficient_evidence"

\* The public status: done and all tasks, and whether the outbox is behind.
Status ==
    [ total   |-> Cardinality({t \in Duties : tasks[t] # "none"}),
      done    |-> Cardinality({t \in Duties : tasks[t] \in Done}),
      backlog |-> stranded ]

-----------------------------------------------------------------------------
\* The seed's program starts accepted and published nowhere.
Init ==
    /\ state = [p \in Proposals |-> IF p \in Seeded THEN "accepted" ELSE "draft"]
    /\ reviewed = {} /\ decided = {}
    /\ tasks = [t \in Duties |-> IF t \in Seeded \X Planned THEN "pending" ELSE "none"]
    /\ evidence = [f \in Files |-> <<>>]
    /\ approval = [p \in Proposals |-> "none"]
    /\ wip = [p \in Proposals |-> 0]
    /\ current = {}
    /\ items = [p \in Proposals |-> <<>>]
    /\ past = FALSE /\ stranded = FALSE
    /\ setbacks = 0

Next ==
    \/ \E p \in Proposals :
        \/ Submit(p) \/ Review(p) \/ Stage(p) \/ Accept(p) \/ Confirm(p) \/ Leave(p) \/ Retry(p)
        \/ \E start \in Starts : Place(p, start)
    \/ \E p \in Moderated, status \in {"pending", "approved", "changes_requested"} : Approve(p, status)
    \/ \E t \in Duties : Complete(t) \/ Reopen(t) \/ Waive(t)
    \/ \E f \in Files :
        \/ RequestFile(f) \/ Replace(f)
        \/ \E n \in DOMAIN evidence[f] : ApproveFile(f, n) \/ RequestChanges(f, n)
    \/ Release
    \/ \E failing \in SUBSET Proposals : Sync(failing)
    \/ DueDate

Spec == Init /\ [][Next]_vars

-----------------------------------------------------------------------------
\* The answers do not contradict each other, although each is a query of its
\* own.  Who is told "ready" finds no work on the dashboard, in the checklists
\* and in the content answer, waived files apart, and every proposal published;
\* who may release finds nothing to retry, to nudge or to decide.
AnswersAgree ==
    /\ Verdict = "ready" =>
        /\ ReleaseReasons = {} /\ AttentionItems = {}
        /\ Submitted \subseteq current
        /\ \A p \in Submitted : Checklist(p).pending = {} /\ Checklist(p).total = Checklist(p).done
        /\ \A p \in Sessions : p \notin Withheld /\ \A f \in Blockers(p) : tasks[f] = "waived"
        /\ Status.done = Status.total /\ ~Status.backlog
    /\ ReleaseReasons = {} =>
        /\ RecoveryItems = {} /\ DOMAIN Nudges = {}
        /\ \A kind \in {"conflicts", "undecided", "sync"} : Drilldown(kind) = {}
    /\ \A p \in Proposals : Checklist(p).pending = NextActions(p)
    /\ Counts.tasks = Cardinality(Drilldown("tasks"))

\* The content answer says that a session is ready: the bundle of its files has
\* versions that were approved, and nothing else.
BundleIsApproved ==
    \A p \in Sessions : ContentReady(p) =>
        \A v \in Bundle({f \in Files : f[1] = p}) :
            /\ evidence[v[1]][v[2]] = "approved"
            /\ v[1] \in ContentRows("approved")
=============================================================================
