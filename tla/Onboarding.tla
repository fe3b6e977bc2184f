----------------------------- MODULE Onboarding -----------------------------
(***************************************************************************)
(* Onboarding tasks after acceptance: the speaker's CompleteTaskView, the  *)
(* organiser's TaskAdminView and EvidenceAdminView (views.py), and below   *)
(* them record_evidence (onboarding/services.py), execute                  *)
(* (domain/commands.py) and TASK_MACHINE (domain/state.py).                *)
(*                                                                         *)
(* A worker serves one POST.  What it loads before it holds a lock is a    *)
(* step of its own; what a transaction reads under a lock or commits       *)
(* together is one step, the commit.  Workers interleave and die between   *)
(* any two steps; what was not committed is lost.                          *)
(***************************************************************************)
EXTENDS Naturals, Sequences

CONSTANTS
    Tasks, NoTask,    \* OnboardingTask rows
    UploadTasks,      \* the tasks whose evaluator is "upload"; the others,
                      \* "acknowledgement" and "profile_field", take a response
    Uploads,          \* upload_request_id of a rendered upload form
    Response,         \* what stands for it on a form that has none
    Reasons, NoReason,\* waiver reasons
    Workers,
    MaxRequests, MaxCrashes  \* bounds

ASSUME TasksAssumption ==
    /\ NoTask \notin Tasks /\ UploadTasks \subseteq Tasks
    /\ Response \notin Uploads /\ NoReason \notin Reasons
ASSUME LimitsAssumption == MaxRequests \in Nat /\ MaxCrashes \in Nat

VARIABLES
    tasks,     \* OnboardingTask rows: status and version
    reason,    \* their waiver_reason
    evidence,  \* TaskEvidence rows of each task; the position is the version
    receipts,  \* the keys of CommandReceipt rows
    log,       \* of each task, TransitionLog rows with their OutboxEvent row
    workers, begun, crashes

rows == <<tasks, reason, evidence, receipts, log>>
vars == <<rows, workers, begun, crashes>>

-----------------------------------------------------------------------------
Statuses  == {"pending", "complete", "reopened", "waived"}
Requests  == Uploads \cup {Response}
FormOf(t) == IF t \in UploadTasks THEN Uploads ELSE {Response}

\* TASK_MACHINE and StateMachine.validate: whom the machine lets move a task
\* from one status to another.
Allowed(from, to, actor) ==
    \/ actor = "speaker" /\ from \in {"pending", "reopened"} /\ to = "complete"
    \/ actor = "organiser" /\ from = "complete" /\ to = "reopened"
    \/ actor = "organiser" /\ from \in {"pending", "complete", "reopened"} /\ to = "waived"

Idle == [ pc |-> "idle", mode |-> "none", task |-> NoTask, request |-> Response,
          reason |-> NoReason, number |-> 0, logged |-> 0,
          seen |-> [status |-> "pending", version |-> 0] ]

Become(w, q) == workers' = [workers EXCEPT ![w] = q]
Goto(w, pc)  == Become(w, [workers[w] EXCEPT !.pc = pc])
Task(w)      == workers[w].task

\* The idempotency keys.  An organiser's carries the version that was loaded,
\* a requested change the evidence it is about.
CompleteKey(w) == <<"complete", Task(w), workers[w].request>>
AdminKey(w)    == <<workers[w].mode, Task(w), workers[w].seen.version>>
ChangesKey(w)  == <<"changes", Task(w), workers[w].number>>

-----------------------------------------------------------------------------
(* execute: a known key is a replay and changes nothing; otherwise the row *)
(* is locked, its version compared with the one that was loaded, and the   *)
(* transition validated.                                                   *)

Refused(w, key, to, actor) ==
    /\ key \notin receipts
    /\ \/ tasks[Task(w)].version # workers[w].seen.version
       \/ ~Allowed(tasks[Task(w)].status, to, actor)

Execute_LogsReplay(w, key, to) ==
    /\ log' = [log EXCEPT ![Task(w)] = Append(@,
                 [from |-> tasks[Task(w)].status, to |-> to, processed |-> FALSE])]
    /\ IF key \in receipts
       THEN UNCHANGED <<tasks, receipts>> /\ Goto(w, "answer")
       ELSE /\ tasks' = [tasks EXCEPT ![Task(w)] =
                           [status |-> to, version |-> @.version + 1]]
            /\ receipts' = receipts \cup {key}
            /\ Become(w, [workers[w] EXCEPT !.pc = "dispatch",
                                            !.logged = Len(log[Task(w)]) + 1])

\* What execute commits: status, version, log, outbox and receipt together.
Execute(w, key, to) ==
    IF key \in receipts
    THEN UNCHANGED <<tasks, receipts, log>> /\ Goto(w, "answer")
    ELSE /\ tasks' = [tasks EXCEPT ![Task(w)] =
                        [status |-> to, version |-> @.version + 1]]
         /\ log' = [log EXCEPT ![Task(w)] = Append(@,
                      [from |-> tasks[Task(w)].status, to |-> to, processed |-> FALSE])]
         /\ receipts' = receipts \cup {key}
         /\ Become(w, [workers[w] EXCEPT !.pc = "dispatch",
                                         !.logged = Len(log[Task(w)]) + 1])

\* on_commit: dispatch_outbox marks the outbox row.
Dispatch(w) ==
    /\ workers[w].pc = "dispatch"
    /\ log' = [log EXCEPT ![Task(w)][workers[w].logged].processed = TRUE]
    /\ Goto(w, "answer")
    /\ UNCHANGED <<tasks, reason, evidence, receipts, begun, crashes>>

\* The message and the redirect; an exception gives a plain 500 instead.
Answer(w) ==
    /\ workers[w].pc = "answer"
    /\ Become(w, Idle)
    /\ UNCHANGED <<rows, begun, crashes>>

Fail(w) == Become(w, Idle) /\ UNCHANGED rows

\* A worker takes a POST and loads the task without a lock.
Begin(w, q) ==
    /\ workers[w] = Idle
    /\ begun < MaxRequests
    /\ begun' = begun + 1
    /\ Become(w, q)
    /\ UNCHANGED <<rows, crashes>>

-----------------------------------------------------------------------------
(* CompleteTaskView.  The form of an upload may be sent again: the browser *)
(* or its Retry button posts the same upload_request_id.                   *)

BeginComplete(w) ==
    \E t \in Tasks : \E r \in FormOf(t) :
        Begin(w, [Idle EXCEPT !.pc = "check", !.mode = "complete", !.task = t,
                              !.request = r, !.seen = tasks[t]])

Check_Reserves(w) ==
    /\ workers[w].pc = "check"
    /\ Goto(w, IF CompleteKey(w) \in receipts THEN "replay" ELSE "record")
    /\ receipts' = receipts \cup {CompleteKey(w)}
    /\ UNCHANGED <<tasks, reason, evidence, log, begun, crashes>>

\* In the transaction: is there a receipt?  It is not locked.
Check(w) ==
    /\ workers[w].pc = "check"
    /\ Goto(w, IF CompleteKey(w) \in receipts THEN "replay" ELSE "record")
    /\ UNCHANGED <<rows, begun, crashes>>

\* record_evidence reads the latest version, again without a lock.
Record(w) ==
    /\ workers[w].pc = "record"
    /\ Become(w, [workers[w] EXCEPT !.pc = "commit",
                                    !.number = Len(evidence[Task(w)]) + 1])
    /\ UNCHANGED <<rows, begun, crashes>>

NewEvidence(w) ==
    [ request |-> workers[w].request,
      review |-> IF Task(w) \in UploadTasks THEN "pending" ELSE "approved" ]

\* The status that was loaded decides between completing the task and
\* replacing the file of a completed one.
Complete(w) ==
    IF workers[w].seen.status # "complete"
    THEN Execute(w, CompleteKey(w), "complete")
    ELSE /\ receipts' = receipts \cup {CompleteKey(w)}
         /\ Goto(w, "answer")
         /\ UNCHANGED <<tasks, log>>

CompleteRefused(w) ==
    workers[w].seen.status # "complete"
        /\ Refused(w, CompleteKey(w), "complete", "speaker")

\* The evidence and the completion are committed together, or neither is: a
\* version that another transaction took meanwhile violates a constraint.
CommitComplete(w) ==
    /\ workers[w].pc = "commit"
    /\ IF Len(evidence[Task(w)]) # workers[w].number - 1 \/ CompleteRefused(w)
       THEN Fail(w)
       ELSE /\ evidence' = [evidence EXCEPT ![Task(w)] = Append(@, NewEvidence(w))]
            /\ Complete(w)
            /\ UNCHANGED reason
    /\ UNCHANGED <<begun, crashes>>

\* The receipt was there: nothing is recorded, but the rest is done.
ReplayComplete(w) ==
    /\ workers[w].pc = "replay"
    /\ Complete(w)
    /\ UNCHANGED <<reason, evidence, begun, crashes>>

-----------------------------------------------------------------------------
(* TaskAdminView.                                                          *)

BeginReopen(w) ==
    \E t \in Tasks :
        Begin(w, [Idle EXCEPT !.pc = "execute", !.mode = "reopen", !.task = t,
                              !.seen = tasks[t]])

BeginWaive(w) ==
    \E t \in Tasks, x \in Reasons :
        Begin(w, [Idle EXCEPT !.pc = "reason", !.mode = "waive", !.task = t,
                              !.reason = x, !.seen = tasks[t]])

\* The reason is saved by a statement of its own, before the transition is
\* validated.
SaveReason(w) ==
    /\ workers[w].pc = "reason"
    /\ reason' = [reason EXCEPT ![Task(w)] = workers[w].reason]
    /\ Goto(w, "execute")
    /\ UNCHANGED <<tasks, evidence, receipts, log, begun, crashes>>

Target(w) == IF workers[w].mode = "waive" THEN "waived" ELSE "reopened"

ExecuteAdmin(w) ==
    /\ workers[w].pc = "execute"
    /\ IF Refused(w, AdminKey(w), Target(w), "organiser")
       THEN Fail(w)
       ELSE Execute(w, AdminKey(w), Target(w)) /\ UNCHANGED <<reason, evidence>>
    /\ UNCHANGED <<begun, crashes>>

-----------------------------------------------------------------------------
(* EvidenceAdminView: the row of the evidence is locked until the commit,  *)
(* the task is loaded under that lock but not locked itself.               *)

Reviewing(w, t, n) ==
    workers[w].pc = "review" /\ Task(w) = t /\ workers[w].number = n

BeginReview(w) ==
    \E t \in Tasks, mode \in {"approve", "changes"} : \E n \in 1..Len(evidence[t]) :
        /\ \A v \in Workers : ~Reviewing(v, t, n)
        /\ Begin(w, [Idle EXCEPT !.pc = "review", !.mode = mode, !.task = t,
                                 !.number = n, !.seen = tasks[t]])

Reviewed_ByAction(w) ==
    [evidence EXCEPT ![Task(w)][workers[w].number].review = workers[w].mode]

Reviewed(w) ==
    [evidence EXCEPT ![Task(w)][workers[w].number].review =
        IF workers[w].mode = "approve" THEN "approved" ELSE "changes_requested"]

\* Mutant: waived work is reopened, complete work is not.
Reopens_Waived(w) == workers[w].mode = "changes" /\ workers[w].seen.status = "waived"

Reopens(w) == workers[w].mode = "changes" /\ workers[w].seen.status = "complete"

CommitReview(w) ==
    /\ workers[w].pc = "review"
    /\ IF Reopens(w) /\ Refused(w, ChangesKey(w), "reopened", "organiser")
       THEN Fail(w)
       ELSE /\ evidence' = Reviewed(w)
            /\ IF Reopens(w) THEN Execute(w, ChangesKey(w), "reopened")
               ELSE Goto(w, "answer") /\ UNCHANGED <<tasks, receipts, log>>
            /\ UNCHANGED reason
    /\ UNCHANGED <<begun, crashes>>

-----------------------------------------------------------------------------
Crash(w) ==
    /\ crashes < MaxCrashes
    /\ workers[w] # Idle
    /\ crashes' = crashes + 1
    /\ Become(w, Idle)
    /\ UNCHANGED <<rows, begun>>

\* ensure_acceptance_plan creates the tasks PENDING.
Init ==
    /\ tasks = [t \in Tasks |-> [status |-> "pending", version |-> 0]]
    /\ reason = [t \in Tasks |-> NoReason]
    /\ evidence = [t \in Tasks |-> << >>]
    /\ receipts = {}
    /\ log = [t \in Tasks |-> << >>]
    /\ workers = [w \in Workers |-> Idle]
    /\ begun = 0 /\ crashes = 0

BeginAny(w) == BeginComplete(w) \/ BeginReopen(w) \/ BeginWaive(w) \/ BeginReview(w)

Step(w) ==
    \/ Check(w) \/ Record(w) \/ CommitComplete(w) \/ ReplayComplete(w)
    \/ SaveReason(w) \/ ExecuteAdmin(w) \/ CommitReview(w)
    \/ Dispatch(w) \/ Answer(w)

Next == \E w \in Workers : BeginAny(w) \/ Step(w) \/ Crash(w)

Spec == Init /\ [][Next]_vars
-----------------------------------------------------------------------------
(* Properties.                                                             *)

TaskRow     == [status : Statuses, version : Nat]
EvidenceRow == [request : Requests, review : {"pending", "approved", "changes_requested"}]
LogRow      == [from : Statuses, to : Statuses, processed : BOOLEAN]
Keys        == ({"complete"} \X Tasks \X Requests)
               \cup ({"reopen", "waive", "changes"} \X Tasks \X Nat)
WorkerRow   ==
    [ pc : {"idle", "check", "record", "commit", "replay", "reason", "execute",
            "review", "dispatch", "answer"},
      mode : {"none", "complete", "reopen", "waive", "approve", "changes"},
      task : Tasks \cup {NoTask}, request : Requests,
      reason : Reasons \cup {NoReason}, number : Nat, logged : Nat, seen : TaskRow ]

\* Rows have the fields and values of the models.
TypeOK ==
    /\ tasks \in [Tasks -> TaskRow]
    /\ reason \in [Tasks -> Reasons \cup {NoReason}]
    /\ evidence \in [Tasks -> Seq(EvidenceRow)]
    /\ receipts \subseteq Keys
    /\ log \in [Tasks -> Seq(LogRow)]
    /\ workers \in [Workers -> WorkerRow]
    /\ begun \in Nat /\ crashes \in Nat

\* The audit trail of a task explains its status: as many transitions as its
\* version says, each from where the one before it ended, whatever requests
\* decided on a task they had loaded earlier.
Explained(t) ==
    /\ Len(log[t]) = tasks[t].version
    /\ \A i \in 1..Len(log[t]) :
        log[t][i].from = IF i = 1 THEN "pending" ELSE log[t][i - 1].to
    /\ tasks[t].status = IF log[t] = << >> THEN "pending" ELSE log[t][Len(log[t])].to

StatusIsLogged == \A t \in Tasks : Explained(t)

\* A task is never COMPLETE with the organiser's request for changes on its
\* latest file: replays, replacements and reviews of older versions included.
\* (drilldown.html: "Requesting changes reopens the speaker's task".)
RejectedIsOpen ==
    \A t \in Tasks : evidence[t] # << >> =>
        (evidence[t][Len(evidence[t])].review = "changes_requested"
            => tasks[t].status # "complete")

\* What a receipt promises is there: a submission whose receipt exists has its
\* evidence, and a COMPLETE task has evidence at all.
Submitted(t, r) == \E n \in 1..Len(evidence[t]) : evidence[t][n].request = r

EvidenceIsKept ==
    /\ \A t \in Tasks, r \in Requests : <<"complete", t, r>> \in receipts => Submitted(t, r)
    /\ \A t \in Tasks : tasks[t].status = "complete" => evidence[t] # << >>

\* A speaker who answers a reopened task and is told "Task completed." has
\* completed it.  (TASK_MACHINE: REOPENED -> COMPLETE by the speaker.)
ToldCompleted(w) ==
    /\ workers[w].mode = "complete" /\ Task(w) \notin UploadTasks
    /\ workers[w].seen.status = "reopened"
    /\ workers[w].pc \in {"commit", "replay"}
    /\ workers'[w].pc \in {"dispatch", "answer"}

CompletedIsComplete ==
    [][\A w \in Workers : ToldCompleted(w) => tasks'[Task(w)].status = "complete"]_vars
=============================================================================
