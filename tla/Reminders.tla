------------------------------ MODULE Reminders ------------------------------
(***************************************************************************)
(* Reminder mail for outstanding onboarding tasks: onboarding/reminders.py,*)
(* tasks.py (the daily Celery task), the management command                *)
(* speakerops_send_reminders, views.py ReminderView and the confirmed      *)
(* nudges of workflow_actions.py.                                          *)
(*                                                                         *)
(* A worker is one web request, command or Celery execution.  The receipt  *)
(* of a task and a key is committed before the mail is handed to the       *)
(* broker; every statement or atomic block is one step, the hand-off is a  *)
(* step of its own, and workers interleave, fail and die between any two.  *)
(***************************************************************************)
EXTENDS Naturals, FiniteSets

CONSTANTS
    Tasks, NoTask,  \* OnboardingTask rows
    Events, NoEvent,\* events with the plugin enabled
    EventOf,        \* [Tasks -> Events]
    Due,            \* [Tasks -> Nat], the due day of a task
    Workers,        \* concurrent executions
    Correlations,   \* correlation ids of confirmed nudges
    MaxDay, MaxBeats, MaxRetries, MaxRequests, MaxFaults  \* bounds

ASSUME TasksAssumption ==
    /\ NoTask \notin Tasks /\ NoEvent \notin Events
    /\ IsFiniteSet(Tasks) /\ IsFiniteSet(Events)
    /\ EventOf \in [Tasks -> Events] /\ Due \in [Tasks -> Nat]
ASSUME LimitsAssumption ==
    /\ MaxDay \in Nat \ {0} /\ MaxBeats \in Nat /\ MaxRetries \in Nat
    /\ MaxRequests \in Nat /\ MaxFaults \in Nat

VARIABLES
    today,     \* timezone.localdate()
    open,      \* the tasks that are PENDING or REOPENED
    receipts,  \* ReminderReceipt rows with their mail's communication log,
               \* a function on the reminders that have one
    handed,    \* how often the broker got the mail of a reminder
    runs,      \* ScheduledReminderRun rows, a function on <<event, day, id>>
    nBeats,    \* Celery ids given out by beat so far
    messages,  \* executions of the daily task that wait for a Celery worker
    actions,   \* WorkflowActionReceipt rows of nudges
    begun,     \* how many requests and commands began
    faults,    \* how many database statements failed or processes died
    workers

world == <<today, open>>
vars  == <<world, receipts, handed, runs, nBeats, messages, actions, begun,
           faults, workers>>

-----------------------------------------------------------------------------
Days     == 1..MaxDay
Channels == {"overdue", "selected", "buzz"}

\* A reminder is a task with a key, the channel and the day it is sent for.
Reminders == Tasks \X (Channels \X Days)

Idle ==
    [ pc |-> "idle", mode |-> "none", id |-> 0, retries |-> 0, corr |-> {},
      channel |-> "overdue", day |-> 1, events |-> {}, event |-> NoEvent,
      loaded |-> {}, todo |-> {}, task |-> NoTask, queued |-> 0,
      outcome |-> "none" ]

Reminder(w) == <<workers[w].task, <<workers[w].channel, workers[w].day>>>>
RunKey(w)   == <<workers[w].event, workers[w].day, workers[w].id>>

Set(f, k, v)  == [x \in DOMAIN f \cup {k} |-> IF x = k THEN v ELSE f[x]]
Become(w, q)  == workers' = [workers EXCEPT ![w] = q]
Goto(w, pc)   == Become(w, [workers[w] EXCEPT !.pc = pc])
Overdue(day)  == {t \in open : Due[t] < day}
Of(e)         == {t \in Tasks : EventOf[t] = e}

\* The worker is done with its task: back at the loop head.
AtLoop(w, queued) ==
    [workers[w] EXCEPT !.pc = "task", !.todo = @ \ {workers[w].task},
                       !.task = NoTask, !.queued = @ + queued]

AfterRaise_NoOutcome(w, outcome) ==
    IF workers[w].mode = "beat"
    THEN [workers[w] EXCEPT !.pc = "fail", !.task = NoTask] ELSE Idle

AfterRaise_GivesUp(w, outcome) == Idle

\* An exception in the loop over tasks.  The daily task records it in its
\* run, a nudge leaves its loop, a request or a command gives up.
AfterRaise(w, outcome) ==
    CASE workers[w].mode = "beat" ->
           [workers[w] EXCEPT !.pc = "fail", !.task = NoTask, !.outcome = outcome]
      [] workers[w].mode = "nudge" ->
           [workers[w] EXCEPT !.pc = "task", !.todo = {}, !.task = NoTask,
                              !.outcome = "ambiguous"]
      [] OTHER -> Idle

\* autoretry_for: any exception but an ambiguous reminder re-queues the
\* execution under its Celery id until max_retries.
Requeued(w) ==
    IF workers[w].mode = "beat" /\ workers[w].retries < MaxRetries
    THEN messages \cup {[id |-> workers[w].id, retries |-> workers[w].retries + 1]}
    ELSE messages

-----------------------------------------------------------------------------
(* Surroundings: days pass, speakers complete tasks, organisers reopen     *)
(* them, and beat dispatches the daily task.                               *)

Tick ==
    /\ today < MaxDay
    /\ today' = today + 1
    /\ UNCHANGED <<open, receipts, handed, runs, nBeats, messages, actions,
                   begun, faults, workers>>

Toggle(t) ==
    /\ open' = IF t \in open THEN open \ {t} ELSE open \cup {t}
    /\ UNCHANGED <<today, receipts, handed, runs, nBeats, messages, actions,
                   begun, faults, workers>>

\* The schedule is daily, but beat may dispatch a day's task a second time.
Beat ==
    /\ nBeats < MaxBeats
    /\ nBeats' = nBeats + 1
    /\ messages' = messages \cup {[id |-> nBeats + 1, retries |-> 0]}
    /\ UNCHANGED <<world, receipts, handed, runs, actions, begun, faults, workers>>

-----------------------------------------------------------------------------
(* Entry points.                                                           *)

\* A Celery worker acknowledges a message when it begins to execute it.
StartBeat(w) ==
    /\ workers[w] = Idle
    /\ \E m \in messages :
        /\ messages' = messages \ {m}
        /\ Become(w, [Idle EXCEPT !.pc = "event", !.mode = "beat", !.id = m.id,
                        !.retries = m.retries, !.day = today, !.events = Events])
    /\ UNCHANGED <<world, receipts, handed, runs, nBeats, actions, begun, faults>>

\* The command, for all events or one and for any --as-of day, or
\* ReminderView without selected tasks, for its event and today.
StartOverdue(w) ==
    /\ workers[w] = Idle
    /\ begun < MaxRequests
    /\ begun' = begun + 1
    /\ \E E \in {Events} \cup {{e} : e \in Events}, day \in Days :
        Become(w, [Idle EXCEPT !.pc = "event", !.mode = "request",
                               !.day = day, !.events = E])
    /\ UNCHANGED <<world, receipts, handed, runs, nBeats, messages, actions, faults>>

\* ReminderView with selected tasks: their due date does not matter.
StartSelected(w) ==
    /\ workers[w] = Idle
    /\ begun < MaxRequests
    /\ begun' = begun + 1
    /\ \E e \in Events : \E S \in SUBSET Of(e) \ {{}} :
        Become(w, [Idle EXCEPT !.pc = "task", !.mode = "request",
                     !.channel = "selected", !.day = today, !.event = e,
                     !.loaded = S \cap open, !.todo = S \cap open])
    /\ UNCHANGED <<world, receipts, handed, runs, nBeats, messages, actions, faults>>

\* SpeakerNudgeActionConfirmView: every snapshotted target must still be
\* overdue, and the action's receipt is committed before any mail.  A
\* correlation id that already has a receipt starts nothing.
ConfirmNudge(w) ==
    /\ workers[w] = Idle
    /\ \E c \in Correlations \ DOMAIN actions, e \in Events :
       \E S \in SUBSET (Of(e) \cap Overdue(today)) \ {{}} :
        /\ actions' = Set(actions, c, [status |-> "pending", targets |-> S,
                                       day |-> today, queued |-> 0])
        /\ Become(w, [Idle EXCEPT !.pc = "task", !.mode = "nudge",
                        !.corr = {c}, !.channel = "buzz", !.day = today,
                        !.event = e, !.loaded = S, !.todo = S])
    /\ UNCHANGED <<world, receipts, handed, runs, nBeats, messages, begun, faults>>

-----------------------------------------------------------------------------
(* The loop over events.                                                   *)

\* The next event.  The daily task first gets or creates its run; a run that
\* is COMPLETED already, by an earlier execution of the message, is skipped.
NextEvent(w) ==
    /\ workers[w].pc = "event"
    /\ \E e \in workers[w].events :
        LET next == [workers[w] EXCEPT !.pc = "load", !.event = e, !.events = @ \ {e}]
            run  == <<e, workers[w].day, workers[w].id>>
        IN  IF workers[w].mode # "beat"
            THEN Become(w, next) /\ UNCHANGED runs
            ELSE IF run \in DOMAIN runs
            THEN /\ Become(w, IF runs[run].status = "completed"
                              THEN [workers[w] EXCEPT !.events = @ \ {e}]
                              ELSE next)
                 /\ UNCHANGED runs
            ELSE /\ runs' = Set(runs, run, [status |-> "started", accepted |-> 0,
                       eligible |-> Cardinality(Of(e) \cap Overdue(workers[w].day))])
                 /\ Become(w, next)
    /\ UNCHANGED <<world, receipts, handed, nBeats, messages, actions, begun, faults>>

\* queue_reminders evaluates the lazy query: the tasks of the event that are
\* overdue now.
Load(w) ==
    /\ workers[w].pc = "load"
    /\ LET tasks == Of(workers[w].event) \cap Overdue(workers[w].day)
       IN  Become(w, [workers[w] EXCEPT !.pc = "task", !.loaded = tasks, !.todo = tasks])
    /\ UNCHANGED <<world, receipts, handed, runs, nBeats, messages, actions,
                   begun, faults>>

-----------------------------------------------------------------------------
(* queue_reminder_task, for any task that is left.                         *)

Existing_Tolerant(w, k) == [workers[w] EXCEPT !.todo = @ \ {k[1]}]

Existing_Resends(w, k) ==
    IF receipts[k].delivery = "accepted"
    THEN [workers[w] EXCEPT !.todo = @ \ {k[1]}]
    ELSE [workers[w] EXCEPT !.pc = "handoff", !.task = k[1]]

\* The receipt of an earlier hand-off: accepted is fine, anything else is
\* ambiguous.  Marking it so is rolled back with the transaction that raises.
Existing(w, k) ==
    IF receipts[k].delivery = "accepted"
    THEN [workers[w] EXCEPT !.todo = @ \ {k[1]}]
    ELSE AfterRaise(w, "ambiguous")

\* The transaction: the unique receipt, the mail and its log line, which
\* says FAILED until the broker has accepted.
Claim(w) ==
    /\ workers[w].pc = "task"
    /\ \E t \in workers[w].todo :
        LET k == <<t, <<workers[w].channel, workers[w].day>>>>
        IN  IF k \in DOMAIN receipts
            THEN Become(w, Existing(w, k)) /\ UNCHANGED receipts
            ELSE /\ receipts' = Set(receipts, k, [delivery |-> "pending",
                                      run |-> workers[w].id, log |-> "failed"])
                 /\ Become(w, [workers[w] EXCEPT !.pc = "handoff", !.task = t])
    /\ UNCHANGED <<world, handed, runs, nBeats, messages, actions, begun, faults>>

\* mail.send returns.
Handoff(w) ==
    /\ workers[w].pc = "handoff"
    /\ handed' = [handed EXCEPT ![Reminder(w)] = @ + 1]
    /\ Goto(w, "accept")
    /\ UNCHANGED <<world, receipts, runs, nBeats, messages, actions, begun, faults>>

\* mail.send raises: the broker may have the mail or not.
HandoffFails(w) ==
    /\ workers[w].pc = "handoff"
    /\ \E n \in {0, 1} : handed' = [handed EXCEPT ![Reminder(w)] = @ + n]
    /\ Goto(w, "doubt")
    /\ UNCHANGED <<world, receipts, runs, nBeats, messages, actions, begun, faults>>

Accept(w) ==
    /\ workers[w].pc = "accept"
    /\ receipts' = [receipts EXCEPT ![Reminder(w)].delivery = "accepted"]
    /\ Goto(w, "log")
    /\ UNCHANGED <<world, handed, runs, nBeats, messages, actions, begun, faults>>

Log(w) ==
    /\ workers[w].pc = "log"
    /\ receipts' = [receipts EXCEPT ![Reminder(w)].log = "sent"]
    /\ Become(w, AtLoop(w, 1))
    /\ UNCHANGED <<world, handed, runs, nBeats, messages, actions, begun, faults>>

Doubt_AsAccepted(w) ==
    /\ workers[w].pc = "doubt"
    /\ receipts' = [receipts EXCEPT ![Reminder(w)].delivery = "accepted"]
    /\ Goto(w, "log")
    /\ UNCHANGED <<world, handed, runs, nBeats, messages, actions, begun, faults>>

\* The log line keeps its FAILED.
Doubt(w) ==
    /\ workers[w].pc = "doubt"
    /\ receipts' = [receipts EXCEPT ![Reminder(w)].delivery = "ambiguous"]
    /\ Become(w, AfterRaise(w, "ambiguous"))
    /\ UNCHANGED <<world, handed, runs, nBeats, messages, actions, begun, faults>>

-----------------------------------------------------------------------------
(* The ends.                                                               *)

Own(w) == {k \in DOMAIN receipts :
             /\ EventOf[k[1]] = workers[w].event /\ k[2][2] = workers[w].day
             /\ receipts[k].run = workers[w].id}

AcceptedOf_Loaded(w) == Cardinality(workers[w].loaded)

AcceptedOf(w) == Cardinality({k \in Own(w) : receipts[k].delivery = "accepted"})

\* All tasks of the event are done: the daily task completes its run.
EndEvent(w) ==
    /\ workers[w].pc = "task" /\ workers[w].todo = {}
    /\ workers[w].mode \in {"beat", "request"}
    /\ runs' = IF workers[w].mode = "beat"
               THEN [runs EXCEPT ![RunKey(w)] = [@ EXCEPT !.status = "completed",
                                                          !.accepted = AcceptedOf(w)]]
               ELSE runs
    /\ Become(w, [workers[w] EXCEPT !.pc = "event", !.event = NoEvent,
                                    !.loaded = {}, !.queued = 0])
    /\ UNCHANGED <<world, receipts, handed, nBeats, messages, actions, begun, faults>>

End(w) ==
    /\ workers[w].pc = "event" /\ workers[w].events = {}
    /\ Become(w, Idle)
    /\ UNCHANGED <<world, receipts, handed, runs, nBeats, messages, actions,
                   begun, faults>>

\* The daily task leaves on the first exception, whatever events are left.
FailRun(w) ==
    /\ workers[w].pc = "fail"
    /\ runs' = [runs EXCEPT ![RunKey(w)].status = workers[w].outcome]
    /\ messages' = IF workers[w].outcome = "failed" THEN Requeued(w) ELSE messages
    /\ Become(w, Idle)
    /\ UNCHANGED <<world, receipts, handed, nBeats, actions, begun, faults>>

NudgeStatus_ByCount(w) ==
    IF workers[w].queued > 0 THEN "succeeded"
    ELSE IF workers[w].outcome = "ambiguous" THEN "ambiguous" ELSE "noop"

NudgeStatus(w) ==
    IF workers[w].outcome = "ambiguous" THEN "ambiguous"
    ELSE IF workers[w].queued > 0 THEN "succeeded" ELSE "noop"

FinishNudge(w) ==
    /\ workers[w].pc = "task" /\ workers[w].todo = {}
    /\ workers[w].mode = "nudge"
    /\ actions' = [c \in DOMAIN actions |->
         IF c \in workers[w].corr
         THEN [actions[c] EXCEPT !.status = NudgeStatus(w), !.queued = workers[w].queued]
         ELSE actions[c]]
    /\ Become(w, Idle)
    /\ UNCHANGED <<world, receipts, handed, runs, nBeats, messages, begun, faults>>

-----------------------------------------------------------------------------
(* Faults.                                                                 *)

InLoop(w) ==
    \/ workers[w].pc \in {"load", "accept", "log", "doubt"}
    \/ workers[w].pc = "task" /\ workers[w].todo # {}

\* The next database statement of a worker raises and changes nothing.
StatementFails(w) ==
    /\ faults < MaxFaults
    /\ \/ InLoop(w)
       \/ workers[w].pc = "fail"
       \/ workers[w].pc = "event" /\ workers[w].mode = "beat" /\ workers[w].events # {}
       \/ workers[w].pc = "task" /\ workers[w].mode # "request"
    /\ faults' = faults + 1
    /\ IF InLoop(w)
       THEN Become(w, AfterRaise(w, "failed")) /\ UNCHANGED messages
       ELSE Become(w, Idle) /\ messages' = Requeued(w)
    /\ UNCHANGED <<world, receipts, handed, runs, nBeats, actions, begun>>

\* The process dies, and its message is gone with it.
Crash(w) ==
    /\ faults < MaxFaults
    /\ workers[w] # Idle
    /\ faults' = faults + 1
    /\ Become(w, Idle)
    /\ UNCHANGED <<world, receipts, handed, runs, nBeats, messages, actions, begun>>

-----------------------------------------------------------------------------
Init ==
    /\ today = 1
    /\ open \in SUBSET Tasks
    /\ receipts = [k \in {} |-> {}]
    /\ handed = [k \in Reminders |-> 0]
    /\ runs = [k \in {} |-> {}]
    /\ nBeats = 0 /\ messages = {}
    /\ actions = [c \in {} |-> {}]
    /\ begun = 0 /\ faults = 0
    /\ workers = [w \in Workers |-> Idle]

\* What a worker's own code does next.
Step(w) ==
    \/ NextEvent(w) \/ Load(w) \/ Claim(w) \/ Handoff(w) \/ HandoffFails(w)
    \/ Accept(w) \/ Log(w) \/ Doubt(w) \/ EndEvent(w) \/ End(w) \/ FailRun(w)
    \/ FinishNudge(w)

Start(w) == StartBeat(w) \/ StartOverdue(w) \/ StartSelected(w) \/ ConfirmNudge(w)

Next ==
    \/ Tick \/ Beat
    \/ \E t \in Tasks : Toggle(t)
    \/ \E w \in Workers : Start(w) \/ Step(w) \/ StatementFails(w) \/ Crash(w)

Spec == Init /\ [][Next]_vars

\* Code that has begun goes on until it ends or its process dies.
FairSpec == Spec /\ \A w \in Workers : WF_vars(Step(w))

-----------------------------------------------------------------------------
(* Properties.                                                             *)

Deliveries == {"pending", "accepted", "ambiguous"}
ReceiptRow == [delivery : Deliveries, run : Nat, log : {"failed", "sent"}]
RunRow     == [status : {"started", "completed", "failed", "ambiguous"},
               accepted : Nat, eligible : Nat]
Message    == [id : Nat, retries : Nat]
ActionRow  == [status : {"pending", "succeeded", "noop", "ambiguous"},
               targets : SUBSET Tasks, day : Days, queued : Nat]
WorkerRow  == [pc : {"idle", "event", "load", "task", "handoff", "accept",
                     "log", "doubt", "fail"},
               mode : {"none", "beat", "request", "nudge"}, id : Nat,
               retries : Nat, corr : SUBSET Correlations, channel : Channels,
               day : Days, events : SUBSET Events, event : Events \cup {NoEvent},
               loaded : SUBSET Tasks, todo : SUBSET Tasks,
               task : Tasks \cup {NoTask}, queued : Nat,
               outcome : {"none", "failed", "ambiguous"}]

WorldOK    == today \in Days /\ open \subseteq Tasks
ReceiptsOK ==
    /\ DOMAIN receipts \subseteq Reminders
    /\ \A k \in DOMAIN receipts : receipts[k] \in ReceiptRow
RunsOK ==
    /\ DOMAIN runs \subseteq Events \X Days \X Nat
    /\ \A n \in DOMAIN runs : runs[n] \in RunRow
QueueOK    == nBeats \in Nat /\ messages \subseteq Message
ActionsOK  ==
    /\ DOMAIN actions \subseteq Correlations
    /\ \A c \in DOMAIN actions : actions[c] \in ActionRow

\* Rows have the fields and values of the models.
TypeOK ==
    /\ WorldOK /\ ReceiptsOK /\ RunsOK /\ QueueOK /\ ActionsOK
    /\ handed \in [Reminders -> Nat]
    /\ begun \in Nat /\ faults \in Nat
    /\ workers \in [Workers -> WorkerRow]

\* The broker gets the mail of a task and a key at most once, whatever
\* retries, second dispatches, commands, requests and crashes come together.
\* (send_due_speaker_reminders: "worker retry and a second scheduler
\* invocation cannot send the same reminder twice".)
AtMostOnce == \A k \in Reminders : handed[k] <= 1

\* Evidence of a reminder is never ahead of the fact: a receipt that says
\* accepted, and a communication log that says sent, belong to a mail the
\* broker has, and the log never says more than the receipt.
EvidenceIsReal ==
    \A k \in DOMAIN receipts :
        /\ receipts[k].delivery = "accepted" => handed[k] = 1
        /\ receipts[k].log = "sent" => receipts[k].delivery = "accepted"

\* A run is COMPLETED only when every task it had loaded is accepted, those
\* included that another worker had claimed or tried before it.
CompletionReachedEveryone ==
    [][\A w \in Workers :
         workers[w].mode = "beat" /\ workers[w].pc = "task" /\ workers'[w].pc = "event" =>
            \A t \in workers[w].loaded :
                /\ <<t, <<"overdue", workers[w].day>>>> \in DOMAIN receipts
                /\ receipts[<<t, <<"overdue", workers[w].day>>>>].delivery = "accepted"]_vars

\* A COMPLETED run counts its own accepted receipts and no others, and the
\* count stays right afterwards.  (speakerops_verify_reminder_evidence compares
\* accepted_count with the run's receipts.)
AcceptedCountIsExact ==
    \A n \in DOMAIN runs : runs[n].status = "completed" =>
        runs[n].accepted = Cardinality({k \in DOMAIN receipts :
            /\ EventOf[k[1]] = n[1] /\ k[2][2] = n[2]
            /\ receipts[k].run = n[3] /\ receipts[k].delivery = "accepted"})

\* A nudge that says SUCCEEDED or NOOP reached every target of its snapshot.
NudgeTellsTheTruth ==
    \A c \in DOMAIN actions : actions[c].status \in {"succeeded", "noop"} =>
        \A t \in actions[c].targets :
            /\ <<t, <<"buzz", actions[c].day>>>> \in DOMAIN receipts
            /\ receipts[<<t, <<"buzz", actions[c].day>>>>].delivery = "accepted"

Undecided(c) == c \in DOMAIN actions /\ actions[c].status = "pending"

\* Every nudge that was recorded as pending gets its outcome, after a broker
\* that raises too, unless a statement of its own fails or its process dies.
NudgesAreAnswered ==
    \A c \in Correlations : Undecided(c) ~> (~Undecided(c) \/ faults > 0)
=============================================================================
