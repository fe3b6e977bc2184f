--------------------------- MODULE RemindersProofs ---------------------------
(***************************************************************************)
(* Theorems about Reminders, for every set of tasks, events, workers and   *)
(* correlation ids and every bound.                                        *)
(***************************************************************************)
EXTENDS Reminders, FiniteSetTheorems, TLAPS

-----------------------------------------------------------------------------
(* Type correctness.                                                       *)

\* The program counters at which a worker has a reminder in its hands.
Sending == {"handoff", "accept", "log", "doubt"}

Fits(q) ==
    /\ q \in WorkerRow
    /\ q.pc \in Sending => q.task \in Tasks
    /\ q.pc = "fail" => q.outcome # "none"

WorkersFit == workers \in [Workers -> WorkerRow] /\ \A w \in Workers : Fits(workers[w])
TypeInv    == TypeOK /\ WorkersFit

LEMMA IdleFits == Fits(Idle)
BY LimitsAssumption DEF Idle, Fits, WorkerRow, Channels, Days, Sending

\* The record a worker starts the daily task with.
LEMMA DispatchFits ==
    ASSUME NEW i \in Nat, NEW n \in Nat, NEW d \in Days
    PROVE  Fits([Idle EXCEPT !.pc = "event", !.mode = "beat", !.id = i,
                             !.retries = n, !.day = d, !.events = Events])
<1>1. Idle \in WorkerRow BY IdleFits DEF Fits
<1>. DEFINE q == [Idle EXCEPT !.pc = "event", !.mode = "beat", !.id = i,
                              !.retries = n, !.day = d, !.events = Events]
<1>2. q \in WorkerRow BY <1>1 DEF WorkerRow
<1>3. q.pc = "event" BY <1>1 DEF WorkerRow
<1>. HIDE DEF q
<1>4. Fits(q) BY <1>2, <1>3 DEF Fits, Sending
<1>. QED BY <1>4 DEF q

LEMMA RaiseFits ==
    ASSUME NEW w, Fits(workers[w]), NEW o \in {"failed", "ambiguous"}
    PROVE  Fits(AfterRaise(w, o)) /\ AfterRaise(w, o).pc \notin Sending
<1>1. CASE workers[w].mode = "beat"
  BY <1>1 DEF AfterRaise, Fits, WorkerRow, Sending
<1>2. CASE workers[w].mode = "nudge"
  BY <1>2 DEF AfterRaise, Fits, WorkerRow, Sending
<1>3. CASE workers[w].mode \notin {"beat", "nudge"}
  <2>1. AfterRaise(w, o) = Idle BY <1>3 DEF AfterRaise
  <2>. QED BY <2>1, IdleFits DEF Idle, Sending
<1>. QED BY <1>1, <1>2, <1>3

LEMMA LoopHeadFits ==
    ASSUME NEW w, Fits(workers[w])
    PROVE  Fits(AtLoop(w, 1)) /\ AtLoop(w, 1).pc = "task"
<1>. DEFINE q == workers[w]
<1>1. q \in WorkerRow BY DEF Fits
<1>2. q.todo \ {q.task} \in SUBSET Tasks /\ q.queued + 1 \in Nat
  BY <1>1 DEF WorkerRow
<1>3. AtLoop(w, 1) = [q EXCEPT !.pc = "task", !.todo = q.todo \ {q.task},
                               !.task = NoTask, !.queued = q.queued + 1]
  BY DEF AtLoop
<1>. HIDE DEF q
<1>4. AtLoop(w, 1) \in WorkerRow /\ AtLoop(w, 1).pc = "task"
  BY <1>1, <1>2, <1>3 DEF WorkerRow
<1>. QED BY <1>4 DEF Fits, Sending

LEMMA BecomeFits ==
    ASSUME WorkersFit, NEW w \in Workers, NEW q, Fits(q), Become(w, q)
    PROVE  WorkersFit'
<1>1. workers' \in [Workers -> WorkerRow] BY DEF WorkersFit, Become, Fits
<1>2. ASSUME NEW v \in Workers PROVE Fits(workers[v])'
  BY DEF WorkersFit, Become, Fits, WorkerRow, Sending, Days, Channels
<1>. QED BY <1>1, <1>2 DEF WorkersFit, WorkerRow, Days, Channels

LEMMA RemindersFinite == IsFiniteSet(Reminders)
<1>1. IsFiniteSet(Days)
  BY LimitsAssumption, FS_Interval DEF Days
<1>2. IsFiniteSet(Channels)
  <2>1. IsFiniteSet({"overdue"}) BY FS_Singleton
  <2>2. IsFiniteSet({"overdue"} \cup {"selected"}) BY <2>1, FS_AddElement
  <2>3. IsFiniteSet(({"overdue"} \cup {"selected"}) \cup {"buzz"}) BY <2>2, FS_AddElement
  <2>4. Channels = ({"overdue"} \cup {"selected"}) \cup {"buzz"} BY DEF Channels
  <2>. QED BY <2>3, <2>4
<1>3. IsFiniteSet(Channels \X Days) BY <1>1, <1>2, FS_Product
<1>. QED BY <1>3, TasksAssumption, FS_Product DEF Reminders

LEMMA Counted ==
    ASSUME TypeOK, NEW w
    PROVE  AcceptedOf(w) \in Nat
<1>. DEFINE K == {k \in Own(w) : receipts[k].delivery = "accepted"}
<1>1. K \subseteq Reminders BY DEF Own, TypeOK, ReceiptsOK
<1>2. IsFiniteSet(K) BY <1>1, RemindersFinite, FS_Subset
<1>. QED BY <1>2, FS_CardinalityType DEF AcceptedOf

\* What a step does to the workers, and to nothing else that is typed by them.
LEMMA StepFits ==
    ASSUME TypeInv, NEW w \in Workers,
           Start(w) \/ Step(w) \/ StatementFails(w) \/ Crash(w)
    PROVE  WorkersFit'
<1>. DEFINE q == workers[w]
<1>1. /\ WorkersFit /\ q \in WorkerRow /\ Fits(q) /\ today \in Days
      /\ messages \subseteq Message
  BY DEF TypeInv, TypeOK, WorldOK, QueueOK, WorkersFit
<1>2. \A o \in {"failed", "ambiguous"} : Fits(AfterRaise(w, o)) BY <1>1, RaiseFits
<1>3. \A r : Fits(r) /\ Become(w, r) => WorkersFit' BY <1>1, BecomeFits
<1>4. Fits(Idle) BY IdleFits
<1>a. CASE StartBeat(w)
  <2>1. PICK m \in messages : Become(w, [Idle EXCEPT !.pc = "event", !.mode = "beat",
             !.id = m.id, !.retries = m.retries, !.day = today, !.events = Events])
    BY <1>a DEF StartBeat
  <2>2. m.id \in Nat /\ m.retries \in Nat BY <1>1 DEF Message
  <2>3. Fits([Idle EXCEPT !.pc = "event", !.mode = "beat",
             !.id = m.id, !.retries = m.retries, !.day = today, !.events = Events])
    BY <1>1, <2>2, DispatchFits
  <2>. QED BY <2>1, <2>3, <1>3
<1>b. CASE StartOverdue(w)
  <2>1. PICK E \in {Events} \cup {{e} : e \in Events}, day \in Days :
           Become(w, [Idle EXCEPT !.pc = "event", !.mode = "request",
                               !.day = day, !.events = E])
    BY <1>b DEF StartOverdue
  <2>2. E \subseteq Events OBVIOUS
  <2>3. Fits([Idle EXCEPT !.pc = "event", !.mode = "request",
                               !.day = day, !.events = E])
    BY <2>2, <1>4 DEF Fits, WorkerRow, Sending
  <2>. QED BY <2>1, <2>3, <1>3
<1>c. CASE StartSelected(w)
  <2>1. PICK e \in Events, S \in SUBSET Tasks :
           Become(w, [Idle EXCEPT !.pc = "task", !.mode = "request",
                     !.channel = "selected", !.day = today, !.event = e,
                     !.loaded = S \cap open, !.todo = S \cap open])
    BY <1>c DEF StartSelected, Of
  <2>2. "selected" \in Channels /\ S \cap open \in SUBSET Tasks BY DEF Channels
  <2>3. Fits([Idle EXCEPT !.pc = "task", !.mode = "request",
                     !.channel = "selected", !.day = today, !.event = e,
                     !.loaded = S \cap open, !.todo = S \cap open])
    BY <2>2, <1>1, <1>4 DEF Fits, WorkerRow, Sending
  <2>. QED BY <2>1, <2>3, <1>3
<1>d. CASE ConfirmNudge(w)
  <2>1. PICK c \in Correlations, e \in Events, S \in SUBSET Tasks :
           Become(w, [Idle EXCEPT !.pc = "task", !.mode = "nudge",
                        !.corr = {c}, !.channel = "buzz", !.day = today,
                        !.event = e, !.loaded = S, !.todo = S])
    BY <1>d DEF ConfirmNudge, Of, Overdue
  <2>2. "buzz" \in Channels /\ {c} \in SUBSET Correlations BY DEF Channels
  <2>3. Fits([Idle EXCEPT !.pc = "task", !.mode = "nudge",
                        !.corr = {c}, !.channel = "buzz", !.day = today,
                        !.event = e, !.loaded = S, !.todo = S])
    BY <2>2, <1>1, <1>4 DEF Fits, WorkerRow, Sending
  <2>. QED BY <2>1, <2>3, <1>3
<1>e. CASE NextEvent(w)
  <2>1. PICK e \in q.events :
           \/ Become(w, [q EXCEPT !.pc = "load", !.event = e, !.events = @ \ {e}])
           \/ Become(w, [q EXCEPT !.events = @ \ {e}])
    BY <1>e DEF NextEvent
  <2>2. /\ Fits([q EXCEPT !.pc = "load", !.event = e, !.events = @ \ {e}])
        /\ Fits([q EXCEPT !.events = @ \ {e}])
    BY <1>1, <1>e DEF Fits, WorkerRow, Sending, NextEvent
  <2>. QED BY <2>1, <2>2, <1>3
<1>f. CASE Load(w)
  <2>. DEFINE T == Of(q.event) \cap Overdue(q.day)
  <2>1. Become(w, [q EXCEPT !.pc = "task", !.loaded = T, !.todo = T])
    BY <1>f DEF Load
  <2>2. T \subseteq Tasks BY DEF Of
  <2>. HIDE DEF T
  <2>3. Fits([q EXCEPT !.pc = "task", !.loaded = T, !.todo = T])
    BY <2>2, <1>1 DEF Fits, WorkerRow, Sending
  <2>. QED BY <2>1, <2>3, <1>3
<1>g. CASE Claim(w)
  <2>1. PICK t \in q.todo :
           \/ Become(w, Existing(w, <<t, <<q.channel, q.day>>>>))
           \/ Become(w, [q EXCEPT !.pc = "handoff", !.task = t])
    BY <1>g DEF Claim
  <2>2. Fits([q EXCEPT !.pc = "handoff", !.task = t])
    BY <1>1 DEF Fits, WorkerRow, Sending
  <2>3. Fits([q EXCEPT !.todo = @ \ {t}])
    BY <1>1 DEF Fits, WorkerRow, Sending
  <2>4. Fits(Existing(w, <<t, <<q.channel, q.day>>>>))
    BY <2>3, <1>2 DEF Existing
  <2>. QED BY <2>1, <2>2, <2>4, <1>3
<1>h. CASE Handoff(w)
  <2>1. Fits([q EXCEPT !.pc = "accept"])
    BY <1>1, <1>h DEF Fits, WorkerRow, Sending, Handoff
  <2>. QED BY <1>h, <2>1, <1>3 DEF Handoff, Goto
<1>i. CASE HandoffFails(w)
  <2>1. Fits([q EXCEPT !.pc = "doubt"])
    BY <1>1, <1>i DEF Fits, WorkerRow, Sending, HandoffFails
  <2>. QED BY <1>i, <2>1, <1>3 DEF HandoffFails, Goto
<1>j. CASE Accept(w)
  <2>1. Fits([q EXCEPT !.pc = "log"])
    BY <1>1, <1>j DEF Fits, WorkerRow, Sending, Accept
  <2>. QED BY <1>j, <2>1, <1>3 DEF Accept, Goto
<1>k. CASE Log(w)
  <2>. QED BY <1>k, <1>1, LoopHeadFits, <1>3 DEF Log
<1>l. CASE Doubt(w)
  BY <1>l, <1>2, <1>3 DEF Doubt
<1>m. CASE EndEvent(w)
  <2>. DEFINE r == [q EXCEPT !.pc = "event", !.event = NoEvent,
                             !.loaded = {}, !.queued = 0]
  <2>1. Fits(r) BY <1>1 DEF Fits, WorkerRow, Sending
  <2>2. Become(w, r) BY <1>m DEF EndEvent
  <2>. QED BY <2>1, <2>2, <1>3
<1>n. CASE End(w) \/ FailRun(w) \/ FinishNudge(w) \/ Crash(w)
  BY <1>n, <1>3, <1>4 DEF End, FailRun, FinishNudge, Crash
<1>o. CASE StatementFails(w)
  BY <1>o, <1>2, <1>3, <1>4 DEF StatementFails
<1>. QED BY <1>a, <1>b, <1>c, <1>d, <1>e, <1>f, <1>g, <1>h, <1>i, <1>j, <1>k,
           <1>l, <1>m, <1>n, <1>o DEF Start, Step

\* The tables, one by one.
LEMMA ReceiptsTyped ==
    ASSUME TypeInv, NEW w \in Workers, Claim(w) \/ Accept(w) \/ Log(w) \/ Doubt(w)
    PROVE  ReceiptsOK'
<1>. DEFINE q == workers[w]
<1>1. q \in WorkerRow /\ ReceiptsOK BY DEF TypeInv, TypeOK
<1>2. CASE Claim(w)
  <2>1. PICK t \in q.todo :
          LET k == <<t, <<q.channel, q.day>>>>
          IN  \/ UNCHANGED receipts
              \/ receipts' = Set(receipts, k, [delivery |-> "pending",
                                   run |-> q.id, log |-> "failed"])
    BY <1>2 DEF Claim
  <2>. DEFINE k == <<t, <<q.channel, q.day>>>>
              r == [delivery |-> "pending", run |-> q.id, log |-> "failed"]
  <2>2. k \in Reminders BY <1>1 DEF WorkerRow, Reminders
  <2>3. r \in ReceiptRow BY <1>1 DEF WorkerRow, ReceiptRow, Deliveries
  <2>4. CASE UNCHANGED receipts BY <2>4, <1>1 DEF ReceiptsOK, ReceiptRow, Deliveries, Reminders, Channels, Days
  <2>5. CASE receipts' = Set(receipts, k, r)
    <3>. HIDE DEF k, r
    <3>1. DOMAIN receipts' = DOMAIN receipts \cup {k} BY <2>5 DEF Set
    <3>2. \A x \in DOMAIN receipts' : receipts'[x] \in ReceiptRow
      BY <2>5, <2>3, <1>1 DEF Set, ReceiptsOK
    <3>. QED BY <3>1, <3>2, <2>2, <1>1 DEF ReceiptsOK, ReceiptRow, Deliveries, Reminders, Channels, Days
  <2>. QED BY <2>1, <2>4, <2>5
<1>3. CASE Accept(w) \/ Log(w) \/ Doubt(w)
  <2>1. \/ receipts' = [receipts EXCEPT ![Reminder(w)].delivery = "accepted"]
        \/ receipts' = [receipts EXCEPT ![Reminder(w)].log = "sent"]
        \/ receipts' = [receipts EXCEPT ![Reminder(w)].delivery = "ambiguous"]
    BY <1>3 DEF Accept, Log, Doubt
  <2>2. DOMAIN receipts' = DOMAIN receipts BY <2>1
  <2>3. ASSUME NEW x \in DOMAIN receipts PROVE receipts'[x] \in ReceiptRow
    BY <2>1, <1>1 DEF ReceiptsOK, ReceiptRow, Deliveries
  <2>. QED BY <2>2, <2>3, <1>1 DEF ReceiptsOK, ReceiptRow, Deliveries, Reminders, Channels, Days
<1>. QED BY <1>2, <1>3

LEMMA RunsTyped ==
    ASSUME TypeInv, NEW w \in Workers, NextEvent(w) \/ EndEvent(w) \/ FailRun(w)
    PROVE  RunsOK'
<1>. DEFINE q == workers[w]
<1>1. q \in WorkerRow /\ RunsOK /\ Fits(q) BY DEF TypeInv, TypeOK, WorkersFit
<1>2. CASE UNCHANGED runs BY <1>2, <1>1 DEF RunsOK, RunRow, Days
<1>3. CASE NextEvent(w) /\ runs' # runs
  <2>1. PICK e \in q.events :
          runs' = Set(runs, <<e, q.day, q.id>>,
            [status |-> "started", accepted |-> 0,
             eligible |-> Cardinality(Of(e) \cap Overdue(q.day))])
    BY <1>3 DEF NextEvent
  <2>. DEFINE n == <<e, q.day, q.id>>
              E == Of(e) \cap Overdue(q.day)
              r == [status |-> "started", accepted |-> 0, eligible |-> Cardinality(E)]
  <2>2. n \in Events \X Days \X Nat BY <1>1 DEF WorkerRow
  <2>3. Cardinality(E) \in Nat
    <3>1. E \in SUBSET Tasks BY DEF Of
    <3>. QED BY <3>1, TasksAssumption, FS_Subset, FS_CardinalityType
  <2>4. r \in RunRow BY <2>3 DEF RunRow
  <2>5. runs' = Set(runs, n, r) BY <2>1
  <2>. HIDE DEF n, r, E
  <2>6. DOMAIN runs' = DOMAIN runs \cup {n} BY <2>5 DEF Set
  <2>7. \A x \in DOMAIN runs' : runs'[x] \in RunRow
    BY <2>5, <2>4, <1>1 DEF Set, RunsOK
  <2>. QED BY <2>6, <2>7, <2>2, <1>1 DEF RunsOK, RunRow, Days
<1>4. CASE EndEvent(w) \/ FailRun(w)
  <2>1. AcceptedOf(w) \in Nat BY Counted DEF TypeInv
  <2>2. FailRun(w) => q.outcome \in {"failed", "ambiguous"}
    BY <1>1 DEF FailRun, Fits, WorkerRow
  <2>3. \/ UNCHANGED runs
        \/ runs' = [runs EXCEPT ![RunKey(w)] = [@ EXCEPT !.status = "completed",
                                                         !.accepted = AcceptedOf(w)]]
        \/ /\ q.outcome \in {"failed", "ambiguous"}
           /\ runs' = [runs EXCEPT ![RunKey(w)].status = q.outcome]
    BY <1>4, <2>2 DEF EndEvent, FailRun
  <2>4. DOMAIN runs' = DOMAIN runs BY <2>3
  <2>5. ASSUME NEW x \in DOMAIN runs PROVE runs'[x] \in RunRow
    <3>1. runs[x] \in RunRow BY <1>1 DEF RunsOK
    <3>2. \/ runs'[x] = runs[x]
          \/ runs'[x] = [runs[x] EXCEPT !.status = "completed",
                                        !.accepted = AcceptedOf(w)]
          \/ /\ q.outcome \in {"failed", "ambiguous"}
             /\ runs'[x] = [runs[x] EXCEPT !.status = q.outcome]
      BY <2>3
    <3>. HIDE DEF q
    <3>. QED BY <2>1, <3>1, <3>2 DEF RunRow
  <2>. QED BY <2>4, <2>5, <1>1 DEF RunsOK, RunRow, Days
<1>. QED BY <1>2, <1>3, <1>4

LEMMA ActionsTyped ==
    ASSUME TypeInv, NEW w \in Workers, ConfirmNudge(w) \/ FinishNudge(w)
    PROVE  ActionsOK'
<1>. DEFINE q == workers[w]
<1>1. q \in WorkerRow /\ ActionsOK /\ today \in Days
  BY DEF TypeInv, TypeOK, WorldOK
<1>2. CASE ConfirmNudge(w)
  <2>1. PICK c \in Correlations, e \in Events, S \in SUBSET Tasks :
          actions' = Set(actions, c, [status |-> "pending", targets |-> S,
                                      day |-> today, queued |-> 0])
    BY <1>2 DEF ConfirmNudge, Of
  <2>. DEFINE r == [status |-> "pending", targets |-> S, day |-> today, queued |-> 0]
  <2>2. r \in ActionRow BY <1>1 DEF ActionRow
  <2>3. actions' = Set(actions, c, r) BY <2>1
  <2>. HIDE DEF r
  <2>4. DOMAIN actions' = DOMAIN actions \cup {c} BY <2>3 DEF Set
  <2>5. \A x \in DOMAIN actions' : actions'[x] \in ActionRow
    BY <2>3, <2>2, <1>1 DEF Set, ActionsOK
  <2>. QED BY <2>4, <2>5, <1>1 DEF ActionsOK, ActionRow, Days
<1>3. CASE FinishNudge(w)
  <2>1. NudgeStatus(w) \in {"ambiguous", "succeeded", "noop"} BY DEF NudgeStatus
  <2>2. q.queued \in Nat BY <1>1 DEF WorkerRow
  <2>3. /\ DOMAIN actions' = DOMAIN actions
        /\ \A c \in DOMAIN actions :
             \/ actions'[c] = actions[c]
             \/ actions'[c] = [actions[c] EXCEPT !.status = NudgeStatus(w),
                                                 !.queued = q.queued]
    BY <1>3 DEF FinishNudge
  <2>4. ASSUME NEW c \in DOMAIN actions PROVE actions'[c] \in ActionRow
    BY <2>1, <2>2, <2>3, <1>1 DEF ActionsOK, ActionRow
  <2>. QED BY <2>3, <2>4, <1>1 DEF ActionsOK, ActionRow, Days
<1>. QED BY <1>2, <1>3

LEMMA QueueTyped ==
    ASSUME TypeInv, NEW w \in Workers, StartBeat(w) \/ FailRun(w) \/ StatementFails(w)
    PROVE  QueueOK'
<1>1. workers[w] \in WorkerRow /\ QueueOK BY DEF TypeInv, TypeOK
<1>2. Requeued(w) \subseteq Message BY <1>1 DEF Requeued, QueueOK, Message, WorkerRow
<1>3. messages' \subseteq Message /\ nBeats' = nBeats
  BY <1>1, <1>2 DEF StartBeat, FailRun, StatementFails, QueueOK
<1>. QED BY <1>1, <1>3 DEF QueueOK, Message

\* Which of the steps of a worker writes what.
LEMMA WritesOfAStep ==
    ASSUME NEW w \in Workers, Start(w) \/ Step(w) \/ StatementFails(w) \/ Crash(w)
    PROVE  /\ UNCHANGED world
           /\ UNCHANGED receipts \/ Claim(w) \/ Accept(w) \/ Log(w) \/ Doubt(w)
           /\ UNCHANGED handed \/ Handoff(w) \/ HandoffFails(w)
           /\ UNCHANGED runs \/ NextEvent(w) \/ EndEvent(w) \/ FailRun(w)
           /\ \/ UNCHANGED <<nBeats, messages>>
              \/ StartBeat(w) \/ FailRun(w) \/ StatementFails(w)
           /\ UNCHANGED actions \/ ConfirmNudge(w) \/ FinishNudge(w)
           /\ begun' \in {begun, begun + 1} /\ faults' \in {faults, faults + 1}
<1>1. CASE Start(w)
  BY <1>1 DEF Start, StartBeat, StartOverdue, StartSelected, ConfirmNudge
<1>2. CASE NextEvent(w) \/ Load(w) \/ EndEvent(w) \/ End(w) \/ FailRun(w) \/ FinishNudge(w)
  BY <1>2 DEF NextEvent, Load, EndEvent, End, FailRun, FinishNudge
<1>3. CASE Claim(w) \/ Handoff(w) \/ HandoffFails(w) \/ Accept(w) \/ Log(w) \/ Doubt(w)
  BY <1>3 DEF Claim, Handoff, HandoffFails, Accept, Log, Doubt
<1>4. CASE StatementFails(w) \/ Crash(w)
  BY <1>4 DEF StatementFails, Crash
<1>. QED BY <1>1, <1>2, <1>3, <1>4 DEF Step

LEMMA NextTypeInv == TypeInv /\ [Next]_vars => TypeInv'
<1>. SUFFICES ASSUME TypeInv, [Next]_vars PROVE TypeInv'
  OBVIOUS
<1>1. /\ WorldOK /\ ReceiptsOK /\ RunsOK /\ QueueOK /\ ActionsOK /\ WorkersFit
      /\ handed \in [Reminders -> Nat] /\ begun \in Nat /\ faults \in Nat
  BY DEF TypeInv, TypeOK
<1>s. /\ UNCHANGED world => WorldOK'
      /\ UNCHANGED receipts => ReceiptsOK'
      /\ UNCHANGED runs => RunsOK'
      /\ UNCHANGED <<nBeats, messages>> => QueueOK'
      /\ UNCHANGED actions => ActionsOK'
      /\ UNCHANGED workers => WorkersFit'
  <2>1. UNCHANGED world => WorldOK' BY <1>1 DEF WorldOK, world, Days
  <2>2. UNCHANGED receipts => ReceiptsOK'
    BY <1>1 DEF ReceiptsOK, ReceiptRow, Deliveries, Reminders, Channels, Days
  <2>3. UNCHANGED runs => RunsOK' BY <1>1 DEF RunsOK, RunRow, Days
  <2>4. UNCHANGED <<nBeats, messages>> => QueueOK' BY <1>1 DEF QueueOK, Message
  <2>5. UNCHANGED actions => ActionsOK' BY <1>1 DEF ActionsOK, ActionRow, Days
  <2>6. UNCHANGED workers => WorkersFit'
    BY <1>1 DEF WorkersFit, Fits, WorkerRow, Sending, Days, Channels
  <2>. QED BY <2>1, <2>2, <2>3, <2>4, <2>5, <2>6
<1>q. ASSUME WorldOK', ReceiptsOK', RunsOK', QueueOK', ActionsOK', WorkersFit',
             handed' \in [Reminders -> Nat], begun' \in Nat, faults' \in Nat
      PROVE  TypeInv'
  BY <1>q DEF TypeInv, TypeOK, WorkersFit, Reminders, Channels, Days
<1>2. CASE Tick
  <2>1. WorldOK' BY <1>2, <1>1, LimitsAssumption DEF Tick, WorldOK, Days
  <2>. QED BY <2>1, <1>1, <1>2, <1>s, <1>q DEF Tick
<1>3. CASE \E t \in Tasks : Toggle(t)
  <2>1. PICK t \in Tasks : Toggle(t) BY <1>3
  <2>2. WorldOK' BY <2>1, <1>1 DEF Toggle, WorldOK, Days
  <2>. QED BY <2>1, <2>2, <1>1, <1>s, <1>q DEF Toggle
<1>4. CASE Beat
  <2>1. QueueOK' BY <1>4, <1>1 DEF Beat, QueueOK, Message
  <2>. QED BY <2>1, <1>1, <1>4, <1>s, <1>q DEF Beat
<1>5. CASE \E w \in Workers : Start(w) \/ Step(w) \/ StatementFails(w) \/ Crash(w)
  <2>1. PICK w \in Workers : Start(w) \/ Step(w) \/ StatementFails(w) \/ Crash(w)
    BY <1>5
  <2>2. /\ UNCHANGED world
        /\ UNCHANGED receipts \/ Claim(w) \/ Accept(w) \/ Log(w) \/ Doubt(w)
        /\ UNCHANGED handed \/ Handoff(w) \/ HandoffFails(w)
        /\ UNCHANGED runs \/ NextEvent(w) \/ EndEvent(w) \/ FailRun(w)
        /\ \/ UNCHANGED <<nBeats, messages>>
           \/ StartBeat(w) \/ FailRun(w) \/ StatementFails(w)
        /\ UNCHANGED actions \/ ConfirmNudge(w) \/ FinishNudge(w)
        /\ begun' \in {begun, begun + 1} /\ faults' \in {faults, faults + 1}
    BY <2>1, WritesOfAStep
  <2>3. handed' \in [Reminders -> Nat]
    BY <2>2, <1>1 DEF Handoff, HandoffFails
  <2>4. begun' \in Nat /\ faults' \in Nat BY <2>2, <1>1
  <2>5. WorkersFit' BY <2>1, StepFits
  <2>6. ReceiptsOK' BY <2>2, <1>s, ReceiptsTyped
  <2>7. RunsOK' BY <2>2, <1>s, RunsTyped
  <2>8. QueueOK' BY <2>2, <1>s, QueueTyped
  <2>9. ActionsOK' BY <2>2, <1>s, ActionsTyped
  <2>. QED BY <2>2, <2>3, <2>4, <2>5, <2>6, <2>7, <2>8, <2>9, <1>s, <1>q
<1>6. CASE UNCHANGED vars
  BY <1>6, <1>1, <1>s, <1>q DEF vars
<1>. QED BY <1>2, <1>3, <1>4, <1>5, <1>6 DEF Next

LEMMA InitTypeInv == Init => TypeInv
<1>. SUFFICES ASSUME Init PROVE TypeInv
  OBVIOUS
<1>1. WorldOK BY LimitsAssumption DEF Init, WorldOK, Days
<1>2. ReceiptsOK /\ RunsOK /\ QueueOK /\ ActionsOK
  BY DEF Init, ReceiptsOK, RunsOK, QueueOK, ActionsOK
<1>3. WorkersFit
  <2>1. Idle \in WorkerRow BY IdleFits DEF Fits
  <2>2. workers = [w \in Workers |-> Idle] BY DEF Init
  <2>. QED BY <2>1, <2>2, IdleFits DEF WorkersFit
<1>4. handed \in [Reminders -> Nat] /\ begun \in Nat /\ faults \in Nat BY DEF Init
<1>. QED BY <1>1, <1>2, <1>3, <1>4 DEF TypeInv, TypeOK, WorkersFit

\* Every reachable state is type-correct.
THEOREM TypeCorrect == Spec => []TypeOK
<1>1. TypeInv => TypeOK BY DEF TypeInv
<1>. QED BY <1>1, InitTypeInv, NextTypeInv, PTL DEF Spec

-----------------------------------------------------------------------------
(* One mail at most.  A count of hand-offs says nothing of who may hand    *)
(* off next, so the invariant adds what a worker in possession of a        *)
(* reminder relies on: it alone has it, and how far its receipt is.        *)

InHand(w) == workers[w].pc \in Sending
KeyOf(q)  == <<q.task, <<q.channel, q.day>>>>

\* Receipt row r and hand-off count n are those of a worker at pc.
Tells(pc, r, n) ==
    /\ r.log = "failed"
    /\ pc = "handoff" => r.delivery = "pending" /\ n = 0
    /\ pc = "accept"  => r.delivery = "pending" /\ n = 1
    /\ pc = "doubt"   => r.delivery = "pending"
    /\ pc = "log"     => r.delivery = "accepted"

Evident(r, n) ==
    /\ r.delivery = "accepted" => n = 1
    /\ r.log = "sent" => r.delivery = "accepted"

Possession ==
    /\ \A w \in Workers : InHand(w) =>
         /\ KeyOf(workers[w]) \in DOMAIN receipts
         /\ Tells(workers[w].pc, receipts[KeyOf(workers[w])], handed[KeyOf(workers[w])])
    /\ \A v, w \in Workers :
         v # w /\ InHand(v) /\ InHand(w) => KeyOf(workers[v]) # KeyOf(workers[w])

Counts ==
    /\ \A k \in Reminders : handed[k] <= 1
    /\ \A k \in Reminders \ DOMAIN receipts : handed[k] = 0
    /\ \A k \in DOMAIN receipts : Evident(receipts[k], handed[k])

HandInv == Possession /\ Counts

\* A step that leaves receipts and counts alone and takes nothing in hand.
LEMMA Quiet ==
    ASSUME TypeInv, HandInv, UNCHANGED <<receipts, handed>>,
           NEW w \in Workers, NEW q, Become(w, q), q.pc \notin Sending
    PROVE  HandInv'
<1>1. /\ workers'[w] = q /\ \A v \in Workers : v # w => workers'[v] = workers[v]
  BY DEF TypeInv, TypeOK, Become
<1>2. /\ ~InHand(w)'
      /\ \A v \in Workers : v # w => (InHand(v)' <=> InHand(v))
  BY <1>1 DEF InHand, Sending
<1>3. Possession' BY <1>1, <1>2 DEF HandInv, Possession, KeyOf, Tells
<1>4. Counts' BY DEF HandInv, Counts, Evident, Reminders, Channels, Days
<1>. QED BY <1>3, <1>4 DEF HandInv

LEMMA Untouched ==
    ASSUME HandInv, UNCHANGED <<receipts, handed, workers>>
    PROVE  HandInv'
BY DEF HandInv, Possession, Counts, InHand, KeyOf, Tells, Evident, Sending,
       Reminders, Channels, Days

\* A worker changes the receipt and the count of the reminder it has in hand.
LEMMA OwnReminder ==
    ASSUME TypeInv, HandInv, NEW w \in Workers, InHand(w), NEW q, Become(w, q),
           NEW k, k = KeyOf(workers[w]),
           DOMAIN receipts' = DOMAIN receipts,
           \A x \in DOMAIN receipts : x # k => receipts'[x] = receipts[x],
           \A x \in Reminders : x # k => handed'[x] = handed[x],
           handed'[k] <= 1, Evident(receipts'[k], handed'[k]),
           q.pc \in Sending => KeyOf(q) = k /\ Tells(q.pc, receipts'[k], handed'[k])
    PROVE  HandInv'
<1>1. /\ workers'[w] = q /\ \A v \in Workers : v # w => workers'[v] = workers[v]
  BY DEF TypeInv, TypeOK, Become
<1>2. k \in DOMAIN receipts /\ DOMAIN receipts \subseteq Reminders
  BY DEF HandInv, Possession, TypeInv, TypeOK, ReceiptsOK
<1>3. ASSUME NEW v \in Workers, workers'[v].pc \in Sending
      PROVE  /\ KeyOf(workers'[v]) \in DOMAIN receipts'
             /\ Tells(workers'[v].pc, receipts'[KeyOf(workers'[v])], handed'[KeyOf(workers'[v])])
             /\ v # w => KeyOf(workers'[v]) # k /\ InHand(v)
  <2>1. CASE v = w BY <2>1, <1>1, <1>2, <1>3
  <2>2. CASE v # w
    <3>1. workers'[v] = workers[v] /\ InHand(v) BY <1>1, <1>3, <2>2 DEF InHand
    <3>2. KeyOf(workers[v]) # k BY <3>1, <2>2 DEF HandInv, Possession
    <3>3. /\ KeyOf(workers[v]) \in DOMAIN receipts
          /\ Tells(workers[v].pc, receipts[KeyOf(workers[v])], handed[KeyOf(workers[v])])
      BY <3>1 DEF HandInv, Possession
    <3>. QED BY <3>1, <3>2, <3>3, <1>2
  <2>. QED BY <2>1, <2>2
<1>4. ASSUME NEW u \in Workers, NEW v \in Workers, u # v,
             workers'[u].pc \in Sending, workers'[v].pc \in Sending
      PROVE  KeyOf(workers'[u]) # KeyOf(workers'[v])
  <2>1. CASE u = w BY <2>1, <1>1, <1>3, <1>4
  <2>2. CASE v = w BY <2>2, <1>1, <1>3, <1>4
  <2>3. CASE u # w /\ v # w
    BY <2>3, <1>1, <1>3, <1>4 DEF HandInv, Possession
  <2>. QED BY <2>1, <2>2, <2>3
<1>5. Possession'
  BY <1>3, <1>4 DEF Possession, InHand, Sending, KeyOf, Tells
<1>6. Counts'
  <2>1. \A x \in Reminders : handed'[x] <= 1 BY DEF HandInv, Counts
  <2>2. \A x \in Reminders \ DOMAIN receipts' : handed'[x] = 0
    BY <1>2 DEF HandInv, Counts
  <2>3. \A x \in DOMAIN receipts' : Evident(receipts'[x], handed'[x])
    BY <1>2 DEF HandInv, Counts
  <2>. QED BY <2>1, <2>2, <2>3 DEF Counts, Evident, Reminders, Channels, Days
<1>. QED BY <1>5, <1>6 DEF HandInv

\* The unique receipt: whoever inserts it is alone with the reminder.
LEMMA ClaimKeepsHand ==
    ASSUME TypeInv, HandInv, NEW w \in Workers, Claim(w)
    PROVE  HandInv'
<1>. DEFINE q == workers[w]
<1>1. q \in WorkerRow /\ Fits(q) /\ q.pc = "task" /\ UNCHANGED handed
  BY DEF TypeInv, WorkersFit, Claim
<1>2. PICK t \in q.todo :
        LET k == <<t, <<q.channel, q.day>>>>
        IN  IF k \in DOMAIN receipts
            THEN Become(w, Existing(w, k)) /\ UNCHANGED receipts
            ELSE /\ receipts' = Set(receipts, k, [delivery |-> "pending",
                                      run |-> q.id, log |-> "failed"])
                 /\ Become(w, [q EXCEPT !.pc = "handoff", !.task = t])
  BY DEF Claim
<1>. DEFINE k == <<t, <<q.channel, q.day>>>>
            r == [delivery |-> "pending", run |-> q.id, log |-> "failed"]
            p == [q EXCEPT !.pc = "handoff", !.task = t]
<1>3. CASE k \in DOMAIN receipts
  <2>1. Become(w, Existing(w, k)) /\ UNCHANGED receipts BY <1>2, <1>3
  <2>2. Existing(w, k).pc \notin Sending
    BY <1>1, RaiseFits DEF Existing, Sending, WorkerRow
  <2>. QED BY <2>1, <2>2, <1>1, Quiet
<1>4. CASE k \notin DOMAIN receipts
  <2>1. receipts' = Set(receipts, k, r) /\ Become(w, p) BY <1>2, <1>4
  <2>2. k \in Reminders BY <1>1 DEF WorkerRow, Reminders
  <2>3. /\ p.pc = "handoff" /\ KeyOf(p) = k
        /\ r.delivery = "pending" /\ r.log = "failed"
    BY <1>1 DEF KeyOf, WorkerRow
  <2>4. /\ workers'[w] = p /\ \A v \in Workers : v # w => workers'[v] = workers[v]
    BY <2>1 DEF TypeInv, TypeOK, Become
  <2>. HIDE DEF k, r, p
  <2>5. /\ DOMAIN receipts' = DOMAIN receipts \cup {k} /\ receipts'[k] = r
        /\ \A x \in DOMAIN receipts : receipts'[x] = receipts[x]
    BY <2>1, <1>4 DEF Set
  <2>6. handed'[k] = 0 /\ handed' = handed BY <2>2, <1>1, <1>4 DEF HandInv, Counts
  <2>7. ASSUME NEW v \in Workers, v # w, workers'[v].pc \in Sending
        PROVE  /\ KeyOf(workers'[v]) \in DOMAIN receipts /\ KeyOf(workers'[v]) # k
               /\ Tells(workers'[v].pc, receipts'[KeyOf(workers'[v])],
                        handed'[KeyOf(workers'[v])])
    BY <2>4, <2>5, <2>6, <2>7, <1>4 DEF HandInv, Possession, InHand
  <2>8. Possession'
    <3>1. ASSUME NEW v \in Workers, workers'[v].pc \in Sending
          PROVE  /\ KeyOf(workers'[v]) \in DOMAIN receipts'
                 /\ Tells(workers'[v].pc, receipts'[KeyOf(workers'[v])],
                          handed'[KeyOf(workers'[v])])
      <4>1. CASE v = w
        <5>1. Tells("handoff", r, 0) BY <2>3 DEF Tells
        <5>. QED BY <4>1, <5>1, <2>3, <2>4, <2>5, <2>6
      <4>2. CASE v # w BY <4>2, <3>1, <2>5, <2>7
      <4>. QED BY <4>1, <4>2
    <3>2. ASSUME NEW u \in Workers, NEW v \in Workers, u # v,
                 workers'[u].pc \in Sending, workers'[v].pc \in Sending
          PROVE  KeyOf(workers'[u]) # KeyOf(workers'[v])
      <4>1. CASE u = w BY <4>1, <3>2, <2>3, <2>4, <2>7
      <4>2. CASE v = w BY <4>2, <3>2, <2>3, <2>4, <2>7
      <4>3. CASE u # w /\ v # w
        BY <4>3, <3>2, <2>4 DEF HandInv, Possession, InHand
      <4>. QED BY <4>1, <4>2, <4>3
    <3>. QED BY <3>1, <3>2 DEF Possession, InHand, Sending, KeyOf, Tells
  <2>9. Counts'
    <3>1. Evident(r, 0) BY <2>3 DEF Evident
    <3>2. \A x \in DOMAIN receipts' : Evident(receipts'[x], handed'[x])
      BY <3>1, <2>5, <2>6 DEF HandInv, Counts
    <3>3. /\ \A x \in Reminders : handed'[x] <= 1
          /\ \A x \in Reminders \ DOMAIN receipts' : handed'[x] = 0
      BY <2>5, <2>6 DEF HandInv, Counts
    <3>. QED BY <3>2, <3>3 DEF Counts, Evident, Reminders, Channels, Days
  <2>. QED BY <2>8, <2>9 DEF HandInv
<1>. QED BY <1>3, <1>4

\* The steps of a worker that has a reminder in hand.
LEMMA SendingKeepsHand ==
    ASSUME TypeInv, HandInv, NEW w \in Workers,
           Handoff(w) \/ HandoffFails(w) \/ Accept(w) \/ Log(w) \/ Doubt(w)
    PROVE  HandInv'
<1>. DEFINE q == workers[w]
            k == KeyOf(q)
<1>1. /\ q \in WorkerRow /\ Fits(q) /\ InHand(w) /\ Reminder(w) = k
      /\ handed \in [Reminders -> Nat]
  BY DEF TypeInv, TypeOK, WorkersFit, InHand, Sending, Reminder, KeyOf,
         Handoff, HandoffFails, Accept, Log, Doubt
<1>2. /\ k \in DOMAIN receipts /\ k \in Reminders
      /\ Tells(q.pc, receipts[k], handed[k]) /\ Evident(receipts[k], handed[k])
      /\ receipts[k] \in ReceiptRow /\ handed[k] <= 1
  BY <1>1 DEF HandInv, Possession, Counts, TypeInv, TypeOK, ReceiptsOK
<1>3. \A pc : KeyOf([q EXCEPT !.pc = pc]) = k /\ [q EXCEPT !.pc = pc].pc = pc
  BY <1>1 DEF KeyOf, WorkerRow
<1>4. CASE Handoff(w)
  <2>. DEFINE p == [q EXCEPT !.pc = "accept"]
  <2>1. /\ q.pc = "handoff" /\ Become(w, p) /\ UNCHANGED receipts
        /\ handed' = [handed EXCEPT ![k] = @ + 1]
    BY <1>4, <1>1 DEF Handoff, Goto
  <2>2. receipts[k].delivery = "pending" /\ handed[k] = 0 /\ receipts[k].log = "failed"
    BY <2>1, <1>2 DEF Tells
  <2>3. handed'[k] = 1 BY <2>1, <2>2, <1>1, <1>2
  <2>4. Evident(receipts'[k], handed'[k]) /\ Tells(p.pc, receipts'[k], handed'[k])
    BY <2>1, <2>2, <2>3, <1>3 DEF Evident, Tells
  <2>5. \A x \in Reminders : x # k => handed'[x] = handed[x] BY <2>1, <1>1
  <2>6. KeyOf(p) = k BY <1>3
  <2>. HIDE DEF p, k
  <2>. QED BY <2>1, <2>3, <2>4, <2>5, <2>6, <1>1, OwnReminder DEF k
<1>5. CASE HandoffFails(w)
  <2>. DEFINE p == [q EXCEPT !.pc = "doubt"]
  <2>1. PICK n \in {0, 1} :
          /\ q.pc = "handoff" /\ Become(w, p) /\ UNCHANGED receipts
          /\ handed' = [handed EXCEPT ![k] = @ + n]
    BY <1>5, <1>1 DEF HandoffFails, Goto
  <2>2. receipts[k].delivery = "pending" /\ handed[k] = 0 /\ receipts[k].log = "failed"
    BY <2>1, <1>2 DEF Tells
  <2>3. handed'[k] <= 1 BY <2>1, <2>2, <1>1, <1>2
  <2>4. Evident(receipts'[k], handed'[k]) /\ Tells(p.pc, receipts'[k], handed'[k])
    BY <2>1, <2>2, <2>3, <1>3 DEF Evident, Tells
  <2>5. \A x \in Reminders : x # k => handed'[x] = handed[x] BY <2>1, <1>1
  <2>6. KeyOf(p) = k BY <1>3
  <2>. HIDE DEF p, k
  <2>. QED BY <2>1, <2>3, <2>4, <2>5, <2>6, <1>1, OwnReminder DEF k
<1>6. CASE Accept(w)
  <2>. DEFINE p == [q EXCEPT !.pc = "log"]
  <2>1. /\ q.pc = "accept" /\ Become(w, p) /\ UNCHANGED handed
        /\ receipts' = [receipts EXCEPT ![k].delivery = "accepted"]
    BY <1>6, <1>1 DEF Accept, Goto
  <2>2. handed[k] = 1 /\ receipts[k].log = "failed" BY <2>1, <1>2 DEF Tells
  <2>3. /\ DOMAIN receipts' = DOMAIN receipts
        /\ receipts'[k].delivery = "accepted" /\ receipts'[k].log = "failed"
        /\ \A x \in DOMAIN receipts : x # k => receipts'[x] = receipts[x]
    BY <2>1, <2>2, <1>2 DEF ReceiptRow
  <2>4. Evident(receipts'[k], handed'[k]) /\ Tells(p.pc, receipts'[k], handed'[k])
    BY <2>1, <2>2, <2>3, <1>3 DEF Evident, Tells
  <2>5. KeyOf(p) = k /\ handed'[k] <= 1 BY <1>3, <1>2, <2>1
  <2>. HIDE DEF p, k
  <2>. QED BY <2>1, <2>3, <2>4, <2>5, <1>1, OwnReminder DEF k
<1>7. CASE Log(w)
  <2>. DEFINE p == AtLoop(w, 1)
  <2>1. /\ q.pc = "log" /\ Become(w, p) /\ UNCHANGED handed
        /\ receipts' = [receipts EXCEPT ![k].log = "sent"]
    BY <1>7, <1>1 DEF Log
  <2>2. receipts[k].delivery = "accepted" /\ handed[k] = 1
    BY <2>1, <1>2 DEF Tells, Evident
  <2>3. /\ DOMAIN receipts' = DOMAIN receipts
        /\ receipts'[k].delivery = "accepted"
        /\ \A x \in DOMAIN receipts : x # k => receipts'[x] = receipts[x]
    BY <2>1, <2>2, <1>2 DEF ReceiptRow
  <2>4. Evident(receipts'[k], handed'[k]) /\ handed'[k] <= 1
    BY <2>1, <2>2, <2>3 DEF Evident
  <2>5. p.pc \notin Sending BY <1>1, LoopHeadFits DEF Sending
  <2>. HIDE DEF p, k
  <2>. QED BY <2>1, <2>3, <2>4, <2>5, <1>1, OwnReminder DEF k
<1>8. CASE Doubt(w)
  <2>. DEFINE p == AfterRaise(w, "ambiguous")
  <2>1. /\ q.pc = "doubt" /\ Become(w, p) /\ UNCHANGED handed
        /\ receipts' = [receipts EXCEPT ![k].delivery = "ambiguous"]
    BY <1>8, <1>1 DEF Doubt
  <2>2. receipts[k].log = "failed" BY <2>1, <1>2 DEF Tells
  <2>3. /\ DOMAIN receipts' = DOMAIN receipts
        /\ receipts'[k].delivery = "ambiguous" /\ receipts'[k].log = "failed"
        /\ \A x \in DOMAIN receipts : x # k => receipts'[x] = receipts[x]
    BY <2>1, <2>2, <1>2 DEF ReceiptRow
  <2>4. Evident(receipts'[k], handed'[k]) /\ handed'[k] <= 1
    BY <2>1, <2>3, <1>2 DEF Evident
  <2>5. p.pc \notin Sending BY <1>1, RaiseFits
  <2>. HIDE DEF p, k
  <2>. QED BY <2>1, <2>3, <2>4, <2>5, <1>1, OwnReminder DEF k
<1>. QED BY <1>4, <1>5, <1>6, <1>7, <1>8

LEMMA NextHandInv == TypeInv /\ HandInv /\ [Next]_vars => HandInv'
<1>. SUFFICES ASSUME TypeInv, HandInv, [Next]_vars PROVE HandInv'
  OBVIOUS
<1>1. CASE Tick \/ Beat \/ (\E t \in Tasks : Toggle(t)) \/ UNCHANGED vars
  BY <1>1, Untouched DEF Tick, Beat, Toggle, vars
<1>2. ASSUME NEW w \in Workers,
             Start(w) \/ Step(w) \/ StatementFails(w) \/ Crash(w)
      PROVE  HandInv'
  <2>. DEFINE q == workers[w]
  <2>0. q \in WorkerRow /\ Fits(q) /\ Idle.pc \notin Sending
        /\ \A o \in {"failed", "ambiguous"} : AfterRaise(w, o).pc \notin Sending
    BY RaiseFits DEF TypeInv, WorkersFit, Idle, Sending
  <2>1. CASE StartBeat(w)
    <3>1. PICK p : Become(w, p) /\ p.pc = "event" /\ UNCHANGED <<receipts, handed>>
      BY <2>1 DEF StartBeat, Idle
    <3>. QED BY <3>1, Quiet DEF Sending
  <2>2. CASE StartOverdue(w)
    <3>1. PICK p : Become(w, p) /\ p.pc = "event" /\ UNCHANGED <<receipts, handed>>
      BY <2>2 DEF StartOverdue, Idle
    <3>. QED BY <3>1, Quiet DEF Sending
  <2>3. CASE StartSelected(w)
    <3>1. PICK p : Become(w, p) /\ p.pc = "task" /\ UNCHANGED <<receipts, handed>>
      BY <2>3 DEF StartSelected, Idle
    <3>. QED BY <3>1, Quiet DEF Sending
  <2>4. CASE ConfirmNudge(w)
    <3>1. PICK p : Become(w, p) /\ p.pc = "task" /\ UNCHANGED <<receipts, handed>>
      BY <2>4 DEF ConfirmNudge, Idle
    <3>. QED BY <3>1, Quiet DEF Sending
  <2>5. CASE NextEvent(w)
    <3>1. PICK e \in q.events :
             \/ Become(w, [q EXCEPT !.pc = "load", !.event = e, !.events = @ \ {e}])
             \/ Become(w, [q EXCEPT !.events = @ \ {e}])
      BY <2>5 DEF NextEvent
    <3>2. /\ [q EXCEPT !.pc = "load", !.event = e, !.events = @ \ {e}].pc = "load"
          /\ [q EXCEPT !.events = @ \ {e}].pc = "event"
          /\ UNCHANGED <<receipts, handed>>
      BY <2>0, <2>5 DEF WorkerRow, NextEvent
    <3>. QED BY <3>1, <3>2, Quiet DEF Sending
  <2>6. CASE Load(w)
    <3>1. PICK p : Become(w, p) /\ p.pc = "task" /\ UNCHANGED <<receipts, handed>>
      BY <2>6, <2>0 DEF Load, WorkerRow
    <3>. QED BY <3>1, Quiet DEF Sending
  <2>7. CASE EndEvent(w)
    <3>1. PICK p : Become(w, p) /\ p.pc = "event" /\ UNCHANGED <<receipts, handed>>
      BY <2>7, <2>0 DEF EndEvent, WorkerRow
    <3>. QED BY <3>1, Quiet DEF Sending
  <2>8. CASE End(w) \/ FailRun(w) \/ FinishNudge(w) \/ Crash(w)
    BY <2>8, <2>0, Quiet DEF End, FailRun, FinishNudge, Crash
  <2>9. CASE StatementFails(w)
    BY <2>9, <2>0, Quiet DEF StatementFails
  <2>10. CASE Claim(w) BY <2>10, ClaimKeepsHand
  <2>11. CASE Handoff(w) \/ HandoffFails(w) \/ Accept(w) \/ Log(w) \/ Doubt(w)
    BY <2>11, SendingKeepsHand
  <2>. QED BY <1>2, <2>1, <2>2, <2>3, <2>4, <2>5, <2>6, <2>7, <2>8, <2>9, <2>10,
             <2>11 DEF Start, Step
<1>. QED BY <1>1, <1>2 DEF Next

LEMMA InitHandInv == Init => HandInv
BY DEF Init, HandInv, Possession, Counts, InHand, Idle, Sending

\* The broker gets the mail of a task and a key at most once.
THEOREM MailedOnce == Spec => []AtMostOnce
<1>1. HandInv => AtMostOnce BY DEF HandInv, Counts, AtMostOnce
<1>. QED BY <1>1, InitTypeInv, NextTypeInv, InitHandInv, NextHandInv, PTL DEF Spec

\* Receipts and logs never say more than what the broker got.
THEOREM Evidence == Spec => []EvidenceIsReal
<1>1. HandInv => EvidenceIsReal
  BY DEF HandInv, Counts, Evident, EvidenceIsReal
<1>. QED BY <1>1, InitTypeInv, NextTypeInv, InitHandInv, NextHandInv, PTL DEF Spec

-----------------------------------------------------------------------------
(* What a worker is in the middle of.                                      *)

Shape(q) ==
    /\ q.mode = "beat" <=> q.id # 0
    /\ q.todo \subseteq q.loaded /\ q.loaded \subseteq Of(q.event)
    /\ q.pc \in {"idle", "event", "load"} => q.loaded = {}
    /\ q.pc \in Sending => q.task \in q.todo
    /\ q.pc = "fail" => q.mode = "beat"
    /\ q.mode = "beat" =>
         /\ q.pc # "idle" /\ q.channel = "overdue"
         /\ q.pc # "fail" => q.outcome = "none"
    /\ q.mode = "nudge" =>
         /\ q.pc \in {"task"} \cup Sending /\ q.channel = "buzz"
         /\ q.outcome # "failed"

\* The row that a step gives a worker: an end, a new execution, or a move within
\* the one it has, of which kind, mode, key and snapshot stay.
Kept(q, r) ==
    /\ r.mode = q.mode /\ r.id = q.id /\ r.day = q.day /\ r.channel = q.channel
    /\ r.corr = q.corr
Begins(r) ==
    /\ r.pc = "event" /\ r.mode = "beat" /\ r.channel = "overdue" /\ r.outcome = "none"
    /\ r.loaded = {} /\ r.todo = {}
Asked(r) ==
    /\ r.mode = "request" /\ r.id = 0 /\ r.outcome = "none" /\ r.todo = r.loaded
    /\ \/ r.pc = "event" /\ r.loaded = {}
       \/ r.pc = "task" /\ r.loaded \subseteq Of(r.event)
Confirmed(r) ==
    /\ r.mode = "nudge" /\ r.id = 0 /\ r.outcome = "none" /\ r.todo = r.loaded
    /\ r.pc = "task" /\ r.loaded \subseteq Of(r.event) /\ r.channel = "buzz"
Enters(q, r) ==
    /\ q.pc = "event" /\ r.pc \in {"event", "load"} /\ r.outcome = q.outcome
    /\ r.loaded = q.loaded /\ r.todo = q.todo
Loads(q, r) ==
    /\ q.pc = "load" /\ r.pc = "task" /\ r.event = q.event /\ r.outcome = q.outcome
    /\ r.loaded \subseteq Of(q.event) /\ r.todo = r.loaded
Moves(q, r) ==
    /\ r.event = q.event /\ r.loaded = q.loaded /\ r.outcome = q.outcome
    /\ \/ q.pc = "task" /\ r.pc = "handoff" /\ r.todo = q.todo /\ r.task \in q.todo
       \/ q.pc \in Sending /\ r.pc \in Sending /\ r.todo = q.todo /\ r.task = q.task
       \/ q.pc \in {"task", "log"} /\ r.pc = "task" /\ \E t \in q.todo : r.todo = q.todo \ {t}
Raises(q, r) ==
    /\ r.event = q.event /\ r.loaded = q.loaded
    /\ \/ q.mode = "beat" /\ r.pc = "fail" /\ r.todo = q.todo
       \/ /\ q.mode = "nudge" /\ r.pc = "task" /\ r.todo = {}
          /\ r.outcome = "ambiguous"
Closes(q, r) ==
    /\ q.pc = "task" /\ q.todo = {} /\ q.mode \in {"beat", "request"}
    /\ r.pc = "event" /\ r.event = NoEvent /\ r.loaded = {} /\ r.todo = {}
    /\ r.outcome = q.outcome

LEMMA IdleShape == Shape(Idle)
BY DEF Idle, Shape, Sending

LEMMA NothingOfNoEvent == Of(NoEvent) = {}
BY TasksAssumption DEF Of

LEMMA BeginsShape ==
    ASSUME NEW r, (Begins(r) /\ r.id # 0) \/ Asked(r) \/ Confirmed(r)
    PROVE  Shape(r)
<1>1. CASE Begins(r) /\ r.id # 0 BY <1>1 DEF Shape, Begins, Sending
<1>2. CASE Asked(r) BY <1>2 DEF Shape, Asked, Sending
<1>3. CASE Confirmed(r) BY <1>3 DEF Shape, Confirmed, Sending
<1>. QED BY <1>1, <1>2, <1>3

LEMMA MovesShape ==
    ASSUME NEW q, Shape(q), NEW r, Kept(q, r),
           Enters(q, r) \/ Loads(q, r) \/ Moves(q, r) \/ Raises(q, r) \/ Closes(q, r)
    PROVE  Shape(r)
<1>1. CASE Enters(q, r) BY <1>1 DEF Shape, Kept, Enters, Sending
<1>2. CASE Loads(q, r) BY <1>2 DEF Shape, Kept, Loads, Sending
<1>3. CASE Moves(q, r) BY <1>3 DEF Shape, Kept, Moves, Sending
<1>4. CASE Raises(q, r) BY <1>4 DEF Shape, Kept, Raises, Sending
<1>5. CASE Closes(q, r) BY <1>5, NothingOfNoEvent DEF Shape, Kept, Closes, Sending
<1>. QED BY <1>1, <1>2, <1>3, <1>4, <1>5

LEMMA RaisedRow ==
    ASSUME NEW w, workers[w] \in WorkerRow, NEW o
    PROVE  \/ AfterRaise(w, o) = Idle
           \/ Kept(workers[w], AfterRaise(w, o)) /\ Raises(workers[w], AfterRaise(w, o))
<1>. DEFINE q == workers[w]
<1>1. CASE q.mode = "beat"
  <2>. DEFINE r == [q EXCEPT !.pc = "fail", !.task = NoTask, !.outcome = o]
  <2>1. AfterRaise(w, o) = r BY <1>1 DEF AfterRaise
  <2>2. Kept(q, r) /\ Raises(q, r) BY <1>1 DEF WorkerRow, Kept, Raises
  <2>. QED BY <2>1, <2>2
<1>2. CASE q.mode = "nudge"
  <2>. DEFINE r == [q EXCEPT !.pc = "task", !.todo = {}, !.task = NoTask,
                             !.outcome = "ambiguous"]
  <2>1. AfterRaise(w, o) = r BY <1>2 DEF AfterRaise
  <2>2. Kept(q, r) /\ Raises(q, r) BY <1>2 DEF WorkerRow, Kept, Raises
  <2>. QED BY <2>1, <2>2
<1>3. CASE q.mode \notin {"beat", "nudge"} BY <1>3 DEF AfterRaise
<1>. QED BY <1>1, <1>2, <1>3

\* A step changes one row, to one that is idle, new, or a move of the old.
Kinds(q, r) ==
    \/ r = Idle
    \/ /\ Kept(q, r)
       /\ Enters(q, r) \/ Loads(q, r) \/ Moves(q, r) \/ Raises(q, r) \/ Closes(q, r)

LEMMA OneRow ==
    ASSUME TypeInv, NEW w \in Workers, NEW r, Become(w, r)
    PROVE  /\ DOMAIN workers' = Workers /\ workers'[w] = r
           /\ \A v \in Workers : v # w => workers'[v] = workers[v]
BY DEF TypeInv, TypeOK, Become

LEMMA StartRows ==
    ASSUME TypeInv, NEW w \in Workers, Start(w)
    PROVE  \E r :
             /\ Become(w, r)
             /\ \/ \E m \in messages :
                     /\ Begins(r) /\ r.id = m.id
                     /\ messages' = messages \ {m} /\ UNCHANGED actions
                \/ Asked(r) /\ UNCHANGED <<messages, actions>>
                \/ /\ Confirmed(r) /\ UNCHANGED messages
                   /\ \E c \in Correlations \ DOMAIN actions :
                        /\ r.corr = {c}
                        /\ actions' = Set(actions, c,
                             [status |-> "pending", targets |-> r.loaded,
                              day |-> r.day, queued |-> 0])
             /\ UNCHANGED <<receipts, handed, runs, nBeats>> /\ workers[w] = Idle
<1>0. /\ Idle.mode = "none" /\ Idle.id = 0 /\ Idle.loaded = {} /\ Idle.todo = {}
      /\ Idle.outcome = "none" /\ Idle.channel = "overdue"
      /\ Idle \in WorkerRow
  BY IdleFits DEF Idle, Fits
<1>1. CASE StartBeat(w)
  <2>1. PICK m \in messages :
          /\ messages' = messages \ {m}
          /\ Become(w, [Idle EXCEPT !.pc = "event", !.mode = "beat", !.id = m.id,
                        !.retries = m.retries, !.day = today, !.events = Events])
    BY <1>1 DEF StartBeat
  <2>. DEFINE r == [Idle EXCEPT !.pc = "event", !.mode = "beat", !.id = m.id,
                        !.retries = m.retries, !.day = today, !.events = Events]
  <2>2. Begins(r) /\ r.id = m.id BY <1>0 DEF Begins, WorkerRow
  <2>. HIDE DEF r
  <2>3. Become(w, r) BY <2>1 DEF r
  <2>. QED BY <1>1, <2>1, <2>2, <2>3 DEF StartBeat
<1>2. CASE StartOverdue(w)
  <2>1. PICK E, day :
          Become(w, [Idle EXCEPT !.pc = "event", !.mode = "request",
                               !.day = day, !.events = E])
    BY <1>2 DEF StartOverdue
  <2>. DEFINE r == [Idle EXCEPT !.pc = "event", !.mode = "request",
                               !.day = day, !.events = E]
  <2>2. Asked(r) BY <1>0 DEF Asked, WorkerRow
  <2>. HIDE DEF r
  <2>3. Become(w, r) BY <2>1 DEF r
  <2>. QED BY <1>2, <2>2, <2>3 DEF StartOverdue
<1>3. CASE StartSelected(w)
  <2>1. PICK e \in Events : \E S \in SUBSET Of(e) :
          Become(w, [Idle EXCEPT !.pc = "task", !.mode = "request",
                     !.channel = "selected", !.day = today, !.event = e,
                     !.loaded = S \cap open, !.todo = S \cap open])
    BY <1>3 DEF StartSelected
  <2>5. PICK S \in SUBSET Of(e) :
          Become(w, [Idle EXCEPT !.pc = "task", !.mode = "request",
                     !.channel = "selected", !.day = today, !.event = e,
                     !.loaded = S \cap open, !.todo = S \cap open])
    BY <2>1
  <2>. DEFINE r == [Idle EXCEPT !.pc = "task", !.mode = "request",
                     !.channel = "selected", !.day = today, !.event = e,
                     !.loaded = S \cap open, !.todo = S \cap open]
  <2>2. r.loaded = S \cap open /\ r.event = e BY <1>0 DEF WorkerRow
  <2>3. Asked(r) BY <1>0, <2>2 DEF Asked, WorkerRow
  <2>. HIDE DEF r
  <2>4. Become(w, r) BY <2>5 DEF r
  <2>. QED BY <1>3, <2>3, <2>4 DEF StartSelected
<1>4. CASE ConfirmNudge(w)
  <2>1. PICK c \in Correlations \ DOMAIN actions, e \in Events : \E S \in SUBSET Of(e) :
          /\ actions' = Set(actions, c, [status |-> "pending", targets |-> S,
                                         day |-> today, queued |-> 0])
          /\ Become(w, [Idle EXCEPT !.pc = "task", !.mode = "nudge",
                        !.corr = {c}, !.channel = "buzz", !.day = today,
                        !.event = e, !.loaded = S, !.todo = S])
    BY <1>4 DEF ConfirmNudge
  <2>5. PICK S \in SUBSET Of(e) :
          /\ actions' = Set(actions, c, [status |-> "pending", targets |-> S,
                                         day |-> today, queued |-> 0])
          /\ Become(w, [Idle EXCEPT !.pc = "task", !.mode = "nudge",
                        !.corr = {c}, !.channel = "buzz", !.day = today,
                        !.event = e, !.loaded = S, !.todo = S])
    BY <2>1
  <2>. DEFINE r == [Idle EXCEPT !.pc = "task", !.mode = "nudge",
                        !.corr = {c}, !.channel = "buzz", !.day = today,
                        !.event = e, !.loaded = S, !.todo = S]
  <2>2. /\ r.loaded = S /\ r.event = e /\ r.corr = {c} /\ r.day = today
        /\ Confirmed(r)
    BY <1>0 DEF WorkerRow, Confirmed
  <2>. HIDE DEF r
  <2>3. Become(w, r) BY <2>5 DEF r
  <2>. QED BY <1>4, <2>2, <2>3, <2>5 DEF ConfirmNudge
<1>. QED BY <1>1, <1>2, <1>3, <1>4 DEF Start

LEMMA StepRows ==
    ASSUME TypeInv, NEW w \in Workers, Shape(workers[w]),
           Step(w) \/ StatementFails(w) \/ Crash(w)
    PROVE  \E r : Become(w, r) /\ Kinds(workers[w], r)
<1>. DEFINE q == workers[w]
<1>0. q \in WorkerRow BY DEF TypeInv, TypeOK
<1>1. \A o : Kinds(q, AfterRaise(w, o)) BY <1>0, RaisedRow DEF Kinds
<1>2. CASE NextEvent(w)
  <2>1. PICK e \in q.events :
           \/ Become(w, [q EXCEPT !.pc = "load", !.event = e, !.events = @ \ {e}])
           \/ Become(w, [q EXCEPT !.events = @ \ {e}])
    BY <1>2 DEF NextEvent
  <2>2. /\ Kinds(q, [q EXCEPT !.pc = "load", !.event = e, !.events = @ \ {e}])
        /\ Kinds(q, [q EXCEPT !.events = @ \ {e}])
    BY <1>0, <1>2 DEF Kinds, Kept, Enters, WorkerRow, NextEvent
  <2>. QED BY <2>1, <2>2
<1>3. CASE Load(w)
  <2>. DEFINE T == Of(q.event) \cap Overdue(q.day)
              r == [q EXCEPT !.pc = "task", !.loaded = T, !.todo = T]
  <2>1. Become(w, r) /\ q.pc = "load" BY <1>3 DEF Load
  <2>2. Kept(q, r) /\ Loads(q, r) BY <1>0, <2>1 DEF Kept, Loads, WorkerRow
  <2>. QED BY <2>1, <2>2 DEF Kinds
<1>4. CASE Claim(w)
  <2>1. PICK t \in q.todo :
           \/ Become(w, Existing(w, <<t, <<q.channel, q.day>>>>))
           \/ Become(w, [q EXCEPT !.pc = "handoff", !.task = t])
    BY <1>4 DEF Claim
  <2>2. q.pc = "task" BY <1>4 DEF Claim
  <2>3. Kinds(q, [q EXCEPT !.pc = "handoff", !.task = t])
    BY <1>0, <2>2 DEF Kinds, Kept, Moves, WorkerRow
  <2>4. Kinds(q, [q EXCEPT !.todo = @ \ {t}])
    BY <1>0, <2>2 DEF Kinds, Kept, Moves, WorkerRow
  <2>5. Kinds(q, Existing(w, <<t, <<q.channel, q.day>>>>))
    BY <1>1, <2>4 DEF Existing
  <2>. QED BY <2>1, <2>3, <2>5
<1>5. CASE Handoff(w) \/ HandoffFails(w) \/ Accept(w)
  <2>1. PICK pc \in {"accept", "doubt", "log"} : Become(w, [q EXCEPT !.pc = pc])
    BY <1>5 DEF Handoff, HandoffFails, Accept, Goto
  <2>2. q.pc \in Sending BY <1>5 DEF Handoff, HandoffFails, Accept, Sending
  <2>3. Kinds(q, [q EXCEPT !.pc = pc])
    BY <1>0, <2>2 DEF Kinds, Kept, Moves, WorkerRow, Sending
  <2>. QED BY <2>1, <2>3
<1>6. CASE Log(w)
  <2>1. Become(w, AtLoop(w, 1)) /\ q.pc = "log" /\ q.task \in q.todo
    BY <1>6 DEF Log, Shape, Sending
  <2>2. AtLoop(w, 1) = [q EXCEPT !.pc = "task", !.todo = q.todo \ {q.task},
                                 !.task = NoTask, !.queued = q.queued + 1]
    BY DEF AtLoop
  <2>3. Kinds(q, AtLoop(w, 1))
    BY <1>0, <2>1, <2>2 DEF Kinds, Kept, Moves, WorkerRow
  <2>. QED BY <2>1, <2>3
<1>7. CASE Doubt(w) BY <1>1, <1>7 DEF Doubt
<1>8. CASE EndEvent(w)
  <2>. DEFINE r == [q EXCEPT !.pc = "event", !.event = NoEvent,
                             !.loaded = {}, !.queued = 0]
  <2>1. /\ Become(w, r) /\ q.pc = "task" /\ q.todo = {}
        /\ q.mode \in {"beat", "request"}
    BY <1>8 DEF EndEvent
  <2>2. Kinds(q, r) BY <1>0, <2>1 DEF Kinds, Kept, Closes, WorkerRow
  <2>. QED BY <2>1, <2>2
<1>9. CASE End(w) \/ FailRun(w) \/ FinishNudge(w) \/ Crash(w)
  BY <1>9 DEF End, FailRun, FinishNudge, Crash, Kinds
<1>10. CASE StatementFails(w)
  BY <1>1, <1>10 DEF StatementFails, Kinds
<1>. QED BY <1>2, <1>3, <1>4, <1>5, <1>6, <1>7, <1>8, <1>9, <1>10 DEF Step

\* One execution of a Celery id at a time: it waits as one message, or is run by
\* one worker.
IdsInv ==
    /\ \A m \in messages : m.id \in 1..nBeats
    /\ \A m, n \in messages : m.id = n.id => m = n
    /\ \A w \in Workers : workers[w].id # 0 =>
         workers[w].id \in 1..nBeats /\ \A m \in messages : m.id # workers[w].id
    /\ \A v, w \in Workers :
         v # w /\ workers[v].id # 0 => workers[v].id # workers[w].id

RowsInv == (\A w \in Workers : Shape(workers[w])) /\ IdsInv

LEMMA InitRowsInv == Init => RowsInv
<1>. SUFFICES ASSUME Init PROVE RowsInv OBVIOUS
<1>1. \A w \in Workers : workers[w] = Idle BY DEF Init
<1>2. Idle.id = 0 BY DEF Idle
<1>3. messages = {} BY DEF Init
<1>. QED BY <1>1, <1>2, <1>3, IdleShape DEF RowsInv, IdsInv

LEMMA StepMessages ==
    ASSUME NEW w \in Workers, Step(w) \/ StatementFails(w) \/ Crash(w)
    PROVE  /\ nBeats' = nBeats
           /\ \/ UNCHANGED messages
              \/ Become(w, Idle) /\ messages' = Requeued(w)
<1>1. CASE NextEvent(w) \/ Load(w) \/ EndEvent(w) \/ End(w) \/ FailRun(w) \/ FinishNudge(w)
  BY <1>1 DEF NextEvent, Load, EndEvent, End, FailRun, FinishNudge
<1>2. CASE Claim(w) \/ Handoff(w) \/ HandoffFails(w) \/ Accept(w) \/ Log(w) \/ Doubt(w)
  BY <1>2 DEF Claim, Handoff, HandoffFails, Accept, Log, Doubt
<1>3. CASE StatementFails(w) \/ Crash(w) BY <1>3 DEF StatementFails, Crash
<1>. QED BY <1>1, <1>2, <1>3 DEF Step

LEMMA NextRowsInv ==
    ASSUME TypeInv, RowsInv, [Next]_vars
    PROVE  RowsInv'
<1>0. /\ nBeats \in Nat /\ DOMAIN workers = Workers
      /\ \A w \in Workers : workers[w] \in WorkerRow
      /\ Idle.id = 0 /\ Shape(Idle)
  BY IdleShape DEF TypeInv, TypeOK, QueueOK, Idle
<1>1. CASE Tick \/ (\E t \in Tasks : Toggle(t)) \/ UNCHANGED vars
  <2>1. UNCHANGED <<workers, messages, nBeats>> BY <1>1 DEF Tick, Toggle, vars
  <2>. QED BY <2>1 DEF RowsInv, IdsInv
<1>2. CASE Beat
  <2>. DEFINE m == [id |-> nBeats + 1, retries |-> 0]
  <2>1. /\ UNCHANGED workers /\ nBeats' = nBeats + 1
        /\ messages' = messages \cup {m} /\ m.id = nBeats + 1
    BY <1>2 DEF Beat
  <2>. HIDE DEF m
  <2>2. \A i : i \in 1..nBeats => i \in 1..nBeats' /\ i # m.id BY <1>0, <2>1
  <2>3. m.id \in 1..nBeats' /\ m.id # 0 BY <1>0, <2>1
  <2>4. IdsInv' BY <2>1, <2>2, <2>3 DEF RowsInv, IdsInv
  <2>. QED BY <2>1, <2>4 DEF RowsInv
<1>3. ASSUME NEW w \in Workers, Start(w) PROVE RowsInv'
  <2>1. PICK r :
          /\ Become(w, r) /\ nBeats' = nBeats
          /\ \/ \E m \in messages :
                     Begins(r) /\ r.id = m.id /\ messages' = messages \ {m}
             \/ (Asked(r) \/ Confirmed(r)) /\ UNCHANGED messages
    BY <1>3, StartRows
  <2>2. workers'[w] = r /\ \A v \in Workers : v # w => workers'[v] = workers[v]
    BY <2>1, OneRow
  <2>3. CASE \E m \in messages :
               Begins(r) /\ r.id = m.id /\ messages' = messages \ {m}
    <3>1. PICK m \in messages : Begins(r) /\ r.id = m.id /\ messages' = messages \ {m}
      BY <2>3
    <3>2. m.id \in 1..nBeats /\ m.id # 0 BY <1>0 DEF RowsInv, IdsInv
    <3>3. Shape(r) BY <3>1, <3>2, BeginsShape
    <3>4. IdsInv' BY <2>1, <2>2, <3>1, <3>2 DEF RowsInv, IdsInv
    <3>. QED BY <2>2, <3>3, <3>4 DEF RowsInv
  <2>4. CASE (Asked(r) \/ Confirmed(r)) /\ UNCHANGED messages
    <3>1. r.id = 0 BY <2>4 DEF Asked, Confirmed
    <3>2. Shape(r) BY <2>4, BeginsShape
    <3>3. IdsInv' BY <2>1, <2>2, <2>4, <3>1 DEF RowsInv, IdsInv
    <3>. QED BY <2>2, <3>2, <3>3 DEF RowsInv
  <2>. QED BY <2>1, <2>3, <2>4
<1>4. ASSUME NEW w \in Workers, Step(w) \/ StatementFails(w) \/ Crash(w) PROVE RowsInv'
  <2>0. Shape(workers[w]) BY DEF RowsInv
  <2>1. PICK r : Become(w, r) /\ Kinds(workers[w], r) BY <1>4, <2>0, StepRows
  <2>2. workers'[w] = r /\ \A v \in Workers : v # w => workers'[v] = workers[v]
    BY <2>1, OneRow
  <2>3. Shape(r) BY <1>0, <2>0, <2>1, MovesShape DEF Kinds
  <2>4. r.id \in {0, workers[w].id} BY <1>0, <2>1 DEF Kinds, Kept
  <2>5. nBeats' = nBeats BY <1>4, StepMessages
  <2>6. CASE UNCHANGED messages
    <3>1. IdsInv' BY <2>2, <2>4, <2>5, <2>6 DEF RowsInv, IdsInv
    <3>. QED BY <2>2, <2>3, <3>1 DEF RowsInv
  <2>7. CASE Become(w, Idle) /\ messages' = Requeued(w)
    <3>1. workers'[w] = Idle BY <2>7, OneRow
    <3>. DEFINE m == [id |-> workers[w].id, retries |-> workers[w].retries + 1]
    <3>2. CASE messages' = messages BY <2>6, <3>2
    <3>3. CASE messages' = messages \cup {m} /\ workers[w].mode = "beat"
      <4>1. m.id = workers[w].id /\ workers[w].id # 0 BY <2>0, <3>3 DEF Shape
      <4>. HIDE DEF m
      <4>2. IdsInv' BY <1>0, <2>2, <2>5, <3>1, <3>3, <4>1 DEF RowsInv, IdsInv
      <4>. QED BY <2>2, <2>3, <4>2 DEF RowsInv
    <3>. QED BY <2>7, <3>2, <3>3 DEF Requeued
  <2>. QED BY <1>4, <2>6, <2>7, StepMessages
<1>. QED BY <1>1, <1>2, <1>3, <1>4 DEF Next

-----------------------------------------------------------------------------
(* A completed run and its receipts.  The count is right afterwards because *)
(* nobody is left to add to it: a receipt bears the id of an execution, an  *)
(* id is executed by one worker at a time (IdsInv), and a worker at work on *)
(* a run has it open.                                                       *)

InRun(q) == q.mode = "beat" /\ q.pc \notin {"idle", "event"}
RunOf(q) == <<q.event, q.day, q.id>>

AcceptedIn(n) ==
    {k \in DOMAIN receipts :
        /\ EventOf[k[1]] = n[1] /\ k[2][2] = n[2]
        /\ receipts[k].run = n[3] /\ receipts[k].delivery = "accepted"}

RunsOpen ==
    \A w \in Workers : InRun(workers[w]) =>
        /\ RunOf(workers[w]) \in DOMAIN runs
        /\ runs[RunOf(workers[w])].status # "completed"

Signed ==
    \A w \in Workers : workers[w].pc \in Sending =>
        receipts[KeyOf(workers[w])].run = workers[w].id

RunInv ==
    /\ \A n \in DOMAIN runs : n[3] # 0
    /\ RunsOpen /\ Signed
    /\ \A n \in DOMAIN runs : runs[n].status = "completed" =>
          runs[n].accepted = Cardinality(AcceptedIn(n))

LEMMA ReceiptSteps ==
    ASSUME TypeInv, HandInv, NEW w \in Workers,
           Start(w) \/ Step(w) \/ StatementFails(w) \/ Crash(w)
    PROVE  /\ \A k \in DOMAIN receipts :
                /\ k \in DOMAIN receipts' /\ receipts'[k].run = receipts[k].run
                /\ receipts[k].delivery = "accepted" => receipts'[k].delivery = "accepted"
           /\ \A k \in DOMAIN receipts' : receipts'[k].delivery = "accepted" =>
                /\ k \in DOMAIN receipts
                /\ \/ receipts[k].delivery = "accepted"
                   \/ workers[w].pc = "accept" /\ k = KeyOf(workers[w])
<1>. DEFINE q == workers[w]
            K == KeyOf(q)
<1>0. \A k \in DOMAIN receipts : receipts[k] \in ReceiptRow
  BY DEF TypeInv, TypeOK, ReceiptsOK
<1>1. CASE UNCHANGED receipts BY <1>1
<1>2. CASE Claim(w)
  <2>1. PICK t \in q.todo :
          \/ UNCHANGED receipts
          \/ /\ <<t, <<q.channel, q.day>>>> \notin DOMAIN receipts
             /\ receipts' = Set(receipts, <<t, <<q.channel, q.day>>>>,
                    [delivery |-> "pending", run |-> q.id, log |-> "failed"])
    BY <1>2 DEF Claim
  <2>. DEFINE k == <<t, <<q.channel, q.day>>>>
              r == [delivery |-> "pending", run |-> q.id, log |-> "failed"]
  <2>2. CASE UNCHANGED receipts BY <2>2
  <2>3. CASE k \notin DOMAIN receipts /\ receipts' = Set(receipts, k, r)
    <3>1. r.delivery = "pending" OBVIOUS
    <3>. HIDE DEF k, r
    <3>2. /\ DOMAIN receipts' = DOMAIN receipts \cup {k} /\ receipts'[k] = r
          /\ \A x \in DOMAIN receipts : receipts'[x] = receipts[x]
      BY <2>3 DEF Set
    <3>. QED BY <3>1, <3>2
  <2>. HIDE DEF k, r
  <2>. QED BY <2>1, <2>2, <2>3 DEF k, r
<1>3. CASE Accept(w) \/ Log(w) \/ Doubt(w)
  <2>1. /\ K = Reminder(w) /\ InHand(w)
        /\ q.pc = "doubt" => receipts[K].delivery = "pending"
        /\ K \in DOMAIN receipts
    BY <1>3 DEF KeyOf, Reminder, InHand, Accept, Log, Doubt, Sending, HandInv,
                Possession, Tells
  <2>2. \/ q.pc = "accept" /\ receipts' = [receipts EXCEPT ![K].delivery = "accepted"]
        \/ receipts' = [receipts EXCEPT ![K].log = "sent"]
        \/ q.pc = "doubt" /\ receipts' = [receipts EXCEPT ![K].delivery = "ambiguous"]
    BY <1>3, <2>1 DEF Accept, Log, Doubt
  <2>. HIDE DEF K
  <2>3. DOMAIN receipts' = DOMAIN receipts BY <2>2
  <2>4. \A k \in DOMAIN receipts : k # K => receipts'[k] = receipts[k] BY <2>2
  <2>5. /\ receipts'[K].run = receipts[K].run
        /\ receipts[K].delivery = "accepted" => receipts'[K].delivery = "accepted"
        /\ receipts'[K].delivery = "accepted" =>
              receipts[K].delivery = "accepted" \/ q.pc = "accept"
    BY <1>0, <2>1, <2>2 DEF ReceiptRow
  <2>. QED BY <2>3, <2>4, <2>5 DEF K
<1>. QED BY <1>1, <1>2, <1>3, WritesOfAStep

\* A run that is completed keeps its receipts as they are.
LEMMA NobodyAdds ==
    ASSUME TypeInv, HandInv, RowsInv, RunInv, NEW w \in Workers,
           Start(w) \/ Step(w) \/ StatementFails(w) \/ Crash(w),
           NEW n \in DOMAIN runs, runs[n].status = "completed"
    PROVE  AcceptedIn(n)' = AcceptedIn(n)
<1>. DEFINE q == workers[w]
            K == KeyOf(q)
<1>1. n \in Events \X Days \X Nat /\ n[3] # 0 BY DEF TypeInv, TypeOK, RunsOK, RunInv
<1>2. ASSUME q.pc = "accept", EventOf[K[1]] = n[1], K[2][2] = n[2],
             receipts[K].run = n[3]
      PROVE  FALSE
  <2>1. Shape(q) /\ receipts[K].run = q.id
    BY <1>2 DEF RowsInv, RunInv, Signed, Sending
  <2>2. q.mode = "beat" /\ q.id = n[3] BY <1>1, <1>2, <2>1 DEF Shape
  <2>3. q.task \in Of(q.event) BY <1>2, <2>1 DEF Shape, Sending
  <2>4. K[1] = q.task /\ K[2][2] = q.day BY DEF KeyOf
  <2>5. EventOf[q.task] = q.event BY <2>3 DEF Of
  <2>8. n = <<n[1], n[2], n[3]>> BY <1>1
  <2>6. RunOf(q) = n BY <1>2, <2>2, <2>4, <2>5, <2>8 DEF RunOf
  <2>7. InRun(q) BY <1>2, <2>2 DEF InRun
  <2>. QED BY <2>6, <2>7 DEF RunInv, RunsOpen
<1>4. \A k \in DOMAIN receipts' : receipts'[k].delivery = "accepted" =>
        /\ k \in DOMAIN receipts
        /\ receipts[k].delivery = "accepted" \/ (q.pc = "accept" /\ k = K)
  BY ReceiptSteps
<1>. HIDE DEF K
<1>3. ASSUME NEW k PROVE k \in AcceptedIn(n)' <=> k \in AcceptedIn(n)
  <2>1. ASSUME k \in AcceptedIn(n) PROVE k \in AcceptedIn(n)'
    BY <2>1, ReceiptSteps DEF AcceptedIn
  <2>2. ASSUME k \in AcceptedIn(n)' PROVE k \in AcceptedIn(n)
    <3>1. /\ k \in DOMAIN receipts' /\ receipts'[k].delivery = "accepted"
          /\ EventOf[k[1]] = n[1] /\ k[2][2] = n[2] /\ receipts'[k].run = n[3]
      BY <2>2 DEF AcceptedIn
    <3>2. /\ k \in DOMAIN receipts
          /\ receipts[k].delivery = "accepted" \/ (q.pc = "accept" /\ k = K)
      BY <1>4, <3>1
    <3>3. receipts[k].run = n[3] BY <3>1, <3>2, ReceiptSteps
    <3>4. receipts[k].delivery = "accepted" BY <1>2, <3>1, <3>2, <3>3
    <3>. QED BY <3>1, <3>2, <3>3, <3>4 DEF AcceptedIn
  <2>. QED BY <2>1, <2>2
<1>. QED BY <1>3

LEMMA RunSteps ==
    ASSUME TypeInv, RowsInv, RunInv, NEW w \in Workers,
           Start(w) \/ Step(w) \/ StatementFails(w) \/ Crash(w)
    PROVE  /\ DOMAIN runs \subseteq DOMAIN runs'
           /\ \A n \in DOMAIN runs' \ DOMAIN runs :
                n[3] # 0 /\ runs'[n].status # "completed"
           /\ \A n \in DOMAIN runs :
                \/ runs'[n] = runs[n]
                \/ runs'[n].status # "completed"
                \/ /\ EndEvent(w) /\ InRun(workers[w]) /\ n = RunOf(workers[w])
                   /\ runs'[n].accepted = Cardinality(AcceptedIn(n))
<1>. DEFINE q == workers[w]
            N == RunOf(q)
<1>0. /\ q \in WorkerRow /\ Fits(q) /\ Shape(q)
      /\ \A n \in DOMAIN runs : runs[n] \in RunRow
  BY DEF TypeInv, TypeOK, RunsOK, WorkersFit, RowsInv
<1>1. CASE UNCHANGED runs BY <1>1
<1>2. CASE NextEvent(w)
  <2>1. PICK e \in q.events :
          \/ UNCHANGED runs
          \/ /\ q.mode = "beat" /\ <<e, q.day, q.id>> \notin DOMAIN runs
             /\ runs' = Set(runs, <<e, q.day, q.id>>, [status |-> "started", accepted |-> 0,
                   eligible |-> Cardinality(Of(e) \cap Overdue(q.day))])
    BY <1>2 DEF NextEvent
  <2>2. q.mode = "beat" => <<e, q.day, q.id>>[3] # 0 BY <1>0 DEF Shape
  <2>. DEFINE n == <<e, q.day, q.id>>
              r == [status |-> "started", accepted |-> 0,
                    eligible |-> Cardinality(Of(e) \cap Overdue(q.day))]
  <2>3. CASE q.mode = "beat" /\ n \notin DOMAIN runs /\ runs' = Set(runs, n, r)
    <3>1. r.status = "started" OBVIOUS
    <3>2. n[3] # 0 BY <2>2, <2>3
    <3>. HIDE DEF n, r
    <3>3. /\ DOMAIN runs' = DOMAIN runs \cup {n} /\ runs'[n] = r
          /\ \A x \in DOMAIN runs : runs'[x] = runs[x]
      BY <2>3 DEF Set
    <3>. QED BY <3>1, <3>2, <3>3
  <2>4. CASE UNCHANGED runs BY <2>4
  <2>. HIDE DEF n, r
  <2>. QED BY <2>1, <2>3, <2>4 DEF n, r
<1>3. CASE EndEvent(w) /\ q.mode = "beat"
  <2>1. N = RunKey(w) /\ InRun(q) BY <1>3 DEF RunOf, RunKey, InRun, EndEvent
  <2>2. AcceptedOf(w) = Cardinality(AcceptedIn(N))
    <3>1. N[1] = q.event /\ N[2] = q.day /\ N[3] = q.id BY DEF RunOf
    <3>2. {k \in Own(w) : receipts[k].delivery = "accepted"} = AcceptedIn(N)
      BY <3>1 DEF Own, AcceptedIn
    <3>. QED BY <3>2 DEF AcceptedOf
  <2>3. runs' = [runs EXCEPT ![N] = [@ EXCEPT !.status = "completed",
                                              !.accepted = AcceptedOf(w)]]
    BY <1>3, <2>1 DEF EndEvent
  <2>4. N \in DOMAIN runs BY <2>1 DEF RunInv, RunsOpen
  <2>. HIDE DEF N
  <2>5. /\ DOMAIN runs' = DOMAIN runs
        /\ \A n \in DOMAIN runs : n # N => runs'[n] = runs[n]
        /\ runs'[N].accepted = AcceptedOf(w)
    BY <1>0, <2>3, <2>4 DEF RunRow
  <2>. QED BY <1>3, <2>1, <2>2, <2>5 DEF N
<1>4. CASE FailRun(w)
  <2>1. q.outcome # "completed" /\ N = RunKey(w) BY <1>0, <1>4 DEF WorkerRow, RunOf, RunKey
  <2>2. runs' = [runs EXCEPT ![N].status = q.outcome] BY <1>4, <2>1 DEF FailRun
  <2>. HIDE DEF N
  <2>3. /\ DOMAIN runs' = DOMAIN runs
        /\ \A n \in DOMAIN runs : n # N => runs'[n] = runs[n]
        /\ N \in DOMAIN runs => runs'[N].status = q.outcome
    BY <1>0, <2>2 DEF RunRow
  <2>. QED BY <2>1, <2>3
<1>5. EndEvent(w) /\ q.mode # "beat" => UNCHANGED runs BY DEF EndEvent
<1>. QED BY <1>1, <1>2, <1>3, <1>4, <1>5, WritesOfAStep

\* What the step makes of the worker's own run and receipt.
LEMMA OwnRun ==
    ASSUME TypeInv, HandInv, RowsInv, RunInv, NEW w \in Workers,
           Start(w) \/ Step(w) \/ StatementFails(w) \/ Crash(w)
    PROVE  /\ InRun(workers'[w]) =>
                /\ RunOf(workers'[w]) \in DOMAIN runs'
                /\ runs'[RunOf(workers'[w])].status # "completed"
           /\ workers'[w].pc \in Sending =>
                receipts'[KeyOf(workers'[w])].run = workers'[w].id
<1>. DEFINE q == workers[w]
<1>0. q \in WorkerRow /\ Shape(q) BY DEF TypeInv, TypeOK, RowsInv
<1>1. CASE Start(w)
  <2>1. PICK r : Become(w, r) /\ (Begins(r) \/ Asked(r) \/ Confirmed(r))
    BY <1>1, StartRows
  <2>2. workers'[w] = r BY <2>1, OneRow
  <2>3. ~InRun(r) /\ r.pc \notin Sending
    BY <2>1 DEF InRun, Sending, Begins, Asked, Confirmed
  <2>. QED BY <2>2, <2>3
<1>2. CASE NextEvent(w)
  <2>1. PICK e \in q.events :
          LET next == [q EXCEPT !.pc = "load", !.event = e, !.events = @ \ {e}]
              run  == <<e, q.day, q.id>>
          IN  IF q.mode # "beat"
              THEN Become(w, next) /\ UNCHANGED runs
              ELSE IF run \in DOMAIN runs
              THEN /\ Become(w, IF runs[run].status = "completed"
                                THEN [q EXCEPT !.events = @ \ {e}]
                                ELSE next)
                   /\ UNCHANGED runs
              ELSE /\ runs' = Set(runs, run, [status |-> "started", accepted |-> 0,
                         eligible |-> Cardinality(Of(e) \cap Overdue(q.day))])
                   /\ Become(w, next)
    BY <1>2 DEF NextEvent
  <2>. DEFINE next == [q EXCEPT !.pc = "load", !.event = e, !.events = @ \ {e}]
              skip == [q EXCEPT !.events = @ \ {e}]
              run  == <<e, q.day, q.id>>
              new  == [status |-> "started", accepted |-> 0,
                       eligible |-> Cardinality(Of(e) \cap Overdue(q.day))]
  <2>2. /\ RunOf(next) = run /\ next.pc = "load" /\ next.mode = q.mode
        /\ skip.pc = "event" /\ q.pc = "event"
    BY <1>0, <1>2 DEF RunOf, WorkerRow, NextEvent
  <2>3. new.status = "started" OBVIOUS
  <2>4. \/ Become(w, next) /\ q.mode # "beat"
        \/ Become(w, skip)
        \/ /\ Become(w, next) /\ UNCHANGED runs
           /\ run \in DOMAIN runs /\ runs[run].status # "completed"
        \/ Become(w, next) /\ runs' = Set(runs, run, new)
    BY <2>1
  <2>. HIDE DEF next, skip, run, new
  <2>5. CASE Become(w, next) /\ q.mode # "beat"
    <3>1. workers'[w] = next BY <2>5, OneRow
    <3>. QED BY <2>2, <2>5, <3>1 DEF InRun, Sending
  <2>6. CASE Become(w, skip)
    <3>1. workers'[w] = skip BY <2>6, OneRow
    <3>. QED BY <2>2, <3>1 DEF InRun, Sending
  <2>7. CASE /\ Become(w, next) /\ UNCHANGED runs
             /\ run \in DOMAIN runs /\ runs[run].status # "completed"
    <3>1. workers'[w] = next BY <2>7, OneRow
    <3>. QED BY <2>2, <2>7, <3>1 DEF Sending
  <2>8. CASE Become(w, next) /\ runs' = Set(runs, run, new)
    <3>1. workers'[w] = next BY <2>8, OneRow
    <3>2. run \in DOMAIN runs' /\ runs'[run] = new BY <2>8 DEF Set
    <3>. QED BY <2>2, <2>3, <3>1, <3>2 DEF Sending
  <2>. QED BY <2>4, <2>5, <2>6, <2>7, <2>8
<1>3. CASE Claim(w)
  <2>1. PICK t \in q.todo :
          \/ Become(w, Existing(w, <<t, <<q.channel, q.day>>>>)) /\ UNCHANGED receipts
          \/ /\ receipts' = Set(receipts, <<t, <<q.channel, q.day>>>>,
                    [delivery |-> "pending", run |-> q.id, log |-> "failed"])
             /\ Become(w, [q EXCEPT !.pc = "handoff", !.task = t])
    BY <1>3 DEF Claim
  <2>. DEFINE k == <<t, <<q.channel, q.day>>>>
              p == [q EXCEPT !.pc = "handoff", !.task = t]
              r == [delivery |-> "pending", run |-> q.id, log |-> "failed"]
  <2>2. q.pc = "task" /\ UNCHANGED runs BY <1>3 DEF Claim
  <2>3. PICK x : Become(w, x) /\ Kinds(q, x) BY <1>0, <1>3, StepRows DEF Step
  <2>4. workers'[w] = x BY <2>3, OneRow
  <2>5. InRun(x) => InRun(q) /\ RunOf(x) = RunOf(q)
    BY <2>2, <2>3 DEF Kinds, Kept, Enters, Loads, Moves, Raises, Closes, InRun,
                      RunOf, Idle
  <2>6. CASE Become(w, Existing(w, k))
    <3>1. Existing(w, k).pc \notin Sending
      BY <1>0, <2>2, RaiseFits DEF TypeInv, WorkersFit, Existing, Sending, WorkerRow
    <3>2. workers'[w] = Existing(w, k) BY <2>6, OneRow
    <3>. QED BY <2>2, <2>4, <2>5, <3>1, <3>2 DEF RunInv, RunsOpen
  <2>7. CASE receipts' = Set(receipts, k, r) /\ Become(w, p)
    <3>1. KeyOf(p) = k /\ p.id = q.id /\ r.run = q.id
      BY <1>0 DEF KeyOf, WorkerRow
    <3>2. workers'[w] = p BY <2>7, OneRow
    <3>. HIDE DEF k, p, r
    <3>3. receipts'[k] = r BY <2>7 DEF Set
    <3>. QED BY <2>2, <2>4, <2>5, <3>1, <3>2, <3>3 DEF RunInv, RunsOpen
  <2>. HIDE DEF k, p, r
  <2>. QED BY <2>1, <2>6, <2>7 DEF k, p, r
<1>4. CASE ~Start(w) /\ ~NextEvent(w) /\ ~Claim(w)
  <2>1. PICK r : Become(w, r) /\ Kinds(q, r) BY <1>0, <1>4, StepRows
  <2>2. workers'[w] = r BY <2>1, OneRow
  <2>3. \/ r = Idle
        \/ q.pc # "event" /\ (EndEvent(w) => r.pc = "event")
    <3>1. EndEvent(w) => r.pc = "event"
      <4>. SUFFICES ASSUME EndEvent(w) PROVE workers'[w].pc = "event" BY <2>2
      <4>. DEFINE x == [q EXCEPT !.pc = "event", !.event = NoEvent,
                                 !.loaded = {}, !.queued = 0]
      <4>1. x.pc = "event" BY <1>0 DEF WorkerRow
      <4>2. Become(w, x) BY DEF EndEvent
      <4>. HIDE DEF x
      <4>. QED BY <4>1, <4>2, OneRow
    <3>2. q.pc = "event" => Become(w, Idle)
      BY <1>4 DEF Step, Load, Handoff, HandoffFails, Accept, Log, Doubt, EndEvent,
                  End, FailRun, FinishNudge, StatementFails, InLoop, Crash
    <3>. QED BY <2>2, <3>1, <3>2, OneRow
  <2>4. CASE r = Idle BY <2>2, <2>4 DEF Idle, InRun, Sending
  <2>5. CASE q.pc # "event" /\ (EndEvent(w) => r.pc = "event") /\ r # Idle
    <3>1. InRun(r) => InRun(q) /\ RunOf(r) = RunOf(q)
      BY <1>0, <2>1, <2>5 DEF Kinds, Kept, Enters, Loads, Moves, Raises, Closes,
                              InRun, RunOf, Shape
    <3>2. InRun(r) => RunOf(r) \in DOMAIN runs' /\ runs'[RunOf(r)].status # "completed"
      <4>. SUFFICES ASSUME InRun(r)
                    PROVE  RunOf(r) \in DOMAIN runs' /\ runs'[RunOf(r)].status # "completed"
        OBVIOUS
      <4>1. RunOf(q) \in DOMAIN runs /\ runs[RunOf(q)].status # "completed"
        BY <3>1 DEF RunInv, RunsOpen
      <4>2. ~EndEvent(w) BY <2>5 DEF InRun
      <4>. QED BY <3>1, <4>1, <4>2, RunSteps
    <3>3. r.pc \in Sending => q.pc \in Sending /\ KeyOf(r) = KeyOf(q) /\ r.id = q.id
      <4>1. q.pc = "task" =>
              EndEvent(w) \/ Become(w, Idle) \/ Become(w, AfterRaise(w, "failed"))
        BY <1>4 DEF Step, Load, Handoff, HandoffFails, Accept, Log, Doubt,
                    End, FailRun, FinishNudge, StatementFails, Crash
      <4>2. AfterRaise(w, "failed").pc \notin Sending
        BY RaiseFits DEF TypeInv, WorkersFit
      <4>3. Become(w, AfterRaise(w, "failed")) => r = AfterRaise(w, "failed")
        BY <2>2, OneRow
      <4>4. Become(w, Idle) => r = Idle BY <2>2, OneRow
      <4>5. q.pc = "task" => r.pc \notin Sending
        BY <2>5, <4>1, <4>2, <4>3, <4>4 DEF Sending
      <4>. QED BY <2>1, <2>5, <4>5
             DEF Kinds, Kept, Enters, Loads, Moves, Raises, Closes, Sending, KeyOf
    <3>4. r.pc \in Sending => receipts'[KeyOf(r)].run = r.id
      BY <3>3, ReceiptSteps DEF RunInv, Signed, HandInv, Possession, InHand
    <3>. QED BY <2>2, <3>2, <3>4
  <2>. QED BY <2>3, <2>4, <2>5
<1>. QED BY <1>1, <1>2, <1>3, <1>4

LEMMA NextRunInv ==
    ASSUME TypeInv, HandInv, RowsInv, RunInv, [Next]_vars
    PROVE  RunInv'
<1>1. CASE Tick \/ Beat \/ (\E t \in Tasks : Toggle(t)) \/ UNCHANGED vars
  <2>1. UNCHANGED <<receipts, runs, workers>> BY <1>1 DEF Tick, Beat, Toggle, vars
  <2>. QED BY <2>1 DEF RunInv, RunsOpen, Signed, AcceptedIn
<1>2. ASSUME NEW w \in Workers, Start(w) \/ Step(w) \/ StatementFails(w) \/ Crash(w)
      PROVE  RunInv'
  <2>. DEFINE q == workers[w]
  <2>0. \A v \in Workers : v # w => workers'[v] = workers[v]
    <3>1. \E r : Become(w, r) BY <1>2, StartRows, StepRows DEF RowsInv
    <3>. QED BY <3>1, OneRow
  <2>1. \A n \in DOMAIN runs' : n[3] # 0 BY <1>2, RunSteps DEF RunInv
  <2>2. ASSUME NEW v \in Workers, InRun(workers'[v])
        PROVE  /\ RunOf(workers'[v]) \in DOMAIN runs'
               /\ runs'[RunOf(workers'[v])].status # "completed"
    <3>1. CASE v = w BY <1>2, <2>2, <3>1, OwnRun
    <3>2. CASE v # w
      <4>. DEFINE n == RunOf(workers[v])
      <4>1. workers'[v] = workers[v] BY <2>0, <3>2
      <4>2. n \in DOMAIN runs /\ runs[n].status # "completed"
        BY <2>2, <4>1 DEF RunInv, RunsOpen
      <4>3. ~(InRun(q) /\ n = RunOf(q))
        <5>1. Shape(workers[v]) /\ workers[v].id # 0
          BY <2>2, <4>1 DEF RowsInv, Shape, InRun
        <5>. QED BY <3>2, <5>1 DEF RowsInv, IdsInv, RunOf
      <4>4. n \in DOMAIN runs' /\ runs'[n].status # "completed"
        BY <1>2, <4>2, <4>3, RunSteps
      <4>. QED BY <4>1, <4>4
    <3>. QED BY <3>1, <3>2
  <2>3. ASSUME NEW v \in Workers, workers'[v].pc \in Sending
        PROVE  receipts'[KeyOf(workers'[v])].run = workers'[v].id
    <3>1. CASE v = w BY <1>2, <2>3, <3>1, OwnRun
    <3>2. CASE v # w
      <4>1. workers'[v] = workers[v] BY <2>0, <3>2
      <4>2. /\ KeyOf(workers[v]) \in DOMAIN receipts
            /\ receipts[KeyOf(workers[v])].run = workers[v].id
        BY <2>3, <4>1 DEF RunInv, Signed, HandInv, Possession, InHand
      <4>. QED BY <1>2, <4>1, <4>2, ReceiptSteps
    <3>. QED BY <3>1, <3>2
  <2>4. ASSUME NEW n \in DOMAIN runs', runs'[n].status = "completed"
        PROVE  runs'[n].accepted = Cardinality(AcceptedIn(n)')
    <3>1. n \in DOMAIN runs BY <1>2, <2>4, RunSteps
    <3>2. CASE runs'[n] = runs[n]
      <4>1. AcceptedIn(n)' = AcceptedIn(n) BY <1>2, <2>4, <3>1, <3>2, NobodyAdds
      <4>. QED BY <2>4, <3>1, <3>2, <4>1 DEF RunInv
    <3>3. CASE EndEvent(w) /\ runs'[n].accepted = Cardinality(AcceptedIn(n))
      <4>1. AcceptedIn(n)' = AcceptedIn(n) BY <3>3 DEF EndEvent, AcceptedIn
      <4>. QED BY <3>3, <4>1
    <3>. QED BY <1>2, <2>4, <3>1, <3>2, <3>3, RunSteps
  <2>. QED BY <2>1, <2>2, <2>3, <2>4 DEF RunInv, RunsOpen, Signed
<1>. QED BY <1>1, <1>2 DEF Next

LEMMA InitRunInv == Init => RunInv
BY DEF Init, RunInv, RunsOpen, Signed, InRun, Idle, Sending

\* A completed run counts the accepted receipts of its own execution, no more
\* and no fewer, and its count stays true whatever runs later.
THEOREM CountIsExact == Spec => []AcceptedCountIsExact
<1>1. RunInv => AcceptedCountIsExact BY DEF RunInv, AcceptedIn, AcceptedCountIsExact
<1>. QED BY <1>1, InitTypeInv, NextTypeInv, InitHandInv, NextHandInv, InitRowsInv,
            NextRowsInv, InitRunInv, NextRunInv, PTL DEF Spec

-----------------------------------------------------------------------------
(* Who was reached.  A worker takes a task off its list only when the      *)
(* receipt says accepted, and an accepted receipt stays accepted.          *)

KeyFor(q, t) == <<t, <<q.channel, q.day>>>>

Reached ==
    \A w \in Workers : workers[w].outcome = "none" =>
        \A t \in workers[w].loaded \ workers[w].todo :
            /\ KeyFor(workers[w], t) \in DOMAIN receipts
            /\ receipts[KeyFor(workers[w], t)].delivery = "accepted"

LEMMA RaisedOutcome ==
    ASSUME NEW w, workers[w] \in WorkerRow, NEW o, o # "none"
    PROVE  AfterRaise(w, o) = Idle \/ AfterRaise(w, o).outcome # "none"
BY DEF AfterRaise, WorkerRow

LEMMA OwnReached ==
    ASSUME TypeInv, HandInv, RowsInv, Reached, NEW w \in Workers,
           Start(w) \/ Step(w) \/ StatementFails(w) \/ Crash(w),
           workers'[w].outcome = "none",
           NEW t \in workers'[w].loaded \ workers'[w].todo
    PROVE  /\ KeyFor(workers'[w], t) \in DOMAIN receipts'
           /\ receipts'[KeyFor(workers'[w], t)].delivery = "accepted"
<1>. DEFINE q == workers[w]
<1>0. q \in WorkerRow /\ Shape(q) BY DEF TypeInv, TypeOK, RowsInv
<1>1. ~Start(w)
  <2>1. SUFFICES ASSUME Start(w) PROVE FALSE OBVIOUS
  <2>2. PICK r : Become(w, r) /\ (Begins(r) \/ Asked(r) \/ Confirmed(r))
    BY <2>1, StartRows
  <2>3. workers'[w] = r BY <2>2, OneRow
  <2>. QED BY <2>2, <2>3 DEF Begins, Asked, Confirmed
<1>2. workers'[w] # Idle BY DEF Idle
<1>3. ~Become(w, AfterRaise(w, "failed")) /\ ~Become(w, AfterRaise(w, "ambiguous"))
  BY <1>0, <1>2, RaisedOutcome, OneRow
<1>4. PICK r : Become(w, r) /\ Kinds(q, r) BY <1>0, <1>1, StepRows
<1>5. workers'[w] = r BY <1>4, OneRow
<1>6. ASSUME r.loaded = q.loaded, r.outcome = q.outcome, Kept(q, r),
             t \notin q.todo
      PROVE  /\ KeyFor(r, t) \in DOMAIN receipts'
             /\ receipts'[KeyFor(r, t)].delivery = "accepted"
  <2>1. KeyFor(r, t) = KeyFor(q, t) BY <1>6 DEF KeyFor, Kept
  <2>2. KeyFor(q, t) \in DOMAIN receipts /\ receipts[KeyFor(q, t)].delivery = "accepted"
    BY <1>5, <1>6 DEF Reached
  <2>. QED BY <2>1, <2>2, ReceiptSteps
<1>7. CASE Claim(w)
  <2>1. PICK u \in q.todo :
          \/ /\ KeyFor(q, u) \in DOMAIN receipts
             /\ Become(w, Existing(w, KeyFor(q, u))) /\ UNCHANGED receipts
          \/ Become(w, [q EXCEPT !.pc = "handoff", !.task = u])
    BY <1>7 DEF Claim, KeyFor
  <2>2. CASE Become(w, [q EXCEPT !.pc = "handoff", !.task = u])
    <3>. DEFINE p == [q EXCEPT !.pc = "handoff", !.task = u]
    <3>1. Kept(q, p) /\ p.loaded = q.loaded /\ p.outcome = q.outcome /\ p.todo = q.todo
      BY <1>0 DEF Kept, WorkerRow
    <3>2. r = p BY <1>5, <2>2, OneRow
    <3>. HIDE DEF p
    <3>. QED BY <1>5, <1>6, <3>1, <3>2
  <2>3. CASE /\ KeyFor(q, u) \in DOMAIN receipts
             /\ Become(w, Existing(w, KeyFor(q, u))) /\ UNCHANGED receipts
    <3>. DEFINE p == [q EXCEPT !.todo = @ \ {u}]
    <3>1. KeyFor(q, u)[1] = u BY DEF KeyFor
    <3>2. receipts[KeyFor(q, u)].delivery = "accepted" /\ Become(w, p)
      BY <1>3, <2>3, <3>1 DEF Existing
    <3>3. /\ Kept(q, p) /\ p.loaded = q.loaded /\ p.outcome = q.outcome
          /\ p.todo = q.todo \ {u} /\ KeyFor(p, u) = KeyFor(q, u)
      BY <1>0 DEF Kept, WorkerRow, KeyFor
    <3>4. r = p BY <1>5, <3>2, OneRow
    <3>. HIDE DEF p
    <3>5. CASE t = u BY <1>5, <2>3, <3>2, <3>3, <3>4, <3>5
    <3>6. CASE t # u BY <1>5, <1>6, <3>3, <3>4, <3>6
    <3>. QED BY <3>5, <3>6
  <2>. QED BY <2>1, <2>2, <2>3
<1>8. CASE Log(w)
  <2>. DEFINE p == AtLoop(w, 1)
              u == q.task
  <2>1. Become(w, p) /\ q.pc = "log" BY <1>8 DEF Log
  <2>2. p = [q EXCEPT !.pc = "task", !.todo = q.todo \ {u},
                      !.task = NoTask, !.queued = q.queued + 1]
    BY DEF AtLoop
  <2>3. /\ Kept(q, p) /\ p.loaded = q.loaded /\ p.outcome = q.outcome
        /\ p.todo = q.todo \ {u} /\ KeyFor(p, u) = KeyOf(q)
    BY <1>0, <2>2 DEF Kept, WorkerRow, KeyFor, KeyOf
  <2>4. r = p BY <1>5, <2>1, OneRow
  <2>. HIDE DEF p, u
  <2>5. KeyOf(q) \in DOMAIN receipts /\ receipts[KeyOf(q)].delivery = "accepted"
    BY <2>1 DEF HandInv, Possession, InHand, Sending, Tells
  <2>6. CASE t = u BY <1>5, <2>3, <2>4, <2>5, <2>6, ReceiptSteps
  <2>7. CASE t # u BY <1>5, <1>6, <2>3, <2>4, <2>7
  <2>. QED BY <2>6, <2>7
<1>9. CASE ~Claim(w) /\ ~Log(w)
  <2>1. q.pc \in {"task", "log"} => EndEvent(w)
    <3>1. q.pc \in {"task", "log"} =>
            EndEvent(w) \/ Become(w, Idle) \/ Become(w, AfterRaise(w, "failed"))
      BY <1>1, <1>9 DEF Step, NextEvent, Load, Handoff, HandoffFails, Accept, Doubt,
                  End, FailRun, FinishNudge, StatementFails, Crash
    <3>. QED BY <1>2, <1>3, <3>1, OneRow
  <2>2. ~EndEvent(w)
    <3>. SUFFICES ASSUME EndEvent(w) PROVE FALSE OBVIOUS
    <3>. DEFINE x == [q EXCEPT !.pc = "event", !.event = NoEvent,
                               !.loaded = {}, !.queued = 0]
    <3>1. x.loaded = {} BY <1>0 DEF WorkerRow
    <3>2. Become(w, x) BY DEF EndEvent
    <3>. HIDE DEF x
    <3>. QED BY <3>1, <3>2, OneRow
  <2>3. CASE Enters(q, r) BY <1>0, <1>5, <2>3 DEF Enters, Shape
  <2>4. CASE Loads(q, r) BY <1>5, <2>4 DEF Loads
  <2>5. CASE Moves(q, r) /\ Kept(q, r)
    BY <1>5, <1>6, <2>1, <2>2, <2>5 DEF Moves
  <2>6. CASE Raises(q, r) /\ Kept(q, r)
    <3>1. Fits(workers'[w])
      <4>1. WorkersFit' BY StepFits
      <4>. QED BY <4>1 DEF WorkersFit, Fits, WorkerRow, Sending, Channels, Days
    <3>. QED BY <1>5, <2>6, <3>1 DEF Raises, Fits
  <2>7. CASE Closes(q, r) BY <1>5, <2>7 DEF Closes
  <2>. QED BY <1>2, <1>4, <1>5, <2>3, <2>4, <2>5, <2>6, <2>7 DEF Kinds
<1>. QED BY <1>7, <1>8, <1>9

LEMMA NextReached ==
    ASSUME TypeInv, HandInv, RowsInv, Reached, [Next]_vars
    PROVE  Reached'
<1>1. CASE Tick \/ Beat \/ (\E t \in Tasks : Toggle(t)) \/ UNCHANGED vars
  <2>1. UNCHANGED <<receipts, workers>> BY <1>1 DEF Tick, Beat, Toggle, vars
  <2>. QED BY <2>1 DEF Reached
<1>2. ASSUME NEW w \in Workers, Start(w) \/ Step(w) \/ StatementFails(w) \/ Crash(w)
      PROVE  Reached'
  <2>1. \A v \in Workers : v # w => workers'[v] = workers[v]
    <3>1. \E r : Become(w, r) BY <1>2, StartRows, StepRows DEF RowsInv
    <3>. QED BY <3>1, OneRow
  <2>2. ASSUME NEW v \in Workers, workers'[v].outcome = "none",
               NEW t \in workers'[v].loaded \ workers'[v].todo
        PROVE  /\ KeyFor(workers'[v], t) \in DOMAIN receipts'
               /\ receipts'[KeyFor(workers'[v], t)].delivery = "accepted"
    <3>1. CASE v = w BY <1>2, <2>2, <3>1, OwnReached
    <3>2. CASE v # w
      <4>1. workers'[v] = workers[v] BY <2>1, <3>2
      <4>. QED BY <1>2, <2>2, <4>1, ReceiptSteps DEF Reached
    <3>. QED BY <3>1, <3>2
  <2>. QED BY <2>2 DEF Reached, KeyFor
<1>. QED BY <1>1, <1>2 DEF Next

LEMMA InitReached == Init => Reached
BY DEF Init, Reached, Idle

LEMMA StepCompletes ==
    ASSUME TypeInv, RowsInv, Reached, [Next]_vars, NEW w \in Workers,
           workers[w].mode = "beat", workers[w].pc = "task", workers'[w].pc = "event",
           NEW t \in workers[w].loaded
    PROVE  /\ <<t, <<"overdue", workers[w].day>>>> \in DOMAIN receipts
           /\ receipts[<<t, <<"overdue", workers[w].day>>>>].delivery = "accepted"
<1>. DEFINE q == workers[w]
<1>0. Shape(q) BY DEF RowsInv
<1>1. workers' # workers OBVIOUS
<1>2. PICK v \in Workers : Start(v) \/ Step(v) \/ StatementFails(v) \/ Crash(v)
  BY <1>1 DEF Next, Tick, Beat, Toggle, vars
<1>3. PICK r : Become(v, r) /\ (workers[v] = Idle \/ Kinds(workers[v], r))
  BY <1>2, StartRows, StepRows DEF RowsInv
<1>4. v = w /\ r = workers'[w] BY <1>3, OneRow
<1>5. Idle.pc = "idle" BY DEF Idle
<1>6. q.todo = {}
  BY <1>3, <1>4, <1>5 DEF Kinds, Enters, Loads, Moves, Raises, Closes, Sending
<1>7. q.outcome = "none" /\ q.channel = "overdue" BY <1>0 DEF Shape
<1>. QED BY <1>6, <1>7 DEF Reached, KeyFor

\* Whoever was loaded by a run that is completed has a receipt that says
\* accepted at that moment, of whichever execution or request.
THEOREM EveryoneWasReached == Spec => CompletionReachedEveryone
<1>. DEFINE A ==
       \A w \in Workers :
         workers[w].mode = "beat" /\ workers[w].pc = "task" /\ workers'[w].pc = "event" =>
            \A t \in workers[w].loaded :
                /\ <<t, <<"overdue", workers[w].day>>>> \in DOMAIN receipts
                /\ receipts[<<t, <<"overdue", workers[w].day>>>>].delivery = "accepted"
<1>1. TypeInv /\ RowsInv /\ Reached /\ [Next]_vars => [A]_vars BY StepCompletes
<1>2. Spec => [][A]_vars
  <2>. HIDE DEF A
  <2>. QED BY <1>1, InitTypeInv, NextTypeInv, InitHandInv, NextHandInv, InitRowsInv,
              NextRowsInv, InitReached, NextReached, PTL DEF Spec
<1>. QED BY <1>2 DEF CompletionReachedEveryone

-----------------------------------------------------------------------------
(* A nudge and its recorded outcome.                                       *)

ToldTrue ==
    \A w \in Workers : workers[w].mode = "nudge" =>
        \A c \in workers[w].corr :
            /\ c \in DOMAIN actions /\ actions[c].targets \subseteq workers[w].loaded
            /\ actions[c].day = workers[w].day

NudgeInv == ToldTrue /\ NudgeTellsTheTruth

LEMMA ActionSteps ==
    ASSUME TypeInv, RowsInv, Reached, ToldTrue, NEW w \in Workers,
           Start(w) \/ Step(w) \/ StatementFails(w) \/ Crash(w)
    PROVE  \A c \in DOMAIN actions :
             /\ c \in DOMAIN actions' /\ actions'[c].day = actions[c].day
             /\ actions'[c].targets = actions[c].targets
             /\ \/ actions'[c].status = actions[c].status
                \/ actions'[c].status = "ambiguous"
                \/ /\ UNCHANGED receipts
                   /\ \A t \in actions[c].targets :
                        /\ <<t, <<"buzz", actions[c].day>>>> \in DOMAIN receipts
                        /\ receipts[<<t, <<"buzz", actions[c].day>>>>].delivery = "accepted"
<1>. DEFINE q == workers[w]
<1>0. Shape(q) /\ \A c \in DOMAIN actions : actions[c] \in ActionRow
  BY DEF RowsInv, TypeInv, TypeOK, ActionsOK
<1>1. CASE UNCHANGED actions BY <1>1
<1>2. CASE ConfirmNudge(w)
  <2>1. PICK c, r : c \notin DOMAIN actions /\ actions' = Set(actions, c, r)
    BY <1>2 DEF ConfirmNudge
  <2>. QED BY <2>1 DEF Set
<1>3. CASE FinishNudge(w)
  <2>1. /\ q.mode = "nudge" /\ q.todo = {} /\ UNCHANGED receipts
        /\ DOMAIN actions' = DOMAIN actions
        /\ \A c \in DOMAIN actions :
             \/ actions'[c] = actions[c]
             \/ /\ c \in q.corr
                /\ actions'[c] = [actions[c] EXCEPT !.status = NudgeStatus(w),
                                                    !.queued = q.queued]
    BY <1>3 DEF FinishNudge
  <2>2. NudgeStatus(w) # "ambiguous" => q.outcome = "none"
    BY <1>0, <2>1 DEF NudgeStatus, Shape, TypeInv, TypeOK, WorkerRow
  <2>3. ASSUME NEW c \in DOMAIN actions, c \in q.corr, q.outcome = "none",
               NEW t \in actions[c].targets
        PROVE  /\ <<t, <<"buzz", actions[c].day>>>> \in DOMAIN receipts
               /\ receipts[<<t, <<"buzz", actions[c].day>>>>].delivery = "accepted"
    <3>1. t \in q.loaded \ q.todo /\ q.day = actions[c].day /\ q.channel = "buzz"
      BY <1>0, <2>1, <2>3 DEF ToldTrue, Shape
    <3>. QED BY <2>3, <3>1 DEF Reached, KeyFor
  <2>4. ASSUME NEW c \in DOMAIN actions,
               actions'[c] = [actions[c] EXCEPT !.status = NudgeStatus(w),
                                                !.queued = q.queued]
        PROVE  /\ actions'[c].day = actions[c].day
               /\ actions'[c].targets = actions[c].targets
               /\ actions'[c].status = NudgeStatus(w)
    BY <1>0, <2>4 DEF ActionRow
  <2>. HIDE DEF q
  <2>. QED BY <2>1, <2>2, <2>3, <2>4
<1>. QED BY <1>1, <1>2, <1>3, WritesOfAStep

LEMMA NextNudgeInv ==
    ASSUME TypeInv, HandInv, RowsInv, Reached, NudgeInv, [Next]_vars
    PROVE  NudgeInv'
<1>1. CASE Tick \/ Beat \/ (\E t \in Tasks : Toggle(t)) \/ UNCHANGED vars
  <2>1. UNCHANGED <<receipts, workers, actions>> BY <1>1 DEF Tick, Beat, Toggle, vars
  <2>. QED BY <2>1 DEF NudgeInv, ToldTrue, NudgeTellsTheTruth
<1>2. ASSUME NEW w \in Workers, Start(w) \/ Step(w) \/ StatementFails(w) \/ Crash(w)
      PROVE  NudgeInv'
  <2>. DEFINE q == workers[w]
  <2>0. Shape(q) BY DEF RowsInv
  <2>1. PICK r : Become(w, r) /\ \/ Start(w) /\ (Begins(r) \/ Asked(r))
                                 \/ /\ Confirmed(r)
                                    /\ \E c \in Correlations \ DOMAIN actions :
                                         /\ r.corr = {c}
                                         /\ actions' = Set(actions, c,
                                              [status |-> "pending", targets |-> r.loaded,
                                               day |-> r.day, queued |-> 0])
                                 \/ Kinds(q, r)
    BY <1>2, <2>0, StartRows, StepRows
  <2>2. workers'[w] = r /\ \A v \in Workers : v # w => workers'[v] = workers[v]
    BY <2>1, OneRow
  <2>3. ASSUME NEW v \in Workers, workers'[v].mode = "nudge", NEW c \in workers'[v].corr
        PROVE  /\ c \in DOMAIN actions' /\ actions'[c].targets \subseteq workers'[v].loaded
               /\ actions'[c].day = workers'[v].day
    <3>1. CASE /\ workers[v].mode = "nudge" /\ workers'[v].corr = workers[v].corr
               /\ workers'[v].loaded = workers[v].loaded
               /\ workers'[v].day = workers[v].day
      <4>1. c \in DOMAIN actions /\ actions[c].targets \subseteq workers[v].loaded
            /\ actions[c].day = workers[v].day
        BY <2>3, <3>1 DEF NudgeInv, ToldTrue
      <4>. QED BY <1>2, <3>1, <4>1, ActionSteps DEF NudgeInv
    <3>2. CASE v # w BY <2>2, <3>1, <3>2, <2>3
    <3>3. CASE v = w /\ Kinds(q, r)
      <4>1. r.mode = "nudge" /\ r # Idle BY <2>2, <2>3, <3>3 DEF Idle
      <4>2. r.loaded = q.loaded /\ q.mode = "nudge" /\ Kept(q, r)
        BY <2>0, <3>3, <4>1 DEF Kinds, Kept, Enters, Loads, Moves, Raises, Closes, Shape,
                                Sending
      <4>. QED BY <2>2, <3>1, <3>3, <4>2 DEF Kept
    <3>4. CASE v = w /\ (Begins(r) \/ Asked(r))
      BY <2>2, <2>3, <3>4 DEF Begins, Asked
    <3>5. CASE /\ v = w
               /\ \E d \in Correlations \ DOMAIN actions :
                    /\ r.corr = {d}
                    /\ actions' = Set(actions, d,
                         [status |-> "pending", targets |-> r.loaded,
                          day |-> r.day, queued |-> 0])
      <4>1. PICK d : /\ r.corr = {d}
                     /\ actions' = Set(actions, d,
                          [status |-> "pending", targets |-> r.loaded,
                           day |-> r.day, queued |-> 0])
        BY <3>5
      <4>2. c = d /\ c \in DOMAIN actions' /\ actions'[c] =
              [status |-> "pending", targets |-> r.loaded, day |-> r.day, queued |-> 0]
        BY <2>2, <2>3, <3>5, <4>1 DEF Set
      <4>. QED BY <2>2, <3>5, <4>2
    <3>. QED BY <2>1, <3>2, <3>3, <3>4, <3>5
  <2>4. ASSUME NEW c \in DOMAIN actions', actions'[c].status \in {"succeeded", "noop"},
               NEW t \in actions'[c].targets
        PROVE  /\ <<t, <<"buzz", actions'[c].day>>>> \in DOMAIN receipts'
               /\ receipts'[<<t, <<"buzz", actions'[c].day>>>>].delivery = "accepted"
    <3>1. CASE c \in DOMAIN actions
      <4>1. /\ actions'[c].day = actions[c].day /\ actions'[c].targets = actions[c].targets
            /\ \/ actions'[c].status = actions[c].status
               \/ /\ UNCHANGED receipts
                  /\ <<t, <<"buzz", actions[c].day>>>> \in DOMAIN receipts
                  /\ receipts[<<t, <<"buzz", actions[c].day>>>>].delivery = "accepted"
        BY <1>2, <2>4, <3>1, ActionSteps DEF NudgeInv
      <4>2. CASE actions'[c].status = actions[c].status
        <5>1. /\ <<t, <<"buzz", actions[c].day>>>> \in DOMAIN receipts
              /\ receipts[<<t, <<"buzz", actions[c].day>>>>].delivery = "accepted"
          BY <2>4, <3>1, <4>1, <4>2 DEF NudgeInv, NudgeTellsTheTruth
        <5>. QED BY <1>2, <4>1, <5>1, ReceiptSteps
      <4>. QED BY <4>1, <4>2
    <3>2. CASE c \notin DOMAIN actions
      <4>1. ConfirmNudge(w) \/ FinishNudge(w)
        BY <1>2, <3>2, <2>4, WritesOfAStep
      <4>2. PICK d, S : actions' = Set(actions, d,
                 [status |-> "pending", targets |-> S, day |-> today, queued |-> 0])
        BY <3>2, <2>4, <4>1 DEF ConfirmNudge, FinishNudge
      <4>. QED BY <2>4, <3>2, <4>2 DEF Set
    <3>. QED BY <3>1, <3>2
  <2>. QED BY <2>3, <2>4 DEF NudgeInv, ToldTrue, NudgeTellsTheTruth
<1>. QED BY <1>1, <1>2 DEF Next

LEMMA InitNudgeInv == Init => NudgeInv
BY DEF Init, NudgeInv, ToldTrue, NudgeTellsTheTruth, Idle

\* A nudge recorded as succeeded or as having nothing to do reached every target
\* of the snapshot that was confirmed.
THEOREM NudgesAreTrue == Spec => []NudgeTellsTheTruth
<1>1. NudgeInv => NudgeTellsTheTruth BY DEF NudgeInv
<1>. QED BY <1>1, InitTypeInv, NextTypeInv, InitHandInv, NextHandInv, InitRowsInv,
            NextRowsInv, InitReached, NextReached, InitNudgeInv, NextNudgeInv, PTL DEF Spec
=============================================================================
