-------------------------- MODULE OnboardingProofs --------------------------
(***************************************************************************)
(* Proofs about Onboarding, for any tasks, forms, workers and bounds: its  *)
(* typing, that the audit trail explains the status of a task, that what a *)
(* receipt promises is there, and that a file the organiser sent back      *)
(* never stands as the latest of a complete task.                          *)
(***************************************************************************)
EXTENDS Onboarding, TLAPS

\* What the program counter of a worker says of its other fields.
Fits(w) ==
    /\ workers[w].pc # "idle" => Task(w) \in Tasks
    /\ workers[w].pc \in {"reason", "execute"} => workers[w].mode \in {"reopen", "waive"}
    /\ workers[w].pc = "review" => /\ workers[w].number \in 1..Len(evidence[Task(w)])
                                   /\ workers[w].mode \in {"approve", "changes"}
    /\ workers[w].pc = "dispatch" => workers[w].logged \in 1..Len(log[Task(w)])

TypeInv == TypeOK /\ \A w \in Workers : Fits(w)

\* Rows are only added to the evidence and to the log of a task, and its
\* version only grows.
Grows ==
    \A t \in Tasks :
        /\ Len(evidence'[t]) >= Len(evidence[t])
        /\ Len(log'[t]) >= Len(log[t])

\* What a step of w leaves to the other workers.
Alone(w) ==
    /\ workers' \in [Workers -> WorkerRow]
    /\ \A v \in Workers \ {w} : workers'[v] = workers[v]

LEMMA IdleRow == Idle \in WorkerRow /\ Idle.pc = "idle"
BY DEF Idle, WorkerRow, TaskRow, Statuses, Requests

LEMMA BecomeAlone ==
    ASSUME TypeOK, NEW w \in Workers, NEW q \in WorkerRow, Become(w, q)
    PROVE  Alone(w) /\ workers'[w] = q
BY DEF TypeOK, Become, Alone

LEMMA GotoAlone ==
    ASSUME TypeOK, NEW w \in Workers, NEW pc, Goto(w, pc),
           pc \in {"check", "record", "commit", "replay", "reason", "execute",
                   "review", "dispatch", "answer"}
    PROVE  /\ Alone(w)
           /\ workers'[w] = [workers[w] EXCEPT !.pc = pc]
<1>. DEFINE q == [workers[w] EXCEPT !.pc = pc]
<1>1. workers[w] \in WorkerRow BY DEF TypeOK
<1>2. q \in WorkerRow BY <1>1 DEF WorkerRow
<1>3. Become(w, q) BY DEF Goto
<1>. HIDE DEF q
<1>4. Alone(w) /\ workers'[w] = q BY <1>2, <1>3, BecomeAlone
<1>. QED BY <1>4 DEF q

\* Types are kept when the step's own worker fits and everything grows.
LEMMA FitsKept ==
    ASSUME TypeInv, NEW w \in Workers, Alone(w), Grows, Fits(w)'
    PROVE  \A v \in Workers : Fits(v)'
<1>. SUFFICES ASSUME NEW v \in Workers, v # w PROVE Fits(v)'
  OBVIOUS
<1>1. workers'[v] = workers[v] /\ Fits(v) BY DEF Alone, TypeInv
<1>2. Task(v)' = Task(v) BY <1>1 DEF Task
<1>3. CASE workers[v].pc = "idle" BY <1>1, <1>3 DEF Fits
<1>4. CASE workers[v].pc # "idle"
  <2>1. Task(v) \in Tasks BY <1>1, <1>4 DEF Fits
  <2>2. /\ Len(evidence'[Task(v)]) >= Len(evidence[Task(v)])
        /\ Len(log'[Task(v)]) >= Len(log[Task(v)])
    BY <2>1 DEF Grows
  <2>3. /\ evidence[Task(v)] \in Seq(EvidenceRow) /\ log[Task(v)] \in Seq(LogRow)
    BY <2>1 DEF TypeInv, TypeOK
  <2>4. Len(evidence[Task(v)]) \in Nat /\ Len(log[Task(v)]) \in Nat
    BY <2>3
  <2>5. workers[v] \in WorkerRow BY DEF TypeInv, TypeOK
  <2>. HIDE DEF Task
  <2>. QED BY <1>1, <1>2, <2>1, <2>2, <2>4, <2>5 DEF Fits, WorkerRow
<1>. QED BY <1>3, <1>4

\* execute: the rows it writes and the worker that goes on.
LEMMA ExecuteTypes ==
    ASSUME TypeOK, NEW w \in Workers, Task(w) \in Tasks, NEW key \in Keys,
           NEW to \in Statuses, Execute(w, key, to)
    PROVE  /\ tasks' \in [Tasks -> TaskRow] /\ receipts' \subseteq Keys
           /\ log' \in [Tasks -> Seq(LogRow)]
           /\ \A t \in Tasks : Len(log'[t]) >= Len(log[t])
           /\ Alone(w) /\ Task(w)' = Task(w)
           /\ workers'[w].pc \in {"answer", "dispatch"}
           /\ workers'[w].pc = "dispatch" =>
                 workers'[w].logged \in 1..Len(log'[Task(w)])
<1>0. /\ workers[w] \in WorkerRow /\ tasks[Task(w)] \in TaskRow
      /\ log[Task(w)] \in Seq(LogRow)
      /\ \A t \in Tasks : Len(log[t]) \in Nat
  BY DEF TypeOK
<1>1. CASE key \in receipts
  <2>1. UNCHANGED <<tasks, receipts, log>> /\ Goto(w, "answer") BY <1>1 DEF Execute
  <2>2. Alone(w) /\ workers'[w] = [workers[w] EXCEPT !.pc = "answer"]
    BY <2>1, GotoAlone
  <2>3. workers'[w].pc = "answer" /\ workers'[w].task = workers[w].task
    BY <2>2, <1>0 DEF WorkerRow
  <2>. QED BY <2>1, <2>2, <2>3, <1>0 DEF TypeOK, Task
<1>2. CASE key \notin receipts
  <2>. DEFINE row == [from |-> tasks[Task(w)].status, to |-> to, processed |-> FALSE]
              n == Len(log[Task(w)]) + 1
              q == [workers[w] EXCEPT !.pc = "dispatch", !.logged = n]
  <2>1. /\ tasks' = [tasks EXCEPT ![Task(w)] = [status |-> to, version |-> @.version + 1]]
        /\ log' = [log EXCEPT ![Task(w)] = Append(@, row)]
        /\ receipts' = receipts \cup {key}
        /\ Become(w, q)
    BY <1>2 DEF Execute
  <2>2. row \in LogRow BY <1>0 DEF LogRow, TaskRow
  <2>n. n \in Nat BY <1>0
  <2>. HIDE DEF n
  <2>3. q \in WorkerRow BY <1>0, <2>n DEF WorkerRow
  <2>4. Alone(w) /\ workers'[w] = q BY <2>1, <2>3, BecomeAlone
  <2>5. q.pc = "dispatch" /\ q.logged = n /\ q.task = workers[w].task
    BY <1>0 DEF WorkerRow
  <2>6. [status |-> to, version |-> tasks[Task(w)].version + 1] \in TaskRow
    BY <1>0 DEF TaskRow
  <2>7. tasks' \in [Tasks -> TaskRow] BY <2>1, <2>6 DEF TypeOK
  <2>8. receipts' \subseteq Keys BY <2>1 DEF TypeOK
  <2>. HIDE DEF row, q
  <2>9. /\ log' \in [Tasks -> Seq(LogRow)]
        /\ log'[Task(w)] = Append(log[Task(w)], row)
        /\ \A t \in Tasks \ {Task(w)} : log'[t] = log[t]
    BY <2>1, <2>2, <1>0 DEF TypeOK
  <2>10. Len(log'[Task(w)]) = n BY <2>9, <2>2, <1>0 DEF n
  <2>11. \A t \in Tasks : Len(log'[t]) >= Len(log[t]) BY <2>9, <2>10, <1>0 DEF n
  <2>12. n \in 1..n BY <1>0 DEF n
  <2>13. Task(w)' = Task(w) BY <2>4, <2>5 DEF Task
  <2>. QED BY <2>4, <2>5, <2>7, <2>8, <2>9, <2>10, <2>11, <2>12, <2>13
<1>. QED BY <1>1, <1>2

LEMMA KeyTypes ==
    ASSUME TypeOK, NEW w \in Workers, Task(w) \in Tasks
    PROVE  /\ CompleteKey(w) \in Keys /\ ChangesKey(w) \in Keys
           /\ workers[w].mode \in {"reopen", "waive"} => AdminKey(w) \in Keys
<1>1. workers[w] \in WorkerRow BY DEF TypeOK
<1>2. /\ workers[w].request \in Requests /\ workers[w].number \in Nat
      /\ workers[w].seen.version \in Nat
  BY <1>1 DEF WorkerRow, TaskRow
<1>. QED BY <1>2 DEF CompleteKey, ChangesKey, AdminKey, Keys

-----------------------------------------------------------------------------
RowsOK ==
    /\ tasks \in [Tasks -> TaskRow]
    /\ reason \in [Tasks -> Reasons \cup {NoReason}]
    /\ evidence \in [Tasks -> Seq(EvidenceRow)]
    /\ receipts \subseteq Keys
    /\ log \in [Tasks -> Seq(LogRow)]

LEMMA Assembled ==
    ASSUME TypeInv, NEW w \in Workers, Alone(w), Grows, Fits(w)', RowsOK',
           begun' \in Nat, crashes' \in Nat
    PROVE  TypeInv'
<1>1. TypeOK' BY DEF TypeOK, RowsOK, Alone
<1>2. \A v \in Workers : Fits(v)' BY FitsKept
<1>. QED BY <1>1, <1>2 DEF TypeInv

LEMMA SameRows ==
    ASSUME TypeInv, UNCHANGED rows
    PROVE  Grows /\ RowsOK'
<1>1. \A t \in Tasks : Len(evidence[t]) \in Nat /\ Len(log[t]) \in Nat
  BY DEF TypeInv, TypeOK
<1>2. Grows BY <1>1 DEF Grows, rows
<1>3. RowsOK' BY DEF TypeInv, TypeOK, RowsOK, rows
<1>. QED BY <1>2, <1>3

\* A step that only gives its worker a row, or lets it go.
LEMMA QuietStep ==
    ASSUME TypeInv, NEW w \in Workers, NEW q \in WorkerRow, Become(w, q),
           UNCHANGED rows, begun' \in Nat, crashes' \in Nat,
           q.pc # "idle" => q.task \in Tasks,
           q.pc \in {"reason", "execute"} => q.mode \in {"reopen", "waive"},
           q.pc = "review" => /\ q.number \in 1..Len(evidence[q.task])
                              /\ q.mode \in {"approve", "changes"},
           q.pc # "dispatch"
    PROVE  TypeInv'
<1>1. Alone(w) /\ workers'[w] = q BY BecomeAlone DEF TypeInv
<1>2. Grows /\ RowsOK' BY SameRows
<1>3. Fits(w)' BY <1>1 DEF Fits, Task, rows
<1>. QED BY <1>1, <1>2, <1>3, Assembled

LEMMA BeginStep ==
    ASSUME TypeInv, NEW w \in Workers, BeginAny(w)
    PROVE  TypeInv'
<1>0. /\ Idle \in WorkerRow /\ begun \in Nat /\ crashes \in Nat
      /\ \A t \in Tasks : tasks[t] \in TaskRow /\ evidence[t] \in Seq(EvidenceRow)
  BY IdleRow DEF TypeInv, TypeOK
<1>1. ASSUME NEW q \in WorkerRow, Begin(w, q), q.task \in Tasks,
             q.pc \in {"check", "reason", "execute", "review"},
             q.pc \in {"reason", "execute"} => q.mode \in {"reopen", "waive"},
             q.pc = "review" => /\ q.number \in 1..Len(evidence[q.task])
                                /\ q.mode \in {"approve", "changes"}
      PROVE  TypeInv'
  <2>1. /\ Become(w, q) /\ UNCHANGED rows /\ begun' \in Nat /\ crashes' \in Nat
    BY <1>0, <1>1 DEF Begin
  <2>. QED BY <1>1, <2>1, QuietStep
<1>2. CASE BeginComplete(w)
  <2>1. PICK t \in Tasks, r \in Requests :
           Begin(w, [Idle EXCEPT !.pc = "check", !.mode = "complete", !.task = t,
                                 !.request = r, !.seen = tasks[t]])
    BY <1>2 DEF BeginComplete, FormOf, Requests
  <2>. DEFINE q == [Idle EXCEPT !.pc = "check", !.mode = "complete", !.task = t,
                                !.request = r, !.seen = tasks[t]]
  <2>2. q \in WorkerRow BY <1>0 DEF WorkerRow
  <2>3. q.pc = "check" /\ q.task = t BY <1>0 DEF WorkerRow
  <2>4. Begin(w, q) BY <2>1
  <2>. HIDE DEF q
  <2>. QED BY <1>1, <2>2, <2>3, <2>4
<1>3. CASE BeginReopen(w)
  <2>1. PICK t \in Tasks :
           Begin(w, [Idle EXCEPT !.pc = "execute", !.mode = "reopen", !.task = t,
                                 !.seen = tasks[t]])
    BY <1>3 DEF BeginReopen
  <2>. DEFINE q == [Idle EXCEPT !.pc = "execute", !.mode = "reopen", !.task = t,
                                !.seen = tasks[t]]
  <2>2. q \in WorkerRow BY <1>0 DEF WorkerRow
  <2>3. q.pc = "execute" /\ q.task = t /\ q.mode = "reopen" BY <1>0 DEF WorkerRow
  <2>4. Begin(w, q) BY <2>1
  <2>. HIDE DEF q
  <2>. QED BY <1>1, <2>2, <2>3, <2>4
<1>4. CASE BeginWaive(w)
  <2>1. PICK t \in Tasks, x \in Reasons :
           Begin(w, [Idle EXCEPT !.pc = "reason", !.mode = "waive", !.task = t,
                                 !.reason = x, !.seen = tasks[t]])
    BY <1>4 DEF BeginWaive
  <2>. DEFINE q == [Idle EXCEPT !.pc = "reason", !.mode = "waive", !.task = t,
                                !.reason = x, !.seen = tasks[t]]
  <2>2. q \in WorkerRow BY <1>0 DEF WorkerRow
  <2>3. q.pc = "reason" /\ q.task = t /\ q.mode = "waive" BY <1>0 DEF WorkerRow
  <2>4. Begin(w, q) BY <2>1
  <2>. HIDE DEF q
  <2>. QED BY <1>1, <2>2, <2>3, <2>4
<1>5. CASE BeginReview(w)
  <2>1. PICK t \in Tasks, mode \in {"approve", "changes"} :
          \E n \in 1..Len(evidence[t]) :
           Begin(w, [Idle EXCEPT !.pc = "review", !.mode = mode, !.task = t,
                                 !.number = n, !.seen = tasks[t]])
    BY <1>5 DEF BeginReview
  <2>2. PICK n \in 1..Len(evidence[t]) :
           Begin(w, [Idle EXCEPT !.pc = "review", !.mode = mode, !.task = t,
                                 !.number = n, !.seen = tasks[t]])
    BY <2>1
  <2>. DEFINE q == [Idle EXCEPT !.pc = "review", !.mode = mode, !.task = t,
                                !.number = n, !.seen = tasks[t]]
  <2>3. n \in Nat BY <1>0
  <2>4. q \in WorkerRow BY <1>0, <2>3 DEF WorkerRow
  <2>5. q.pc = "review" /\ q.task = t /\ q.number = n /\ q.mode = mode
    BY <1>0 DEF WorkerRow
  <2>6. Begin(w, q) BY <2>2
  <2>. HIDE DEF q
  <2>. QED BY <1>1, <2>4, <2>5, <2>6
<1>. QED BY <1>2, <1>3, <1>4, <1>5 DEF BeginAny

LEMMA CrashStep ==
    ASSUME TypeInv, NEW w \in Workers, Crash(w) \/ Answer(w)
    PROVE  TypeInv'
<1>1. /\ Become(w, Idle) /\ UNCHANGED rows /\ begun' \in Nat /\ crashes' \in Nat
  BY DEF Crash, Answer, TypeInv, TypeOK
<1>. QED BY <1>1, IdleRow, QuietStep

\* A step that ends in execute, or in a refusal, and leaves reason alone.
LEMMA FailStep ==
    ASSUME TypeInv, NEW w \in Workers, Fail(w), UNCHANGED <<begun, crashes>>
    PROVE  TypeInv'
<1>1. /\ Become(w, Idle) /\ UNCHANGED rows /\ begun' \in Nat /\ crashes' \in Nat
  BY DEF Fail, TypeInv, TypeOK
<1>. QED BY <1>1, IdleRow, QuietStep

EvidenceGrows ==
    /\ evidence' \in [Tasks -> Seq(EvidenceRow)]
    /\ \A t \in Tasks : Len(evidence'[t]) >= Len(evidence[t])

LEMMA ExecuteStep ==
    ASSUME TypeInv, NEW w \in Workers, Task(w) \in Tasks, NEW key \in Keys,
           NEW to \in Statuses, Execute(w, key, to),
           EvidenceGrows, UNCHANGED <<reason, begun, crashes>>
    PROVE  TypeInv'
<1>1. /\ tasks' \in [Tasks -> TaskRow] /\ receipts' \subseteq Keys
      /\ log' \in [Tasks -> Seq(LogRow)]
      /\ \A t \in Tasks : Len(log'[t]) >= Len(log[t])
      /\ Alone(w) /\ Task(w)' = Task(w)
      /\ workers'[w].pc \in {"answer", "dispatch"}
      /\ workers'[w].pc = "dispatch" =>
            workers'[w].logged \in 1..Len(log'[Task(w)])
  BY ExecuteTypes DEF TypeInv
<1>2. reason' \in [Tasks -> Reasons \cup {NoReason}] /\ begun' \in Nat /\ crashes' \in Nat
  BY DEF TypeInv, TypeOK
<1>3. RowsOK' BY <1>1, <1>2 DEF RowsOK, EvidenceGrows
<1>4. Grows BY <1>1 DEF Grows, EvidenceGrows
<1>5. Fits(w)' BY <1>1 DEF Fits
<1>. QED BY <1>1, <1>2, <1>3, <1>4, <1>5, Assembled

LEMMA GotoStep ==
    ASSUME TypeInv, NEW w \in Workers, Task(w) \in Tasks, NEW pc, Goto(w, pc),
           pc \in {"record", "replay", "execute", "answer"},
           pc = "execute" => workers[w].mode \in {"reopen", "waive"},
           Grows, RowsOK', begun' \in Nat, crashes' \in Nat
    PROVE  TypeInv'
<1>1. Alone(w) /\ workers'[w] = [workers[w] EXCEPT !.pc = pc]
  BY GotoAlone DEF TypeInv
<1>2. workers[w] \in WorkerRow BY DEF TypeInv, TypeOK
<1>3. /\ workers'[w].pc = pc /\ workers'[w].mode = workers[w].mode
      /\ workers'[w].task = workers[w].task
  BY <1>1, <1>2 DEF WorkerRow
<1>4. Fits(w)' BY <1>3 DEF Fits, Task
<1>. QED BY <1>1, <1>4, Assembled

LEMMA AppendGrows ==
    ASSUME TypeInv, NEW w \in Workers, Task(w) \in Tasks,
           evidence' = [evidence EXCEPT ![Task(w)] = Append(@, NewEvidence(w))]
    PROVE  /\ EvidenceGrows
           /\ evidence'[Task(w)] = Append(evidence[Task(w)], NewEvidence(w))
           /\ NewEvidence(w) \in EvidenceRow
           /\ \A t \in Tasks \ {Task(w)} : evidence'[t] = evidence[t]
<1>1. /\ workers[w] \in WorkerRow /\ evidence \in [Tasks -> Seq(EvidenceRow)]
  BY DEF TypeInv, TypeOK
<1>2. NewEvidence(w) \in EvidenceRow BY <1>1 DEF NewEvidence, EvidenceRow, WorkerRow
<1>. HIDE DEF NewEvidence
<1>3. /\ evidence'[Task(w)] = Append(evidence[Task(w)], NewEvidence(w))
      /\ \A t \in Tasks \ {Task(w)} : evidence'[t] = evidence[t]
      /\ evidence' \in [Tasks -> Seq(EvidenceRow)]
  BY <1>1, <1>2
<1>4. /\ evidence[Task(w)] \in Seq(EvidenceRow)
      /\ Len(Append(evidence[Task(w)], NewEvidence(w))) = Len(evidence[Task(w)]) + 1
      /\ \A t \in Tasks : Len(evidence[t]) \in Nat
  BY <1>1, <1>2
<1>5. \A t \in Tasks : Len(evidence'[t]) >= Len(evidence[t])
  BY <1>3, <1>4
<1>. QED BY <1>2, <1>3, <1>5 DEF EvidenceGrows

LEMMA ReviewGrows ==
    ASSUME TypeInv, NEW w \in Workers, Task(w) \in Tasks,
           workers[w].number \in 1..Len(evidence[Task(w)]), evidence' = Reviewed(w)
    PROVE  /\ EvidenceGrows
           /\ \A t \in Tasks : Len(evidence'[t]) = Len(evidence[t])
           /\ \A t \in Tasks \ {Task(w)} : evidence'[t] = evidence[t]
           /\ \A n \in 1..Len(evidence[Task(w)]) :
                 /\ evidence'[Task(w)][n].request = evidence[Task(w)][n].request
                 /\ n # workers[w].number =>
                       evidence'[Task(w)][n] = evidence[Task(w)][n]
                 /\ n = workers[w].number /\ workers[w].mode = "approve" =>
                       evidence'[Task(w)][n].review = "approved"
<1>. DEFINE r == IF workers[w].mode = "approve" THEN "approved" ELSE "changes_requested"
            k == workers[w].number
            s == evidence[Task(w)]
<1>1. /\ evidence \in [Tasks -> Seq(EvidenceRow)] /\ s \in Seq(EvidenceRow)
      /\ k \in 1..Len(s)
  BY DEF TypeInv, TypeOK
<1>2. evidence' = [evidence EXCEPT ![Task(w)] = [s EXCEPT ![k] = [s[k] EXCEPT !.review = r]]]
  BY DEF Reviewed
<1>3. s[k] \in EvidenceRow BY <1>1
<1>4. /\ [s[k] EXCEPT !.review = r] \in EvidenceRow
      /\ [s[k] EXCEPT !.review = r].request = s[k].request
      /\ [s[k] EXCEPT !.review = r].review = r
  BY <1>3 DEF EvidenceRow
<1>. DEFINE x == [s[k] EXCEPT !.review = r]
            z == [s EXCEPT ![k] = x]
<1>. HIDE DEF x, r, k
<1>5. /\ z \in Seq(EvidenceRow) /\ Len(z) = Len(s) /\ z[k] = x
      /\ \A n \in 1..Len(s) : n # k => z[n] = s[n]
  BY <1>1, <1>4 DEF x
<1>6. evidence' = [evidence EXCEPT ![Task(w)] = z] BY <1>2 DEF x, k, r
<1>. HIDE DEF z, s
<1>7. /\ evidence' \in [Tasks -> Seq(EvidenceRow)]
      /\ evidence'[Task(w)] = z
      /\ \A t \in Tasks \ {Task(w)} : evidence'[t] = evidence[t]
  BY <1>1, <1>5, <1>6
<1>8. \A t \in Tasks : Len(evidence'[t]) = Len(evidence[t]) BY <1>5, <1>7 DEF s
<1>9. \A t \in Tasks : Len(evidence[t]) \in Nat BY <1>1
<1>10. EvidenceGrows BY <1>7, <1>8, <1>9 DEF EvidenceGrows
<1>11. x.request = s[k].request /\ x.review = r BY <1>4 DEF x
<1>12. r = "approved" \/ workers[w].mode # "approve" BY DEF r
<1>. QED BY <1>5, <1>7, <1>8, <1>10, <1>11, <1>12 DEF s, k

\* What every step within a request may rely on.
LEMMA Working ==
    ASSUME TypeInv, NEW w \in Workers, workers[w].pc # "idle"
    PROVE  /\ workers[w] \in WorkerRow /\ Task(w) \in Tasks /\ Fits(w)
           /\ begun \in Nat /\ crashes \in Nat
           /\ tasks[Task(w)] \in TaskRow /\ log[Task(w)] \in Seq(LogRow)
           /\ evidence[Task(w)] \in Seq(EvidenceRow)
           /\ CompleteKey(w) \in Keys /\ ChangesKey(w) \in Keys
           /\ workers[w].mode \in {"reopen", "waive"} => AdminKey(w) \in Keys
<1>1. Task(w) \in Tasks /\ Fits(w) BY DEF TypeInv, Fits
<1>2. CompleteKey(w) \in Keys /\ ChangesKey(w) \in Keys
      /\ (workers[w].mode \in {"reopen", "waive"} => AdminKey(w) \in Keys)
  BY <1>1, KeyTypes DEF TypeInv
<1>. QED BY <1>1, <1>2 DEF TypeInv, TypeOK

LEMMA EvidenceSame ==
    ASSUME TypeInv, UNCHANGED evidence
    PROVE  EvidenceGrows
<1>1. \A t \in Tasks : Len(evidence[t]) \in Nat BY DEF TypeInv, TypeOK
<1>. QED BY <1>1 DEF EvidenceGrows, TypeInv, TypeOK

\* on_commit changes no more than one flag of one row.
LEMMA DispatchLog ==
    ASSUME TypeInv, NEW w \in Workers, Task(w) \in Tasks,
           workers[w].logged \in 1..Len(log[Task(w)]),
           log' = [log EXCEPT ![Task(w)][workers[w].logged].processed = TRUE]
    PROVE  /\ log' \in [Tasks -> Seq(LogRow)]
           /\ \A t \in Tasks : /\ Len(log'[t]) = Len(log[t])
                               /\ Len(log'[t]) >= Len(log[t])
                               /\ \A i \in 1..Len(log[t]) :
                                     /\ log'[t][i].from = log[t][i].from
                                     /\ log'[t][i].to = log[t][i].to
<1>. DEFINE k == workers[w].logged
            s == log[Task(w)]
            x == [s[k] EXCEPT !.processed = TRUE]
            z == [s EXCEPT ![k] = x]
<1>1. log \in [Tasks -> Seq(LogRow)] /\ s \in Seq(LogRow) /\ k \in 1..Len(s)
  BY DEF TypeInv, TypeOK
<1>2. log' = [log EXCEPT ![Task(w)] = z] OBVIOUS
<1>3. s[k] \in LogRow BY <1>1
<1>4. x \in LogRow /\ x.from = s[k].from /\ x.to = s[k].to
  BY <1>3 DEF LogRow
<1>. HIDE DEF x, k
<1>5. /\ z \in Seq(LogRow) /\ Len(z) = Len(s) /\ z[k] = x
      /\ \A n \in 1..Len(s) : n # k => z[n] = s[n]
  BY <1>1, <1>4
<1>. HIDE DEF z, s
<1>6. /\ log' \in [Tasks -> Seq(LogRow)] /\ log'[Task(w)] = z
      /\ \A t \in Tasks \ {Task(w)} : log'[t] = log[t]
  BY <1>1, <1>2, <1>5
<1>7. \A t \in Tasks : Len(log[t]) \in Nat BY <1>1
<1>8. \A i \in 1..Len(s) : z[i].from = s[i].from /\ z[i].to = s[i].to
  BY <1>4, <1>5
<1>9. log[Task(w)] = s BY DEF s
<1>. QED BY <1>5, <1>6, <1>7, <1>8, <1>9

\* Complete, under the evidence that was or was not added before it.
LEMMA CompleteStep ==
    ASSUME TypeInv, NEW w \in Workers, workers[w].pc # "idle", Complete(w),
           EvidenceGrows, UNCHANGED <<reason, begun, crashes>>
    PROVE  TypeInv'
<1>0. Task(w) \in Tasks /\ CompleteKey(w) \in Keys BY Working
<1>1. CASE workers[w].seen.status # "complete"
  BY <1>0, <1>1, ExecuteStep DEF Complete, Statuses
<1>2. CASE workers[w].seen.status = "complete"
  <2>1. /\ receipts' = receipts \cup {CompleteKey(w)} /\ Goto(w, "answer")
        /\ UNCHANGED <<tasks, log>>
    BY <1>2 DEF Complete
  <2>2. \A t \in Tasks : Len(log[t]) \in Nat BY DEF TypeInv, TypeOK
  <2>3. Grows BY <2>1, <2>2 DEF Grows, EvidenceGrows
  <2>4. RowsOK' /\ begun' \in Nat /\ crashes' \in Nat
    BY <2>1, <1>0 DEF RowsOK, EvidenceGrows, TypeInv, TypeOK
  <2>. QED BY <1>0, <2>1, <2>3, <2>4, GotoStep
<1>. QED BY <1>1, <1>2

LEMMA WorkStep ==
    ASSUME TypeInv, NEW w \in Workers, Step(w)
    PROVE  TypeInv'
<1>a. CASE Check(w)
  <2>1. /\ Goto(w, IF CompleteKey(w) \in receipts THEN "replay" ELSE "record")
        /\ UNCHANGED rows /\ workers[w].pc # "idle" /\ UNCHANGED <<begun, crashes>>
    BY <1>a DEF Check
  <2>2. Grows /\ RowsOK' BY <2>1, SameRows
  <2>. QED BY <2>1, <2>2, Working, GotoStep
<1>b. CASE Record(w)
  <2>. DEFINE n == Len(evidence[Task(w)]) + 1
              q == [workers[w] EXCEPT !.pc = "commit", !.number = n]
  <2>1. /\ Become(w, q) /\ UNCHANGED rows /\ UNCHANGED <<begun, crashes>>
        /\ workers[w].pc # "idle"
    BY <1>b DEF Record
  <2>2. workers[w] \in WorkerRow /\ Task(w) \in Tasks /\ n \in Nat
        /\ begun \in Nat /\ crashes \in Nat
    BY <2>1, Working
  <2>. HIDE DEF n
  <2>3. q \in WorkerRow BY <2>2 DEF WorkerRow
  <2>4. q.pc = "commit" /\ q.task \in Tasks BY <2>2 DEF WorkerRow, Task
  <2>. HIDE DEF q
  <2>. QED BY <2>1, <2>2, <2>3, <2>4, QuietStep
<1>c. CASE CommitComplete(w)
  <2>1. workers[w].pc # "idle" /\ UNCHANGED <<begun, crashes>> BY <1>c DEF CommitComplete
  <2>2. CASE Fail(w) BY <2>1, <2>2, FailStep
  <2>3. CASE ~Fail(w)
    <3>1. /\ evidence' = [evidence EXCEPT ![Task(w)] = Append(@, NewEvidence(w))]
          /\ Complete(w) /\ UNCHANGED reason
      BY <1>c, <2>3 DEF CommitComplete
    <3>2. EvidenceGrows BY <3>1, <2>1, Working, AppendGrows
    <3>. QED BY <3>1, <3>2, <2>1, CompleteStep
  <2>. QED BY <2>2, <2>3
<1>d. CASE ReplayComplete(w)
  <2>1. /\ workers[w].pc # "idle" /\ Complete(w)
        /\ UNCHANGED <<reason, evidence, begun, crashes>>
    BY <1>d DEF ReplayComplete
  <2>. QED BY <2>1, EvidenceSame, CompleteStep
<1>e. CASE SaveReason(w)
  <2>1. /\ workers[w].pc = "reason" /\ Goto(w, "execute")
        /\ reason' = [reason EXCEPT ![Task(w)] = workers[w].reason]
        /\ UNCHANGED <<tasks, evidence, receipts, log, begun, crashes>>
    BY <1>e DEF SaveReason
  <2>2. /\ workers[w] \in WorkerRow /\ Task(w) \in Tasks /\ Fits(w)
        /\ begun \in Nat /\ crashes \in Nat
    BY <2>1, Working
  <2>3. workers[w].mode \in {"reopen", "waive"} BY <2>1, <2>2 DEF Fits
  <2>4. reason' \in [Tasks -> Reasons \cup {NoReason}]
    BY <2>1, <2>2 DEF TypeInv, TypeOK, WorkerRow
  <2>5. \A t \in Tasks : Len(evidence[t]) \in Nat /\ Len(log[t]) \in Nat
    BY DEF TypeInv, TypeOK
  <2>6. Grows BY <2>1, <2>5 DEF Grows
  <2>7. RowsOK' BY <2>1, <2>4 DEF RowsOK, TypeInv, TypeOK
  <2>. QED BY <2>1, <2>2, <2>3, <2>6, <2>7, GotoStep
<1>f. CASE ExecuteAdmin(w)
  <2>1. workers[w].pc = "execute" /\ UNCHANGED <<begun, crashes>>
    BY <1>f DEF ExecuteAdmin
  <2>2. Task(w) \in Tasks /\ AdminKey(w) \in Keys
    BY <2>1, Working DEF Fits
  <2>3. CASE Fail(w) BY <2>1, <2>3, FailStep
  <2>4. CASE ~Fail(w)
    <3>1. Execute(w, AdminKey(w), Target(w)) /\ UNCHANGED <<reason, evidence>>
      BY <1>f, <2>4 DEF ExecuteAdmin
    <3>2. Target(w) \in Statuses BY DEF Target, Statuses
    <3>. QED BY <3>1, <3>2, <2>1, <2>2, EvidenceSame, ExecuteStep
  <2>. QED BY <2>3, <2>4
<1>g. CASE CommitReview(w)
  <2>1. workers[w].pc = "review" /\ UNCHANGED <<begun, crashes>>
    BY <1>g DEF CommitReview
  <2>2. /\ Task(w) \in Tasks /\ ChangesKey(w) \in Keys
        /\ begun \in Nat /\ crashes \in Nat
        /\ workers[w].number \in 1..Len(evidence[Task(w)])
    BY <2>1, Working DEF Fits
  <2>3. CASE Fail(w) BY <2>1, <2>3, FailStep
  <2>4. CASE ~Fail(w)
    <3>1. evidence' = Reviewed(w) /\ UNCHANGED reason
      BY <1>g, <2>4 DEF CommitReview
    <3>2. EvidenceGrows BY <3>1, <2>2, ReviewGrows
    <3>3. CASE Reopens(w)
      <4>1. Execute(w, ChangesKey(w), "reopened") BY <1>g, <2>4, <3>3 DEF CommitReview
      <4>. QED BY <4>1, <3>1, <3>2, <2>1, <2>2, ExecuteStep DEF Statuses
    <3>4. CASE ~Reopens(w)
      <4>1. Goto(w, "answer") /\ UNCHANGED <<tasks, receipts, log>>
        BY <1>g, <2>4, <3>4 DEF CommitReview
      <4>2. \A t \in Tasks : Len(log[t]) \in Nat BY DEF TypeInv, TypeOK
      <4>3. Grows BY <4>1, <4>2, <3>2 DEF Grows, EvidenceGrows
      <4>4. RowsOK' BY <4>1, <3>1, <3>2 DEF RowsOK, EvidenceGrows, TypeInv, TypeOK
      <4>. QED BY <4>1, <4>3, <4>4, <2>1, <2>2, GotoStep
    <3>. QED BY <3>3, <3>4
  <2>. QED BY <2>3, <2>4
<1>h. CASE Dispatch(w)
  <2>1. /\ workers[w].pc = "dispatch" /\ Goto(w, "answer")
        /\ log' = [log EXCEPT ![Task(w)][workers[w].logged].processed = TRUE]
        /\ UNCHANGED <<tasks, reason, evidence, receipts, begun, crashes>>
    BY <1>h DEF Dispatch
  <2>2. /\ Task(w) \in Tasks /\ begun \in Nat /\ crashes \in Nat
        /\ workers[w].logged \in 1..Len(log[Task(w)])
    BY <2>1, Working DEF Fits
  <2>3. /\ log' \in [Tasks -> Seq(LogRow)]
        /\ \A t \in Tasks : Len(log'[t]) >= Len(log[t])
    BY <2>1, <2>2, DispatchLog
  <2>4. \A t \in Tasks : Len(evidence[t]) \in Nat BY DEF TypeInv, TypeOK
  <2>5. Grows BY <2>1, <2>3, <2>4 DEF Grows
  <2>6. RowsOK' BY <2>1, <2>3 DEF RowsOK, TypeInv, TypeOK
  <2>. QED BY <2>1, <2>2, <2>5, <2>6, GotoStep
<1>i. CASE Answer(w) BY <1>i, CrashStep
<1>. QED BY <1>a, <1>b, <1>c, <1>d, <1>e, <1>f, <1>g, <1>h, <1>i DEF Step

LEMMA TypeInvariant == Spec => []TypeInv
<1>1. Init => TypeInv
  <2>. SUFFICES ASSUME Init PROVE TypeInv
    OBVIOUS
  <2>1. TypeOK
    BY LimitsAssumption, IdleRow DEF Init, TypeOK, TaskRow, Statuses
  <2>2. \A w \in Workers : Fits(w) BY IdleRow DEF Init, Fits
  <2>. QED BY <2>1, <2>2 DEF TypeInv
<1>2. TypeInv /\ [Next]_vars => TypeInv'
  <2>. SUFFICES ASSUME TypeInv, [Next]_vars PROVE TypeInv'
    OBVIOUS
  <2>1. CASE Next BY <2>1, BeginStep, WorkStep, CrashStep DEF Next
  <2>2. CASE UNCHANGED vars
    <3>1. TypeOK' BY <2>2 DEF TypeInv, TypeOK, vars, rows
    <3>2. \A w \in Workers : Fits(w)'
      BY <2>2 DEF TypeInv, Fits, Task, vars, rows
    <3>. QED BY <3>1, <3>2 DEF TypeInv
  <2>. QED BY <2>1, <2>2
<1>. QED BY <1>1, <1>2, PTL DEF Spec

\* The rows of the tables have the types of their models.
THEOREM TypeCorrect == Spec => []TypeOK
<1>1. TypeInv => TypeOK BY DEF TypeInv
<1>. QED BY <1>1, TypeInvariant, PTL

-----------------------------------------------------------------------------
(* What the rows say of each other.                                        *)

\* execute, by its two outcomes.
LEMMA ExecuteEffects ==
    ASSUME TypeInv, NEW w \in Workers, Task(w) \in Tasks, NEW key \in Keys,
           NEW to \in Statuses, Execute(w, key, to)
    PROVE  /\ Alone(w) /\ workers'[w].pc \in {"answer", "dispatch"}
           /\ \/ key \in receipts /\ UNCHANGED <<tasks, receipts, log>>
              \/ /\ key \notin receipts /\ receipts' = receipts \cup {key}
                 /\ tasks'[Task(w)].status = to
                 /\ tasks'[Task(w)].version = tasks[Task(w)].version + 1
                 /\ \A t \in Tasks \ {Task(w)} : tasks'[t] = tasks[t] /\ log'[t] = log[t]
                 /\ log'[Task(w)] = Append(log[Task(w)],
                      [from |-> tasks[Task(w)].status, to |-> to, processed |-> FALSE])
<1>1. Alone(w) /\ workers'[w].pc \in {"answer", "dispatch"}
  BY ExecuteTypes DEF TypeInv
<1>2. /\ tasks \in [Tasks -> TaskRow] /\ log \in [Tasks -> Seq(LogRow)]
  BY DEF TypeInv, TypeOK
<1>3. CASE key \in receipts BY <1>1, <1>3 DEF Execute
<1>4. CASE key \notin receipts
  <2>. DEFINE row == [from |-> tasks[Task(w)].status, to |-> to, processed |-> FALSE]
              new == [status |-> to, version |-> tasks[Task(w)].version + 1]
  <2>1. /\ receipts' = receipts \cup {key}
        /\ tasks' = [tasks EXCEPT ![Task(w)] = new]
        /\ log' = [log EXCEPT ![Task(w)] = Append(log[Task(w)], row)]
    BY <1>4 DEF Execute
  <2>2. new.status = to /\ new.version = tasks[Task(w)].version + 1 OBVIOUS
  <2>. HIDE DEF row, new
  <2>3. /\ tasks'[Task(w)] = new
        /\ log'[Task(w)] = Append(log[Task(w)], row)
        /\ \A t \in Tasks \ {Task(w)} : tasks'[t] = tasks[t] /\ log'[t] = log[t]
    BY <1>2, <2>1
  <2>. QED BY <1>1, <1>4, <2>1, <2>2, <2>3 DEF row
<1>. QED BY <1>3, <1>4

LEMMA ExecuteIsExplained ==
    ASSUME TypeInv, StatusIsLogged, NEW w \in Workers, Task(w) \in Tasks,
           NEW key \in Keys, NEW to \in Statuses, Execute(w, key, to)
    PROVE  StatusIsLogged'
<1>. SUFFICES ASSUME NEW t \in Tasks PROVE Explained(t)'
  BY DEF StatusIsLogged
<1>1. Explained(t) /\ log[t] \in Seq(LogRow) /\ tasks[t] \in TaskRow
  BY DEF StatusIsLogged, TypeInv, TypeOK
<1>2. CASE tasks'[t] = tasks[t] /\ log'[t] = log[t]
  BY <1>1, <1>2 DEF Explained
<1>3. CASE ~(tasks'[t] = tasks[t] /\ log'[t] = log[t])
  <2>. DEFINE row == [from |-> tasks[t].status, to |-> to, processed |-> FALSE]
  <2>1. /\ t = Task(w) /\ tasks'[t].status = to
        /\ tasks'[t].version = tasks[t].version + 1
        /\ log'[t] = Append(log[t], row)
    BY <1>3, ExecuteEffects
  <2>2. row \in LogRow /\ row.from = tasks[t].status /\ row.to = to
    BY <1>1 DEF LogRow, TaskRow
  <2>. HIDE DEF row
  <2>3. /\ Len(log'[t]) = Len(log[t]) + 1 /\ Len(log[t]) \in Nat
        /\ log'[t][Len(log[t]) + 1] = row
        /\ \A i \in 1..Len(log[t]) : log'[t][i] = log[t][i]
        /\ log'[t] # << >>
    BY <1>1, <2>1, <2>2
  <2>4. Len(log'[t]) = tasks'[t].version BY <1>1, <2>1, <2>3 DEF Explained
  <2>5. tasks'[t].status = log'[t][Len(log'[t])].to BY <2>1, <2>2, <2>3
  <2>6. ASSUME NEW i \in 1..Len(log'[t])
        PROVE  log'[t][i].from = IF i = 1 THEN "pending" ELSE log'[t][i - 1].to
    <3>1. CASE i \in 1..Len(log[t])
      <4>1. log'[t][i] = log[t][i] BY <3>1, <2>3
      <4>2. i # 1 => log'[t][i - 1] = log[t][i - 1] BY <3>1, <2>3
      <4>. QED BY <4>1, <4>2, <3>1, <1>1 DEF Explained
    <3>2. CASE i = Len(log[t]) + 1
      <4>1. log'[t][i].from = tasks[t].status BY <3>2, <2>2, <2>3
      <4>2. CASE log[t] = << >>
        <5>1. i = 1 BY <4>2, <3>2
        <5>. QED BY <4>1, <4>2, <5>1, <1>1 DEF Explained
      <4>3. CASE log[t] # << >>
        <5>1. Len(log[t]) \in 1..Len(log[t]) BY <4>3, <1>1
        <5>2. i # 1 /\ i - 1 = Len(log[t]) BY <5>1, <3>2, <2>3
        <5>3. log'[t][i - 1] = log[t][Len(log[t])] BY <5>1, <5>2, <2>3
        <5>. QED BY <4>1, <4>3, <5>2, <5>3, <1>1 DEF Explained
      <4>. QED BY <4>2, <4>3
    <3>. QED BY <3>1, <3>2, <2>3
  <2>. QED BY <2>3, <2>4, <2>5, <2>6 DEF Explained
<1>. QED BY <1>2, <1>3

LEMMA SameIsExplained ==
    ASSUME StatusIsLogged, UNCHANGED <<tasks, log>>
    PROVE  StatusIsLogged'
BY DEF StatusIsLogged, Explained

LEMMA AuditStep ==
    ASSUME TypeInv, StatusIsLogged, NEW w \in Workers,
           BeginAny(w) \/ Step(w) \/ Crash(w)
    PROVE  StatusIsLogged'
<1>0. CASE UNCHANGED <<tasks, log>> BY <1>0, SameIsExplained
<1>1. ASSUME workers[w].pc # "idle", NEW key \in Keys, NEW to \in Statuses,
             Execute(w, key, to)
      PROVE  StatusIsLogged'
  BY <1>1, Working, ExecuteIsExplained
<1>a. ASSUME workers[w].pc # "idle", Complete(w) PROVE StatusIsLogged'
  BY <1>0, <1>1, <1>a, Working DEF Complete, Statuses
<1>b. CASE CommitComplete(w)
  BY <1>0, <1>a, <1>b DEF CommitComplete, Fail, rows
<1>c. CASE ReplayComplete(w) BY <1>a, <1>c DEF ReplayComplete
<1>d. CASE ExecuteAdmin(w)
  <2>1. workers[w].pc = "execute" BY <1>d DEF ExecuteAdmin
  <2>2. AdminKey(w) \in Keys /\ Target(w) \in Statuses
    BY <2>1, Working DEF Fits, Target, Statuses
  <2>. QED BY <1>0, <1>1, <1>d, <2>1, <2>2 DEF ExecuteAdmin, Fail, rows
<1>e. CASE CommitReview(w)
  <2>1. workers[w].pc = "review" BY <1>e DEF CommitReview
  <2>2. ChangesKey(w) \in Keys /\ "reopened" \in Statuses
    BY <2>1, Working DEF Statuses
  <2>. QED BY <1>0, <1>1, <1>e, <2>1, <2>2 DEF CommitReview, Fail, rows
<1>f. CASE Dispatch(w)
  <2>1. /\ workers[w].pc = "dispatch" /\ UNCHANGED tasks
        /\ log' = [log EXCEPT ![Task(w)][workers[w].logged].processed = TRUE]
    BY <1>f DEF Dispatch
  <2>2. \A t \in Tasks : /\ Len(log'[t]) = Len(log[t])
                         /\ \A i \in 1..Len(log[t]) :
                              /\ log'[t][i].from = log[t][i].from
                              /\ log'[t][i].to = log[t][i].to
    BY <2>1, Working, DispatchLog DEF Fits
  <2>3. log' \in [Tasks -> Seq(LogRow)]
    BY <2>1, Working, DispatchLog DEF Fits
  <2>. SUFFICES ASSUME NEW t \in Tasks PROVE Explained(t)'
    BY DEF StatusIsLogged
  <2>4. Explained(t) /\ log[t] \in Seq(LogRow) /\ log'[t] \in Seq(LogRow)
    BY <2>3 DEF StatusIsLogged, TypeInv, TypeOK
  <2>5. Len(log[t]) \in Nat /\ (log[t] = << >> <=> Len(log[t]) = 0)
        /\ (log'[t] = << >> <=> Len(log'[t]) = 0)
    BY <2>4
  <2>6. ASSUME NEW i \in 1..Len(log[t]), i # 1 PROVE i - 1 \in 1..Len(log[t])
    BY <2>5, <2>6
  <2>7. log[t] # << >> => Len(log[t]) \in 1..Len(log[t]) BY <2>5
  <2>. QED BY <2>1, <2>2, <2>4, <2>5, <2>6, <2>7 DEF Explained
<1>g. CASE BeginAny(w)
  BY <1>0, <1>g DEF BeginAny, BeginComplete, BeginReopen, BeginWaive, BeginReview,
                    Begin, rows
<1>h. CASE Check(w) \/ Record(w) \/ SaveReason(w) \/ Answer(w) \/ Crash(w)
  BY <1>0, <1>h DEF Check, Record, SaveReason, Answer, Crash, rows
<1>. QED BY <1>b, <1>c, <1>d, <1>e, <1>f, <1>g, <1>h DEF Step

\* The audit trail of a task explains its status and its version.
THEOREM AuditTrail == Spec => []StatusIsLogged
<1>1. ASSUME Init PROVE StatusIsLogged
  <2>1. ASSUME NEW t \in Tasks PROVE Explained(t)
    <3>1. log[t] = << >> /\ tasks[t] = [status |-> "pending", version |-> 0]
      BY <1>1 DEF Init
    <3>2. Len(log[t]) = 0 /\ tasks[t].version = 0 /\ tasks[t].status = "pending"
      BY <3>1
    <3>. QED BY <3>1, <3>2 DEF Explained
  <2>. QED BY <2>1 DEF StatusIsLogged
<1>2. TypeInv /\ StatusIsLogged /\ [Next]_vars => StatusIsLogged'
  <2>1. CASE Next BY <2>1, AuditStep DEF Next
  <2>2. CASE UNCHANGED vars BY <2>2, SameIsExplained DEF vars, rows
  <2>. QED BY <2>1, <2>2
<1>. QED BY <1>1, <1>2, TypeInvariant, PTL DEF Spec

-----------------------------------------------------------------------------
(* Evidence, receipts and reviews.  RejectedIsOpen is not inductive: a     *)
(* request for changes in flight has loaded the task before it locks       *)
(* nothing, and its key may be known already.  In both cases the file it   *)
(* is about is the latest of a COMPLETE task no more.                      *)

StaleReview(w) ==
    workers[w].pc = "review" /\ workers[w].mode = "changes"
        /\ workers[w].seen.status # "complete" =>
            (tasks[Task(w)].status = "complete"
                => workers[w].number < Len(evidence[Task(w)]))

KnownReplay(w) == workers[w].pc = "replay" => CompleteKey(w) \in receipts

ChangesAreOld ==
    \A t \in Tasks, n \in Nat : <<"changes", t, n>> \in receipts =>
        /\ n \in 1..Len(evidence[t])
        /\ tasks[t].status = "complete" => n < Len(evidence[t])

EvidenceInv ==
    /\ RejectedIsOpen /\ EvidenceIsKept /\ ChangesAreOld
    /\ \A w \in Workers : StaleReview(w) /\ KnownReplay(w)

\* What every step does to the rows: evidence stays and keeps its request, a
\* task becomes COMPLETE only with new evidence, and a new key is backed.
Backed ==
    /\ \A t \in Tasks : Len(evidence'[t]) >= Len(evidence[t])
    /\ \A t \in Tasks : \A n \in 1..Len(evidence[t]) :
          evidence'[t][n].request = evidence[t][n].request
    /\ \A t \in Tasks : tasks'[t].status = "complete" =>
          tasks[t].status = "complete" \/ Len(evidence'[t]) > Len(evidence[t])
    /\ receipts \subseteq receipts'
    /\ \A t \in Tasks, r \in Requests : <<"complete", t, r>> \in receipts' =>
          <<"complete", t, r>> \in receipts \/ Submitted(t, r)'
    /\ \A t \in Tasks, n \in Nat : <<"changes", t, n>> \in receipts' =>
          \/ <<"changes", t, n>> \in receipts
          \/ n \in 1..Len(evidence'[t]) /\ tasks'[t].status # "complete"

LEMMA BackedKeeps ==
    ASSUME TypeInv, TypeInv', EvidenceInv, NEW w \in Workers, Alone(w), Backed,
           RejectedIsOpen', StaleReview(w)', KnownReplay(w)'
    PROVE  EvidenceInv'
<1>0. \A t \in Tasks : /\ evidence[t] \in Seq(EvidenceRow)
                       /\ evidence'[t] \in Seq(EvidenceRow)
                       /\ Len(evidence[t]) \in Nat /\ Len(evidence'[t]) \in Nat
  BY DEF TypeInv, TypeOK
<1>1. EvidenceIsKept'
  <2>1. ASSUME NEW t \in Tasks, NEW r \in Requests, <<"complete", t, r>> \in receipts'
        PROVE  Submitted(t, r)'
    <3>1. CASE Submitted(t, r)' BY <3>1
    <3>2. CASE <<"complete", t, r>> \in receipts
      <4>1. PICK n \in 1..Len(evidence[t]) : evidence[t][n].request = r
        BY <3>2 DEF EvidenceInv, EvidenceIsKept, Submitted
      <4>2. n \in 1..Len(evidence'[t]) /\ evidence'[t][n].request = r
        BY <1>0, <4>1 DEF Backed
      <4>. QED BY <4>2 DEF Submitted
    <3>. QED BY <2>1, <3>1, <3>2 DEF Backed
  <2>2. ASSUME NEW t \in Tasks, tasks'[t].status = "complete"
        PROVE  evidence'[t] # << >>
    <3>1. evidence[t] # << >> => Len(evidence[t]) > 0 BY <1>0
    <3>2. Len(evidence'[t]) > 0
      BY <1>0, <2>2, <3>1 DEF Backed, EvidenceInv, EvidenceIsKept
    <3>. QED BY <3>2
  <2>. QED BY <2>1, <2>2 DEF EvidenceIsKept
<1>2. ChangesAreOld'
  <2>. SUFFICES ASSUME NEW t \in Tasks, NEW n \in Nat, <<"changes", t, n>> \in receipts'
                PROVE  /\ n \in 1..Len(evidence'[t])
                       /\ tasks'[t].status = "complete" => n < Len(evidence'[t])
    BY DEF ChangesAreOld
  <2>1. CASE <<"changes", t, n>> \in receipts
    BY <1>0, <2>1 DEF Backed, EvidenceInv, ChangesAreOld
  <2>2. CASE <<"changes", t, n>> \notin receipts BY <2>2 DEF Backed
  <2>. QED BY <2>1, <2>2
<1>3. ASSUME NEW v \in Workers PROVE StaleReview(v)' /\ KnownReplay(v)'
  <2>1. CASE v = w BY <2>1
  <2>2. CASE v # w
    <3>1. workers'[v] = workers[v] /\ Task(v)' = Task(v) /\ Fits(v)
      BY <2>2 DEF Alone, Task, TypeInv
    <3>2. StaleReview(v) /\ KnownReplay(v) BY DEF EvidenceInv
    <3>3. KnownReplay(v)' BY <3>1, <3>2 DEF KnownReplay, CompleteKey, Backed
    <3>4. ASSUME workers[v].pc = "review", workers[v].mode = "changes",
                 workers[v].seen.status # "complete",
                 tasks'[Task(v)].status = "complete"
          PROVE  workers[v].number < Len(evidence'[Task(v)])
      <4>1. Task(v) \in Tasks /\ workers[v].number \in 1..Len(evidence[Task(v)])
        BY <3>1, <3>4 DEF Fits
      <4>2. CASE tasks[Task(v)].status = "complete"
        BY <4>1, <4>2, <3>2, <3>4, <1>0 DEF StaleReview, Backed
      <4>3. CASE tasks[Task(v)].status # "complete"
        BY <4>1, <4>3, <3>4, <1>0 DEF Backed
      <4>. QED BY <4>2, <4>3
    <3>. QED BY <3>1, <3>3, <3>4 DEF StaleReview
  <2>. QED BY <2>1, <2>2
<1>. QED BY <1>1, <1>2, <1>3 DEF EvidenceInv

\* A step that leaves the rows: only what its own worker now claims counts.
LEMMA QuietKeeps ==
    ASSUME TypeInv, TypeInv', EvidenceInv, NEW w \in Workers, NEW q \in WorkerRow,
           Become(w, q), UNCHANGED <<tasks, evidence, receipts>>,
           q.pc = "review" => q.seen = tasks[q.task],
           q.pc = "replay" => <<"complete", q.task, q.request>> \in receipts
    PROVE  EvidenceInv'
<1>1. Alone(w) /\ workers'[w] = q BY BecomeAlone DEF TypeInv
<1>2. \A t \in Tasks : Len(evidence[t]) \in Nat BY DEF TypeInv, TypeOK
<1>3. Backed BY <1>2 DEF Backed
<1>4. RejectedIsOpen' BY DEF EvidenceInv, RejectedIsOpen
<1>5. StaleReview(w)' BY <1>1 DEF StaleReview, Task
<1>6. KnownReplay(w)' BY <1>1 DEF KnownReplay, CompleteKey, Task
<1>. QED BY <1>1, <1>3, <1>4, <1>5, <1>6, BackedKeeps

\* A worker that is on its way out claims nothing.
LEMMA LeavingKeeps ==
    ASSUME TypeInv, TypeInv', EvidenceInv, NEW w \in Workers, Alone(w), Backed,
           RejectedIsOpen', workers'[w].pc \notin {"review", "replay"}
    PROVE  EvidenceInv'
<1>1. StaleReview(w)' /\ KnownReplay(w)' BY DEF StaleReview, KnownReplay
<1>. QED BY <1>1, BackedKeeps

LEMMA IdleKeeps ==
    ASSUME TypeInv, TypeInv', EvidenceInv, NEW w \in Workers, Become(w, Idle),
           UNCHANGED rows
    PROVE  EvidenceInv'
BY IdleRow, QuietKeeps DEF rows

LEMMA BeginKeeps ==
    ASSUME TypeInv, TypeInv', EvidenceInv, NEW w \in Workers, BeginAny(w)
    PROVE  EvidenceInv'
<1>0. /\ Idle \in WorkerRow
      /\ \A t \in Tasks : tasks[t] \in TaskRow /\ Len(evidence[t]) \in Nat
  BY IdleRow DEF TypeInv, TypeOK
<1>1. ASSUME NEW q \in WorkerRow, Begin(w, q), q.pc \notin {"review", "replay"}
      PROVE  EvidenceInv'
  BY <1>1, QuietKeeps DEF Begin, rows
<1>2. CASE BeginComplete(w)
  <2>1. PICK t \in Tasks, r \in Requests :
           Begin(w, [Idle EXCEPT !.pc = "check", !.mode = "complete", !.task = t,
                                 !.request = r, !.seen = tasks[t]])
    BY <1>2 DEF BeginComplete, FormOf, Requests
  <2>. DEFINE q == [Idle EXCEPT !.pc = "check", !.mode = "complete", !.task = t,
                                !.request = r, !.seen = tasks[t]]
  <2>2. q \in WorkerRow BY <1>0 DEF WorkerRow
  <2>3. q.pc = "check" /\ Begin(w, q) BY <1>0, <2>1 DEF WorkerRow
  <2>. HIDE DEF q
  <2>. QED BY <1>1, <2>2, <2>3
<1>3. CASE BeginReopen(w)
  <2>1. PICK t \in Tasks :
           Begin(w, [Idle EXCEPT !.pc = "execute", !.mode = "reopen", !.task = t,
                                 !.seen = tasks[t]])
    BY <1>3 DEF BeginReopen
  <2>. DEFINE q == [Idle EXCEPT !.pc = "execute", !.mode = "reopen", !.task = t,
                                !.seen = tasks[t]]
  <2>2. q \in WorkerRow BY <1>0 DEF WorkerRow
  <2>3. q.pc = "execute" /\ Begin(w, q) BY <1>0, <2>1 DEF WorkerRow
  <2>. HIDE DEF q
  <2>. QED BY <1>1, <2>2, <2>3
<1>4. CASE BeginWaive(w)
  <2>1. PICK t \in Tasks, x \in Reasons :
           Begin(w, [Idle EXCEPT !.pc = "reason", !.mode = "waive", !.task = t,
                                 !.reason = x, !.seen = tasks[t]])
    BY <1>4 DEF BeginWaive
  <2>. DEFINE q == [Idle EXCEPT !.pc = "reason", !.mode = "waive", !.task = t,
                                !.reason = x, !.seen = tasks[t]]
  <2>2. q \in WorkerRow BY <1>0 DEF WorkerRow
  <2>3. q.pc = "reason" /\ Begin(w, q) BY <1>0, <2>1 DEF WorkerRow
  <2>. HIDE DEF q
  <2>. QED BY <1>1, <2>2, <2>3
<1>5. CASE BeginReview(w)
  <2>1. PICK t \in Tasks, mode \in {"approve", "changes"} :
          \E n \in 1..Len(evidence[t]) :
           Begin(w, [Idle EXCEPT !.pc = "review", !.mode = mode, !.task = t,
                                 !.number = n, !.seen = tasks[t]])
    BY <1>5 DEF BeginReview
  <2>2. PICK n \in 1..Len(evidence[t]) :
           Begin(w, [Idle EXCEPT !.pc = "review", !.mode = mode, !.task = t,
                                 !.number = n, !.seen = tasks[t]])
    BY <2>1
  <2>. DEFINE q == [Idle EXCEPT !.pc = "review", !.mode = mode, !.task = t,
                                !.number = n, !.seen = tasks[t]]
  <2>3. n \in Nat BY <1>0
  <2>4. q \in WorkerRow BY <1>0, <2>3 DEF WorkerRow
  <2>5. q.pc = "review" /\ q.task = t /\ q.seen = tasks[t] BY <1>0 DEF WorkerRow
  <2>6. Become(w, q) /\ UNCHANGED rows BY <2>2 DEF Begin
  <2>. HIDE DEF q
  <2>. QED BY <2>4, <2>5, <2>6, QuietKeeps DEF rows
<1>. QED BY <1>2, <1>3, <1>4, <1>5 DEF BeginAny

\* Steps that leave the status, the evidence and the receipts alone.
LEMMA GotoKeeps ==
    ASSUME TypeInv, TypeInv', EvidenceInv, NEW w \in Workers, NEW pc, Goto(w, pc),
           pc \in {"record", "replay", "execute", "answer"},
           UNCHANGED <<tasks, evidence, receipts>>,
           pc = "replay" => CompleteKey(w) \in receipts
    PROVE  EvidenceInv'
<1>. DEFINE q == [workers[w] EXCEPT !.pc = pc]
<1>1. workers[w] \in WorkerRow BY DEF TypeInv, TypeOK
<1>2. q \in WorkerRow BY <1>1 DEF WorkerRow
<1>3. q.pc = pc /\ q.task = workers[w].task /\ q.request = workers[w].request
  BY <1>1 DEF WorkerRow
<1>4. Become(w, q) BY DEF Goto
<1>. HIDE DEF q
<1>. QED BY <1>2, <1>3, <1>4, QuietKeeps DEF CompleteKey, Task

LEMMA CommitKeeps ==
    ASSUME TypeInv, TypeInv', EvidenceInv, NEW w \in Workers, CommitComplete(w)
    PROVE  EvidenceInv'
<1>1. workers[w].pc = "commit" BY DEF CommitComplete
<1>2. CASE Fail(w) BY <1>2, IdleKeeps DEF Fail
<1>3. CASE ~Fail(w)
  <2>1. /\ evidence' = [evidence EXCEPT ![Task(w)] = Append(@, NewEvidence(w))]
        /\ Complete(w) /\ UNCHANGED reason
    BY <1>3 DEF CommitComplete
  <2>2. /\ Task(w) \in Tasks /\ CompleteKey(w) \in Keys
        /\ workers[w] \in WorkerRow
    BY <1>1, Working
  <2>3. /\ EvidenceGrows
        /\ evidence'[Task(w)] = Append(evidence[Task(w)], NewEvidence(w))
        /\ NewEvidence(w) \in EvidenceRow
        /\ \A t \in Tasks \ {Task(w)} : evidence'[t] = evidence[t]
    BY <2>1, <2>2, AppendGrows
  <2>4. /\ NewEvidence(w).request = workers[w].request
        /\ NewEvidence(w).review # "changes_requested"
    BY DEF NewEvidence
  <2>. DEFINE s == evidence[Task(w)]  x == NewEvidence(w)
  <2>5. /\ s \in Seq(EvidenceRow) /\ Len(s) \in Nat
        /\ \A t \in Tasks : Len(evidence[t]) \in Nat
    BY <2>2 DEF TypeInv, TypeOK
  <2>. HIDE DEF x, NewEvidence
  <2>6. /\ Len(evidence'[Task(w)]) = Len(s) + 1
        /\ evidence'[Task(w)][Len(s) + 1] = x
        /\ \A n \in 1..Len(s) : evidence'[Task(w)][n] = s[n]
    BY <2>3, <2>5 DEF x
  <2>. HIDE DEF s
  \* Whatever Complete does, only the status of this task and its key change.
  <2>7. /\ Alone(w) /\ workers'[w].pc \in {"answer", "dispatch"}
        /\ receipts \subseteq receipts'
        /\ receipts' \subseteq receipts \cup {CompleteKey(w)}
        /\ \A t \in Tasks \ {Task(w)} : tasks'[t] = tasks[t]
    <3>1. CASE workers[w].seen.status # "complete"
      <4>1. Execute(w, CompleteKey(w), "complete") BY <2>1, <3>1 DEF Complete
      <4>. QED BY <4>1, <2>2, ExecuteEffects DEF Statuses
    <3>2. CASE workers[w].seen.status = "complete"
      <4>1. /\ receipts' = receipts \cup {CompleteKey(w)} /\ Goto(w, "answer")
            /\ UNCHANGED tasks
        BY <2>1, <3>2 DEF Complete
      <4>2. Alone(w) /\ workers'[w] = [workers[w] EXCEPT !.pc = "answer"]
        BY <4>1, GotoAlone DEF TypeInv
      <4>3. workers'[w].pc = "answer" BY <4>2, <2>2 DEF WorkerRow
      <4>. QED BY <4>1, <4>2, <4>3
    <3>. QED BY <3>1, <3>2
  <2>8. \E n \in 1..Len(evidence'[Task(w)]) :
           evidence'[Task(w)][n].request = workers[w].request
    <3>1. /\ Len(s) + 1 \in 1..Len(evidence'[Task(w)])
          /\ evidence'[Task(w)][Len(s) + 1].request = workers[w].request
      BY <2>4, <2>5, <2>6 DEF x
    <3>. QED BY <3>1
  <2>9. Backed
    <3>1. \A t \in Tasks : Len(evidence'[t]) >= Len(evidence[t])
      BY <2>3 DEF EvidenceGrows
    <3>2. \A t \in Tasks : \A n \in 1..Len(evidence[t]) :
             evidence'[t][n].request = evidence[t][n].request
      BY <2>3, <2>6 DEF s
    <3>3. \A t \in Tasks : tasks'[t].status = "complete" =>
             tasks[t].status = "complete" \/ Len(evidence'[t]) > Len(evidence[t])
      BY <2>5, <2>6, <2>7 DEF s
    <3>4. \A t \in Tasks, r \in Requests : <<"complete", t, r>> \in receipts' =>
             <<"complete", t, r>> \in receipts \/ Submitted(t, r)'
      <4>. SUFFICES ASSUME NEW t \in Tasks, NEW r \in Requests,
                           <<"complete", t, r>> = CompleteKey(w)
                    PROVE  Submitted(t, r)'
        BY <2>7
      <4>1. t = Task(w) /\ r = workers[w].request BY DEF CompleteKey
      <4>. QED BY <4>1, <2>8 DEF Submitted
    <3>5. \A t \in Tasks, n \in Nat : <<"changes", t, n>> # CompleteKey(w)
      BY DEF CompleteKey
    <3>. QED BY <3>1, <3>2, <3>3, <3>4, <3>5, <2>7 DEF Backed
  <2>10. RejectedIsOpen'
    <3>. SUFFICES ASSUME NEW t \in Tasks, evidence'[t] # << >>,
                         evidence'[t][Len(evidence'[t])].review = "changes_requested"
                  PROVE  tasks'[t].status # "complete"
      BY DEF RejectedIsOpen
    <3>1. CASE t = Task(w) BY <3>1, <2>4, <2>6 DEF x
    <3>2. CASE t # Task(w) BY <3>2, <2>3, <2>7 DEF EvidenceInv, RejectedIsOpen
    <3>. QED BY <3>1, <3>2
  <2>. QED BY <2>7, <2>9, <2>10, LeavingKeeps
<1>. QED BY <1>2, <1>3

LEMMA ReplayKeeps ==
    ASSUME TypeInv, TypeInv', EvidenceInv, NEW w \in Workers, ReplayComplete(w)
    PROVE  EvidenceInv'
<1>1. /\ workers[w].pc = "replay" /\ Complete(w) /\ UNCHANGED evidence
  BY DEF ReplayComplete
<1>2. CompleteKey(w) \in receipts BY <1>1 DEF EvidenceInv, KnownReplay
<1>3. Goto(w, "answer") /\ UNCHANGED <<tasks, receipts>>
  BY <1>1, <1>2 DEF Complete, Execute
<1>. QED BY <1>1, <1>3, GotoKeeps

LEMMA AdminKeeps ==
    ASSUME TypeInv, TypeInv', EvidenceInv, NEW w \in Workers, ExecuteAdmin(w)
    PROVE  EvidenceInv'
<1>1. workers[w].pc = "execute" BY DEF ExecuteAdmin
<1>2. /\ Task(w) \in Tasks /\ AdminKey(w) \in Keys /\ Target(w) \in Statuses
      /\ workers[w].mode \in {"reopen", "waive"}
  BY <1>1, Working DEF Fits, Target, Statuses
<1>3. CASE Fail(w) BY <1>3, IdleKeeps DEF Fail
<1>4. CASE ~Fail(w)
  <2>1. Execute(w, AdminKey(w), Target(w)) /\ UNCHANGED evidence
    BY <1>4 DEF ExecuteAdmin
  <2>2. /\ Alone(w) /\ workers'[w].pc \in {"answer", "dispatch"}
        /\ receipts \subseteq receipts' /\ receipts' \subseteq receipts \cup {AdminKey(w)}
        /\ \A t \in Tasks : tasks'[t] = tasks[t] \/ tasks'[t].status = Target(w)
    BY <2>1, <1>2, ExecuteEffects
  <2>3. Target(w) # "complete" BY DEF Target
  <2>4. \A t \in Tasks : tasks'[t].status = "complete" => tasks[t].status = "complete"
    BY <2>2, <2>3
  <2>5. /\ \A t \in Tasks, r \in Requests : <<"complete", t, r>> # AdminKey(w)
        /\ \A t \in Tasks, n \in Nat : <<"changes", t, n>> # AdminKey(w)
    BY <1>2 DEF AdminKey
  <2>6. \A t \in Tasks : Len(evidence[t]) \in Nat BY DEF TypeInv, TypeOK
  <2>7. Backed BY <2>1, <2>2, <2>4, <2>5, <2>6 DEF Backed
  <2>8. RejectedIsOpen' BY <2>1, <2>4 DEF EvidenceInv, RejectedIsOpen
  <2>. QED BY <2>2, <2>7, <2>8, LeavingKeeps
<1>. QED BY <1>3, <1>4

LEMMA ReviewKeeps ==
    ASSUME TypeInv, TypeInv', EvidenceInv, NEW w \in Workers, CommitReview(w)
    PROVE  EvidenceInv'
<1>1. workers[w].pc = "review" BY DEF CommitReview
<1>2. /\ Task(w) \in Tasks /\ ChangesKey(w) \in Keys
      /\ workers[w] \in WorkerRow
      /\ workers[w].number \in 1..Len(evidence[Task(w)])
  BY <1>1, Working DEF Fits
<1>3. CASE Fail(w) BY <1>3, IdleKeeps DEF Fail
<1>4. CASE ~Fail(w)
  <2>1. evidence' = Reviewed(w) BY <1>4 DEF CommitReview
  <2>2. /\ EvidenceGrows
        /\ \A t \in Tasks : Len(evidence'[t]) = Len(evidence[t])
        /\ \A t \in Tasks \ {Task(w)} : evidence'[t] = evidence[t]
        /\ \A n \in 1..Len(evidence[Task(w)]) :
              /\ evidence'[Task(w)][n].request = evidence[Task(w)][n].request
              /\ n # workers[w].number => evidence'[Task(w)][n] = evidence[Task(w)][n]
              /\ n = workers[w].number /\ workers[w].mode = "approve" =>
                    evidence'[Task(w)][n].review = "approved"
    BY <2>1, <1>2, ReviewGrows
  <2>3. \A t \in Tasks : /\ evidence[t] \in Seq(EvidenceRow)
                         /\ evidence'[t] \in Seq(EvidenceRow)
                         /\ Len(evidence[t]) \in Nat
    BY DEF TypeInv, TypeOK
  \* The status never becomes COMPLETE; the key is new only with a reopening.
  <2>4. /\ Alone(w) /\ workers'[w].pc \in {"answer", "dispatch"}
        /\ receipts \subseteq receipts'
        /\ receipts' \subseteq receipts \cup {ChangesKey(w)}
        /\ \A t \in Tasks : tasks'[t].status = "complete" => tasks[t] = tasks'[t]
        /\ ChangesKey(w) \in receipts' \ receipts => tasks'[Task(w)].status # "complete"
        /\ Reopens(w) /\ ChangesKey(w) \notin receipts =>
              tasks'[Task(w)].status # "complete"
    <3>1. CASE Reopens(w)
      <4>1. Execute(w, ChangesKey(w), "reopened") BY <1>4, <3>1 DEF CommitReview
      <4>. QED BY <4>1, <1>2, ExecuteEffects DEF Statuses
    <3>2. CASE ~Reopens(w)
      <4>1. Goto(w, "answer") /\ UNCHANGED <<tasks, receipts>>
        BY <1>4, <3>2 DEF CommitReview
      <4>2. Alone(w) /\ workers'[w] = [workers[w] EXCEPT !.pc = "answer"]
        BY <4>1, GotoAlone DEF TypeInv
      <4>3. workers'[w].pc = "answer" BY <4>2, <1>2 DEF WorkerRow
      <4>. QED BY <3>2, <4>1, <4>2, <4>3
    <3>. QED BY <3>1, <3>2
  <2>5. \A t \in Tasks, r \in Requests : <<"complete", t, r>> # ChangesKey(w)
    BY DEF ChangesKey
  <2>6. ASSUME NEW t \in Tasks, NEW n \in Nat, <<"changes", t, n>> = ChangesKey(w)
        PROVE  t = Task(w) /\ n = workers[w].number
    BY <2>6 DEF ChangesKey
  <2>7. Backed
    <3>1. \A t \in Tasks : \A n \in 1..Len(evidence[t]) :
             evidence'[t][n].request = evidence[t][n].request
      BY <2>2
    <3>2. \A t \in Tasks, n \in Nat : <<"changes", t, n>> \in receipts' =>
             \/ <<"changes", t, n>> \in receipts
             \/ n \in 1..Len(evidence'[t]) /\ tasks'[t].status # "complete"
      BY <2>2, <2>4, <2>6, <1>2
    <3>. QED BY <3>1, <3>2, <2>2, <2>4, <2>5 DEF Backed, EvidenceGrows
  <2>8. RejectedIsOpen'
    <3>. SUFFICES ASSUME NEW t \in Tasks, evidence'[t] # << >>,
                         evidence'[t][Len(evidence'[t])].review = "changes_requested",
                         tasks'[t].status = "complete"
                  PROVE  FALSE
      BY DEF RejectedIsOpen
    <3>. DEFINE k == Len(evidence[t])
    <3>1. tasks[t].status = "complete" /\ k \in Nat /\ Len(evidence'[t]) = k
      BY <2>2, <2>3, <2>4
    <3>2. k # 0 /\ evidence[t] # << >> /\ k \in 1..k
      BY <2>3, <3>1
    <3>3. evidence[t][k].review # "changes_requested"
      BY <3>1, <3>2 DEF EvidenceInv, RejectedIsOpen
    <3>4. t = Task(w) /\ k = workers[w].number /\ workers[w].mode # "approve"
      BY <2>2, <3>1, <3>2, <3>3
    <3>5. workers[w].mode = "changes"
      BY <3>4, <1>1, Working DEF Fits
    <3>6. CASE workers[w].seen.status # "complete"
      <4>1. workers[w].number < k
        BY <1>1, <3>1, <3>4, <3>5, <3>6 DEF EvidenceInv, StaleReview
      <4>. QED BY <4>1, <3>1, <3>4
    <3>7. CASE workers[w].seen.status = "complete"
      <4>1. Reopens(w) BY <3>5, <3>7 DEF Reopens
      <4>2. ChangesKey(w) \in receipts BY <4>1, <2>4, <3>4
      <4>3. k < Len(evidence[t])
        BY <4>2, <3>1, <3>4 DEF ChangesKey, EvidenceInv, ChangesAreOld
      <4>. QED BY <4>3, <3>1
    <3>. QED BY <3>6, <3>7
  <2>. QED BY <2>4, <2>7, <2>8, LeavingKeeps
<1>. QED BY <1>3, <1>4

LEMMA EvidenceStep ==
    ASSUME TypeInv, TypeInv', EvidenceInv, NEW w \in Workers,
           BeginAny(w) \/ Step(w) \/ Crash(w)
    PROVE  EvidenceInv'
<1>a. CASE BeginAny(w) BY <1>a, BeginKeeps
<1>b. CASE Crash(w) \/ Answer(w) BY <1>b, IdleKeeps DEF Crash, Answer
<1>c. CASE Check(w)
  <2>1. /\ Goto(w, IF CompleteKey(w) \in receipts THEN "replay" ELSE "record")
        /\ UNCHANGED rows
    BY <1>c DEF Check
  <2>. QED BY <2>1, GotoKeeps DEF rows
<1>d. CASE Record(w)
  <2>. DEFINE n == Len(evidence[Task(w)]) + 1
              q == [workers[w] EXCEPT !.pc = "commit", !.number = n]
  <2>1. Become(w, q) /\ UNCHANGED rows /\ workers[w].pc # "idle" BY <1>d DEF Record
  <2>2. workers[w] \in WorkerRow /\ n \in Nat BY <2>1, Working
  <2>. HIDE DEF n
  <2>3. q \in WorkerRow /\ q.pc = "commit" BY <2>2 DEF WorkerRow
  <2>. HIDE DEF q
  <2>. QED BY <2>1, <2>3, QuietKeeps DEF rows
<1>e. CASE CommitComplete(w) BY <1>e, CommitKeeps
<1>f. CASE ReplayComplete(w) BY <1>f, ReplayKeeps
<1>g. CASE SaveReason(w) BY <1>g, GotoKeeps DEF SaveReason
<1>h. CASE ExecuteAdmin(w) BY <1>h, AdminKeeps
<1>i. CASE CommitReview(w) BY <1>i, ReviewKeeps
<1>j. CASE Dispatch(w) BY <1>j, GotoKeeps DEF Dispatch
<1>. QED BY <1>a, <1>b, <1>c, <1>d, <1>e, <1>f, <1>g, <1>h, <1>i, <1>j DEF Step

LEMMA EvidenceInvariant == Spec => []EvidenceInv
<1>1. Init => EvidenceInv
  <2>. SUFFICES ASSUME Init PROVE EvidenceInv
    OBVIOUS
  <2>1. RejectedIsOpen /\ EvidenceIsKept /\ ChangesAreOld
    BY DEF Init, RejectedIsOpen, EvidenceIsKept, ChangesAreOld
  <2>2. \A w \in Workers : StaleReview(w) /\ KnownReplay(w)
    BY IdleRow DEF Init, StaleReview, KnownReplay
  <2>. QED BY <2>1, <2>2 DEF EvidenceInv
<1>2. TypeInv /\ TypeInv' /\ EvidenceInv /\ [Next]_vars => EvidenceInv'
  <2>. SUFFICES ASSUME TypeInv, TypeInv', EvidenceInv, [Next]_vars PROVE EvidenceInv'
    OBVIOUS
  <2>1. CASE Next BY <2>1, EvidenceStep DEF Next
  <2>2. CASE UNCHANGED vars
    <3>1. RejectedIsOpen' /\ EvidenceIsKept' /\ ChangesAreOld'
      BY <2>2 DEF EvidenceInv, RejectedIsOpen, EvidenceIsKept, ChangesAreOld,
                  Submitted, vars, rows
    <3>2. \A w \in Workers : StaleReview(w)' /\ KnownReplay(w)'
      BY <2>2 DEF EvidenceInv, StaleReview, KnownReplay, CompleteKey, Task, vars, rows
    <3>. QED BY <3>1, <3>2 DEF EvidenceInv
  <2>. QED BY <2>1, <2>2
<1>. QED BY <1>1, <1>2, TypeInvariant, PTL DEF Spec

\* A file the organiser sent back is never the latest of a COMPLETE task.
THEOREM RejectedWorkIsOpen == Spec => []RejectedIsOpen
<1>1. EvidenceInv => RejectedIsOpen BY DEF EvidenceInv
<1>. QED BY <1>1, EvidenceInvariant, PTL

\* A submission that has a receipt has its evidence, and a COMPLETE task some.
THEOREM EvidenceOfWork == Spec => []EvidenceIsKept
<1>1. EvidenceInv => EvidenceIsKept BY DEF EvidenceInv
<1>. QED BY <1>1, EvidenceInvariant, PTL
=============================================================================
