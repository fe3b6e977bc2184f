--------------------------- MODULE ProgramProofs ---------------------------
(***************************************************************************)
(* Proofs about Program, for any proposals, waves, speakers, workers and   *)
(* bounds: its typing, that a proposal hears one outcome, that what a      *)
(* release answers is what it did, and that plans follow acceptances.      *)
(***************************************************************************)
EXTENDS Program, TLAPS

\* A release is a request and says what it applies.
Opened(w) == work[w].pc = "apply" =>
    work[w].status \in {"accept", "reject"} /\ work[w].n # 0

TypeInv == TypeOK /\ \A w \in Workers : Opened(w)

\* A batch is held: its rows wait to be applied, no other release has them,
\* and the native calls made so far are about them.
Held ==
    \A w \in Workers : work[w].pc = "apply" =>
        /\ work[w].todo \cup work[w].calls \subseteq work[w].batch
        /\ \A p \in work[w].batch : decision[p].by = 0
        /\ \A v \in Workers \ {w} :
              work[v].pc = "apply" => work[v].batch \cap work[w].batch = {}

\* An outcome was applied, and one proposal has one.
Settled ==
    /\ \A o \in outcomes : decision[o[1]].by # 0
    /\ OneOutcome

\* Numbers of requests: those in use are given, and each to one worker.
Numbered ==
    /\ \A w \in Workers : work[w].n <= begun
    /\ \A v, w \in Workers : v # w /\ work[v].n # 0 => work[v].n # work[w].n
    /\ \A o \in outcomes : o[3] <= begun
    /\ \A p \in Proposals : decision[p].by <= begun

\* What request n did: told proposals of an outcome, and set applied_at.
ToldBy(n)    == { o[1] : o \in { x \in outcomes : x[3] = n } }
AppliedBy(n) == { p \in Proposals : decision[p].by = n }

\* An open release has done nothing yet, and an answer is what was done.
Truthful(w) ==
    /\ work[w].pc = "apply" => /\ ToldBy(work[w].n) = {}
                               /\ AppliedBy(work[w].n) = {}
                               /\ ~work[w].failed
    /\ work[w].pc \in {"plan", "answered"} =>
          /\ ToldBy(work[w].n) = IF work[w].failed THEN {} ELSE work[w].calls
          /\ work[w].failed => work[w].n # 0 /\ AppliedBy(work[w].n) = {}
    /\ work[w].pc = "plan" => ~work[w].failed

\* Plans, made and owed, are of accepted proposals.
Earned ==
    /\ PlansAreEarned
    /\ \A w \in Workers : \A pair \in work[w].owed : pair[1] \in accepted

-----------------------------------------------------------------------------
\* What a step of w leaves to the other workers.
Alone(w) == \A v \in Workers \ {w} : work'[v] = work[v]

LEMMA IdleRow == Idle \in WorkRow
BY LimitsAssumption DEF Idle, WorkRow, Requests

LEMMA BecomeAlone ==
    ASSUME TypeOK, NEW w \in Workers, NEW q \in WorkRow, Become(w, q)
    PROVE  work' \in [Workers -> WorkRow] /\ Alone(w) /\ work'[w] = q
BY DEF TypeOK, Become, Alone

\* A request that begins has the next number.
LEMMA BeginAlone ==
    ASSUME TypeOK, NEW w \in Workers, NEW q \in WorkRow, Begin(w, q)
    PROVE  /\ work' \in [Workers -> WorkRow] /\ Alone(w)
           /\ work'[w].n = begun + 1 /\ work'[w].pc = q.pc
           /\ work'[w].status = q.status
           /\ work'[w].batch = q.batch /\ work'[w].todo = q.todo
           /\ work'[w].calls = q.calls /\ work'[w].owed = q.owed
           /\ work'[w].failed = q.failed
           /\ begun' = begun + 1 /\ begun + 1 \in 1..MaxRequests
           /\ UNCHANGED <<rows, eligible, edits, crashes>>
<1>1. begun \in Nat /\ begun < MaxRequests /\ begun' = begun + 1
  BY LimitsAssumption DEF TypeOK, Begin, Requests
<1>2. begun + 1 \in 1..MaxRequests /\ begun + 1 \in Requests
  BY <1>1, LimitsAssumption DEF Requests
<1>. DEFINE r == [q EXCEPT !.n = begun + 1]
<1>3. r \in WorkRow BY <1>2 DEF WorkRow
<1>f. /\ r.n = begun + 1 /\ r.pc = q.pc /\ r.status = q.status /\ r.batch = q.batch
      /\ r.todo = q.todo /\ r.calls = q.calls /\ r.owed = q.owed /\ r.failed = q.failed
  BY DEF WorkRow
<1>4. Become(w, r) /\ UNCHANGED <<rows, eligible, edits, crashes>> BY DEF Begin
<1>. HIDE DEF r
<1>5. work' \in [Workers -> WorkRow] /\ Alone(w) /\ work'[w] = r
  BY <1>3, <1>4, BecomeAlone
<1>. QED BY <1>1, <1>2, <1>4, <1>5, <1>f

LEMMA AnsweredRow ==
    ASSUME TypeOK, NEW w \in Workers, NEW failed \in BOOLEAN
    PROVE  /\ Answered(w, failed) \in WorkRow
           /\ Answered(w, failed) = [Idle EXCEPT !.pc = "answered", !.n = work[w].n,
                                       !.calls = work[w].calls, !.failed = failed]
<1>1. work[w].n \in Requests /\ work[w].calls \in SUBSET Proposals
  BY DEF TypeOK, WorkRow
<1>. QED BY <1>1, IdleRow DEF Answered, WorkRow

LEMMA PlansOwed ==
    ASSUME NEW ps \in SUBSET Proposals, NEW to
    PROVE  /\ Plans(ps, to) \subseteq Pairs
           /\ to # "accepted" => Plans(ps, to) = {}
           /\ \A pair \in Plans(ps, to) : pair[1] \in ps
<1>1. \A p \in Proposals : {p} \X Speakers[p] \subseteq Pairs BY DEF Pairs
<1>2. CASE to = "accepted"
  <2>1. Plans(ps, to) = UNION { {p} \X Speakers[p] : p \in ps } BY <1>2 DEF Plans
  <2>. QED BY <1>1, <1>2, <2>1
<1>3. CASE to # "accepted" BY <1>3 DEF Plans
<1>. QED BY <1>2, <1>3

-----------------------------------------------------------------------------
(* What each step does to the row of its worker.                           *)

LEMMA StageStep ==
    ASSUME TypeOK, NEW w \in Workers, Stage(w)
    PROVE  /\ work' \in [Workers -> WorkRow] /\ Alone(w) /\ work'[w] = Idle
           /\ decision' \in [Proposals -> DecisionRow]
           /\ \A p \in Proposals : decision'[p].by = decision[p].by
<1>1. work' \in [Workers -> WorkRow] /\ Alone(w) /\ work'[w] = Idle
  BY IdleRow, BecomeAlone DEF Stage
<1>2. /\ work[w].status \in Statuses \cup {"none"} /\ work[w].wave \in Waves \cup {NoWave}
  BY DEF TypeOK, WorkRow
<1>3. \A p \in Proposals :
        [decision[p] EXCEPT !.status = work[w].status, !.wave = work[w].wave] \in DecisionRow
  BY <1>2 DEF TypeOK, DecisionRow
<1>4. \A p \in Proposals :
        [decision[p] EXCEPT !.status = work[w].status, !.wave = work[w].wave].by
           = decision[p].by
  BY DEF TypeOK, DecisionRow
<1>5. decision' = [decision EXCEPT ![work[w].proposal] =
                     [@ EXCEPT !.status = work[w].status, !.wave = work[w].wave]]
  BY DEF Stage
<1>6. \A p \in Proposals :
        \/ decision'[p] = decision[p]
        \/ decision'[p] = [decision[p] EXCEPT !.status = work[w].status, !.wave = work[w].wave]
  BY <1>5 DEF TypeOK
<1>7. decision' \in [Proposals -> DecisionRow] BY <1>3, <1>5 DEF TypeOK
<1>8. \A p \in Proposals : decision'[p].by = decision[p].by BY <1>4, <1>6
<1>. QED BY <1>1, <1>7, <1>8

LEMMA BatchStep ==
    ASSUME TypeOK, NEW w \in Workers, NEW status \in {"accept", "reject"},
           NEW wave \in Waves \cup {NoWave}, BeginBatch(w, status, wave)
    PROVE  /\ work' \in [Workers -> WorkRow] /\ Alone(w)
           /\ work'[w].pc = "apply" /\ work'[w].status = status
           /\ work'[w].batch = Due(status, wave) /\ work'[w].calls = {}
           /\ work'[w].todo = Due(status, wave)
           /\ work'[w].owed = {} /\ work'[w].failed = FALSE
           /\ work'[w].n = begun + 1
           /\ begun' = begun + 1 /\ begun + 1 \in 1..MaxRequests
           /\ \A p \in Due(status, wave) : ~Locked(p)
           /\ UNCHANGED <<rows, eligible, edits, crashes>>
<1>. DEFINE due == Due(status, wave)
            q == [Idle EXCEPT !.pc = "apply", !.status = status, !.wave = wave,
                              !.batch = due, !.todo = due]
<1>1. due \in SUBSET Proposals BY DEF Due
<1>2. Begin(w, q) /\ \A p \in due : ~Locked(p) BY DEF BeginBatch
<1>. HIDE DEF due
<1>3. q \in WorkRow BY <1>1, IdleRow DEF WorkRow, Statuses
<1>4. /\ q.pc = "apply" /\ q.status = status /\ q.batch = due /\ q.calls = {}
      /\ q.todo = due /\ q.owed = {} /\ q.failed = FALSE
  BY DEF Idle
<1>. HIDE DEF q
<1>. QED BY <1>2, <1>3, <1>4, BeginAlone DEF due

LEMMA BeginStageStep ==
    ASSUME TypeOK, NEW w \in Workers, BeginStage(w)
    PROVE  /\ work' \in [Workers -> WorkRow] /\ Alone(w)
           /\ work'[w].pc = "stage" /\ work'[w].n = begun + 1 /\ work'[w].owed = {}
           /\ begun' = begun + 1 /\ begun + 1 \in 1..MaxRequests
           /\ UNCHANGED <<rows, eligible, edits, crashes>>
<1>1. PICK p \in Proposals, status \in Statuses, wave \in Waves \cup {NoWave} :
        Begin(w, [Idle EXCEPT !.pc = "stage", !.proposal = p,
                              !.status = status, !.wave = wave])
  BY DEF BeginStage
<1>. DEFINE q == [Idle EXCEPT !.pc = "stage", !.proposal = p,
                              !.status = status, !.wave = wave]
<1>2. q \in WorkRow BY IdleRow DEF WorkRow
<1>3. q.pc = "stage" /\ q.owed = {} BY DEF Idle
<1>. HIDE DEF q
<1>4. Begin(w, q) BY <1>1 DEF q
<1>. QED BY <1>2, <1>3, <1>4, BeginAlone

LEMMA ApplyStep ==
    ASSUME TypeOK, NEW w \in Workers, Apply(w)
    PROVE  /\ work' \in [Workers -> WorkRow] /\ Alone(w)
           /\ \E p \in work[w].todo :
                /\ work'[w].calls \in {work[w].calls, work[w].calls \cup {p}}
                /\ work'[w].todo = work[w].todo \ {p}
           /\ work[w].pc = "apply" /\ work'[w].pc = "apply"
           /\ work'[w].status = work[w].status /\ work'[w].n = work[w].n
           /\ work'[w].batch = work[w].batch /\ work'[w].owed = work[w].owed
           /\ work'[w].failed = work[w].failed
           /\ UNCHANGED <<rows, eligible, begun, edits, crashes>>
<1>1. PICK p \in work[w].todo :
        /\ work[w].pc = "apply"
        /\ Become(w, [work[w] EXCEPT
             !.todo = @ \ {p},
             !.calls = IF state[p] = Wanted(work[w].status) THEN @ ELSE @ \cup {p}])
        /\ UNCHANGED <<rows, eligible, begun, edits, crashes>>
  BY DEF Apply
<1>. DEFINE c == IF state[p] = Wanted(work[w].status) THEN work[w].calls
                 ELSE work[w].calls \cup {p}
            q == [work[w] EXCEPT !.todo = @ \ {p}, !.calls = c]
<1>2. work[w] \in WorkRow BY DEF TypeOK
<1>3. /\ work[w].todo \in SUBSET Proposals /\ work[w].calls \in SUBSET Proposals
  BY <1>2 DEF WorkRow
<1>4. c \in SUBSET Proposals /\ c \in {work[w].calls, work[w].calls \cup {p}}
  BY <1>3
<1>5. Become(w, q) BY <1>1
<1>. HIDE DEF c
<1>6. q \in WorkRow BY <1>2, <1>3, <1>4 DEF WorkRow
<1>7. /\ q.calls = c /\ q.todo = work[w].todo \ {p} /\ q.pc = work[w].pc
      /\ q.status = work[w].status /\ q.n = work[w].n /\ q.batch = work[w].batch
      /\ q.owed = work[w].owed /\ q.failed = work[w].failed
  BY <1>2 DEF WorkRow
<1>. HIDE DEF q
<1>8. work' \in [Workers -> WorkRow] /\ Alone(w) /\ work'[w] = q
  BY <1>5, <1>6, BecomeAlone
<1>. QED BY <1>1, <1>4, <1>7, <1>8

\* The row of an answered request.
LEMMA AnsweredStep ==
    ASSUME TypeOK, NEW w \in Workers, NEW failed \in BOOLEAN,
           Become(w, Answered(w, failed))
    PROVE  /\ work' \in [Workers -> WorkRow] /\ Alone(w)
           /\ work'[w].pc = "answered" /\ work'[w].n = work[w].n
           /\ work'[w].calls = work[w].calls /\ work'[w].failed = failed
           /\ work'[w].owed = {}
<1>1. /\ Answered(w, failed) \in WorkRow
      /\ Answered(w, failed) = [Idle EXCEPT !.pc = "answered", !.n = work[w].n,
                                  !.calls = work[w].calls, !.failed = failed]
  BY AnsweredRow
<1>2. work' \in [Workers -> WorkRow] /\ Alone(w) /\ work'[w] = Answered(w, failed)
  BY <1>1, BecomeAlone
<1>. QED BY <1>1, <1>2 DEF Idle

LEMMA CommitStep ==
    ASSUME TypeOK, NEW w \in Workers, Commit(w)
    PROVE  /\ work' \in [Workers -> WorkRow] /\ Alone(w)
           /\ work[w].pc = "apply" /\ work'[w].pc = "plan"
           /\ work'[w].n = work[w].n /\ work'[w].calls = work[w].calls
           /\ work'[w].failed = FALSE
           /\ work'[w].owed = Plans(work[w].calls, Wanted(work[w].status))
<1>. DEFINE plans == Plans(work[w].calls, Wanted(work[w].status))
            q == [Answered(w, FALSE) EXCEPT !.pc = "plan", !.owed = plans]
<1>1. work[w].pc = "apply" /\ Become(w, q) BY DEF Commit
<1>2. work[w].calls \in SUBSET Proposals BY DEF TypeOK, WorkRow
<1>3. plans \in SUBSET Pairs BY <1>2, PlansOwed
<1>. HIDE DEF plans
<1>4. /\ Answered(w, FALSE) \in WorkRow
      /\ Answered(w, FALSE) = [Idle EXCEPT !.pc = "answered", !.n = work[w].n,
                                 !.calls = work[w].calls, !.failed = FALSE]
  BY AnsweredRow
<1>5. q \in WorkRow BY <1>3, <1>4 DEF WorkRow
<1>6. /\ q.pc = "plan" /\ q.n = work[w].n /\ q.calls = work[w].calls
      /\ q.failed = FALSE /\ q.owed = plans
  BY <1>4 DEF Idle
<1>. HIDE DEF q
<1>7. work' \in [Workers -> WorkRow] /\ Alone(w) /\ work'[w] = q
  BY <1>1, <1>5, BecomeAlone
<1>. QED BY <1>1, <1>6, <1>7 DEF plans

LEMMA CreateTasksStep ==
    ASSUME TypeOK, NEW w \in Workers, CreateTasks(w)
    PROVE  /\ work' \in [Workers -> WorkRow] /\ Alone(w)
           /\ \E pair \in work[w].owed : /\ tasks' = tasks \cup {pair}
                                         /\ work'[w].owed = work[w].owed \ {pair}
           /\ work[w].pc = "plan" /\ work'[w].pc = "plan"
           /\ work'[w].n = work[w].n /\ work'[w].calls = work[w].calls
           /\ work'[w].failed = work[w].failed
           /\ work[w].owed \subseteq Pairs
           /\ UNCHANGED <<state, decision, accepted, outcomes, eligible, begun, edits, crashes>>
<1>1. PICK pair \in work[w].owed :
        /\ work[w].pc = "plan" /\ tasks' = tasks \cup {pair}
        /\ Become(w, [work[w] EXCEPT !.owed = @ \ {pair}])
        /\ UNCHANGED <<state, decision, accepted, outcomes, eligible, begun, edits, crashes>>
  BY DEF CreateTasks
<1>. DEFINE q == [work[w] EXCEPT !.owed = @ \ {pair}]
<1>2. work[w] \in WorkRow BY DEF TypeOK
<1>3. work[w].owed \in SUBSET Pairs BY <1>2 DEF WorkRow
<1>4. q \in WorkRow BY <1>2, <1>3 DEF WorkRow
<1>5. /\ q.owed = work[w].owed \ {pair} /\ q.pc = work[w].pc /\ q.n = work[w].n
      /\ q.calls = work[w].calls /\ q.failed = work[w].failed
  BY <1>2 DEF WorkRow
<1>6. Become(w, q) BY <1>1
<1>. HIDE DEF q
<1>7. work' \in [Workers -> WorkRow] /\ Alone(w) /\ work'[w] = q
  BY <1>4, <1>6, BecomeAlone
<1>. QED BY <1>1, <1>3, <1>5, <1>7

LEMMA NativeStep ==
    ASSUME TypeOK, NEW w \in Workers, Native(w)
    PROVE  /\ work' \in [Workers -> WorkRow] /\ Alone(w)
           /\ work'[w].pc = "plan" /\ work'[w].n = 0 /\ work'[w].calls = {}
           /\ work'[w].failed = FALSE
           /\ accepted \subseteq accepted' /\ accepted' \subseteq Proposals
           /\ \A pair \in work'[w].owed : pair[1] \in accepted'
           /\ state' \in [Proposals -> States]
           /\ begun' = begun + 1 /\ begun + 1 \in Requests
           /\ UNCHANGED <<decision, tasks, outcomes, eligible, edits, crashes>>
<1>1. PICK p \in Proposals, to \in States :
        /\ begun < MaxRequests /\ begun' = begun + 1
        /\ state' = [state EXCEPT ![p] = to]
        /\ accepted' = IF to = "accepted" THEN accepted \cup {p} ELSE accepted
        /\ Become(w, [Idle EXCEPT !.pc = "plan", !.owed = Plans({p}, to)])
        /\ UNCHANGED <<decision, tasks, outcomes, eligible, edits, crashes>>
  BY DEF Native
<1>. DEFINE plans == Plans({p}, to)
            q == [Idle EXCEPT !.pc = "plan", !.owed = plans]
<1>2. /\ plans \subseteq Pairs /\ (to # "accepted" => plans = {})
      /\ \A pair \in plans : pair[1] \in {p}
  BY PlansOwed
<1>3. Become(w, q) BY <1>1
<1>. HIDE DEF plans
<1>4. q \in WorkRow BY <1>2, IdleRow DEF WorkRow
<1>5. /\ q.pc = "plan" /\ q.n = 0 /\ q.calls = {} /\ q.failed = FALSE /\ q.owed = plans
  BY DEF Idle
<1>. HIDE DEF q
<1>6. work' \in [Workers -> WorkRow] /\ Alone(w) /\ work'[w] = q
  BY <1>3, <1>4, BecomeAlone
<1>7. begun + 1 \in Requests BY <1>1, LimitsAssumption DEF TypeOK, Requests
<1>8. accepted \subseteq accepted' /\ accepted' \subseteq Proposals BY <1>1 DEF TypeOK
<1>9. \A pair \in plans : pair[1] \in accepted' BY <1>1, <1>2
<1>10. state' \in [Proposals -> States] BY <1>1 DEF TypeOK
<1>. QED BY <1>1, <1>5, <1>6, <1>7, <1>8, <1>9, <1>10
\* Next, one disjunct after another.
LEMMA Steps ==
    ASSUME [Next]_vars
    PROVE  \/ UNCHANGED vars
           \/ EditAnswers
           \/ \E w \in Workers :
                \/ BeginStage(w) \/ Native(w) \/ Stage(w) \/ Apply(w) \/ Refuse(w)
                \/ Commit(w) \/ CreateTasks(w) \/ Answer(w) \/ Crash(w)
                \/ \E status \in {"accept", "reject"}, wave \in Waves \cup {NoWave} :
                      BeginBatch(w, status, wave)
BY DEF Next, Serve, BeginRelease, BeginFinalize

LEMMA TypeStep == TypeInv /\ [Next]_vars => TypeInv'
<1>. SUFFICES ASSUME TypeOK, \A w \in Workers : Opened(w), [Next]_vars
              PROVE TypeOK' /\ \A w \in Workers : Opened(w)'
  BY DEF TypeInv
\* The other workers keep their rows.
<1>a. ASSUME NEW w \in Workers, Alone(w), Opened(w)'
      PROVE \A v \in Workers : Opened(v)'
  BY <1>a DEF Alone, Opened
<1>1. CASE UNCHANGED vars BY <1>1 DEF TypeOK, Opened, vars, rows
<1>2. CASE EditAnswers
  <2>1. edits' \in 0..MaxEdits BY <1>2, LimitsAssumption DEF EditAnswers, TypeOK
  <2>2. eligible' \in [Proposals -> BOOLEAN] BY <1>2 DEF EditAnswers, TypeOK
  <2>. QED BY <1>2, <2>1, <2>2 DEF EditAnswers, TypeOK, Opened, rows
<1>3. ASSUME NEW w \in Workers, BeginStage(w)
      PROVE  TypeOK' /\ \A v \in Workers : Opened(v)'
  <2>1. /\ work' \in [Workers -> WorkRow] /\ begun' \in Requests
        /\ Alone(w) /\ work'[w].pc = "stage"
        /\ UNCHANGED <<rows, eligible, edits, crashes>>
    BY <1>3, BeginStageStep, LimitsAssumption DEF Requests
  <2>2. TypeOK' BY <2>1 DEF TypeOK, rows
  <2>. QED BY <1>a, <2>1, <2>2 DEF Opened
<1>4. ASSUME NEW w \in Workers, NEW status \in {"accept", "reject"},
             NEW wave \in Waves \cup {NoWave}, BeginBatch(w, status, wave)
      PROVE  TypeOK' /\ \A v \in Workers : Opened(v)'
  <2>1. /\ work' \in [Workers -> WorkRow] /\ begun' = begun + 1
        /\ begun + 1 \in 1..MaxRequests
        /\ Alone(w) /\ work'[w].status = status /\ work'[w].n = begun + 1
        /\ UNCHANGED <<rows, eligible, edits, crashes>>
    BY <1>4, BatchStep
  <2>2. begun' \in Requests /\ begun + 1 # 0 BY <2>1, LimitsAssumption DEF Requests
  <2>3. TypeOK' BY <2>1, <2>2 DEF TypeOK, rows
  <2>. QED BY <1>a, <2>1, <2>2, <2>3 DEF Opened
<1>5. ASSUME NEW w \in Workers, Native(w)
      PROVE  TypeOK' /\ \A v \in Workers : Opened(v)'
  <2>1. /\ work' \in [Workers -> WorkRow] /\ begun' \in Requests
        /\ Alone(w) /\ work'[w].pc = "plan"
        /\ state' \in [Proposals -> States] /\ accepted' \subseteq Proposals
        /\ UNCHANGED <<decision, tasks, outcomes, eligible, edits, crashes>>
    BY <1>5, NativeStep
  <2>2. TypeOK' BY <2>1 DEF TypeOK
  <2>. QED BY <1>a, <2>1, <2>2 DEF Opened
<1>6. ASSUME NEW w \in Workers, Stage(w)
      PROVE  TypeOK' /\ \A v \in Workers : Opened(v)'
  <2>1. /\ work' \in [Workers -> WorkRow] /\ decision' \in [Proposals -> DecisionRow]
        /\ Alone(w) /\ work'[w] = Idle
    BY <1>6, StageStep
  <2>2. TypeOK' BY <1>6, <2>1 DEF TypeOK, Stage
  <2>. QED BY <1>a, <2>1, <2>2 DEF Opened, Idle
<1>7. ASSUME NEW w \in Workers, Apply(w)
      PROVE  TypeOK' /\ \A v \in Workers : Opened(v)'
  <2>1. /\ work' \in [Workers -> WorkRow] /\ Alone(w) /\ work[w].pc = "apply"
        /\ work'[w].status = work[w].status /\ work'[w].n = work[w].n
        /\ UNCHANGED <<rows, eligible, begun, edits, crashes>>
    BY <1>7, ApplyStep
  <2>2. TypeOK' BY <2>1 DEF TypeOK, rows
  <2>. QED BY <1>a, <2>1, <2>2 DEF Opened
<1>8. ASSUME NEW w \in Workers, Refuse(w) \/ Answer(w)
      PROVE  TypeOK' /\ \A v \in Workers : Opened(v)'
  <2>1. /\ UNCHANGED <<rows, eligible, begun, edits, crashes>>
        /\ Become(w, Answered(w, TRUE)) \/ Become(w, Answered(w, FALSE))
    BY <1>8 DEF Refuse, Answer
  <2>2. work' \in [Workers -> WorkRow] /\ Alone(w) /\ work'[w].pc = "answered"
    BY <2>1, AnsweredStep
  <2>3. TypeOK' BY <2>1, <2>2 DEF TypeOK, rows
  <2>. QED BY <1>a, <2>2, <2>3 DEF Opened
<1>9. ASSUME NEW w \in Workers, Commit(w)
      PROVE  TypeOK' /\ \A v \in Workers : Opened(v)'
  <2>. DEFINE calls == work[w].calls
              n == work[w].n
  <2>1. /\ work' \in [Workers -> WorkRow] /\ Alone(w)
        /\ work[w].pc = "apply" /\ work'[w].pc = "plan"
    BY <1>9, CommitStep
  <2>2. /\ calls \in SUBSET Proposals /\ n \in Requests
        /\ work[w].status \in {"accept", "reject"} /\ n # 0
    BY <2>1 DEF TypeOK, WorkRow, Opened
  <2>3. n \in 1..MaxRequests BY <2>2, LimitsAssumption DEF Requests
  <2>. HIDE DEF calls, n
  <2>4. outcomes' \subseteq Proposals \X {"accept", "reject"} \X (1..MaxRequests)
    <3>1. outcomes' = outcomes \cup { <<p, work[w].status, n>> : p \in calls }
      BY <1>9 DEF Commit, calls, n
    <3>. QED BY <2>2, <2>3, <3>1 DEF TypeOK
  <2>5. decision' \in [Proposals -> DecisionRow]
    <3>1. \A p \in Proposals : [decision[p] EXCEPT !.by = n] \in DecisionRow
      BY <2>2 DEF TypeOK, DecisionRow
    <3>2. decision' = [p \in Proposals |-> IF p \in work[w].batch
                         THEN [decision[p] EXCEPT !.by = n] ELSE decision[p]]
      BY <1>9 DEF Commit, n
    <3>. QED BY <3>1, <3>2 DEF TypeOK
  <2>6. state' \in [Proposals -> States] /\ accepted' \subseteq Proposals
    <3>1. Wanted(work[w].status) \in States BY DEF Wanted, States
    <3>2. /\ state' = [p \in Proposals |-> IF p \in calls THEN Wanted(work[w].status)
                                           ELSE state[p]]
          /\ accepted' \in {accepted, accepted \cup calls}
      BY <1>9 DEF Commit, calls
    <3>. QED BY <2>2, <3>1, <3>2 DEF TypeOK
  <2>7. UNCHANGED <<tasks, eligible, begun, edits, crashes>> BY <1>9 DEF Commit
  <2>8. TypeOK' BY <2>1, <2>4, <2>5, <2>6, <2>7 DEF TypeOK
  <2>. QED BY <1>a, <2>1, <2>8 DEF Opened
<1>10. ASSUME NEW w \in Workers, CreateTasks(w)
       PROVE  TypeOK' /\ \A v \in Workers : Opened(v)'
  <2>1. /\ work' \in [Workers -> WorkRow] /\ Alone(w) /\ work'[w].pc = "plan"
        /\ work[w].owed \subseteq Pairs
        /\ \E pair \in work[w].owed : tasks' = tasks \cup {pair}
        /\ UNCHANGED <<state, decision, accepted, outcomes, eligible, begun, edits, crashes>>
    BY <1>10, CreateTasksStep
  <2>2. tasks' \subseteq Pairs BY <2>1 DEF TypeOK
  <2>3. TypeOK' BY <2>1, <2>2 DEF TypeOK
  <2>. QED BY <1>a, <2>1, <2>3 DEF Opened
<1>11. ASSUME NEW w \in Workers, Crash(w)
       PROVE  TypeOK' /\ \A v \in Workers : Opened(v)'
  <2>1. /\ work' \in [Workers -> WorkRow] /\ Alone(w) /\ work'[w] = Idle
    BY <1>11, IdleRow, BecomeAlone DEF Crash
  <2>2. crashes' \in 0..MaxCrashes BY <1>11, LimitsAssumption DEF Crash, TypeOK
  <2>3. TypeOK' BY <1>11, <2>1, <2>2 DEF TypeOK, Crash, rows
  <2>. QED BY <1>a, <2>1, <2>3 DEF Opened, Idle
<1>. QED BY <1>1, <1>2, <1>3, <1>4, <1>5, <1>6, <1>7, <1>8, <1>9, <1>10, <1>11, Steps

LEMMA TypeInit == Init => TypeInv
<1>. SUFFICES ASSUME Init PROVE TypeInv
  OBVIOUS
<1>1. Undecided \in DecisionRow BY LimitsAssumption DEF Undecided, DecisionRow, Requests
<1>2. \A w \in Workers : work[w] = Idle BY DEF Init
<1>3. \A w \in Workers : Opened(w) BY <1>2 DEF Opened, Idle
<1>4. begun \in Requests /\ edits \in 0..MaxEdits /\ crashes \in 0..MaxCrashes
  BY LimitsAssumption DEF Init, Requests
<1>5. TypeOK BY <1>1, <1>4, IdleRow DEF Init, TypeOK, States
<1>. QED BY <1>3, <1>5 DEF TypeInv

\* The rows of proposals, decisions, plans and requests have their types.
THEOREM TypeCorrect == Spec => []TypeOK
<1>1. TypeInv => TypeOK BY DEF TypeInv
<1>. QED BY <1>1, TypeInit, TypeStep, PTL DEF Spec

-----------------------------------------------------------------------------
(* One outcome: batches are held, and what was applied is not due again.   *)

\* The applied_at of the rows after a commit.
LEMMA CommitRows ==
    ASSUME TypeOK, NEW w \in Workers, Commit(w)
    PROVE  \A p \in Proposals :
              decision'[p].by = IF p \in work[w].batch THEN work[w].n ELSE decision[p].by
<1>. DEFINE n == work[w].n
<1>1. \A p \in Proposals : [decision[p] EXCEPT !.by = n].by = n
  BY DEF TypeOK, DecisionRow
<1>2. decision' = [p \in Proposals |-> IF p \in work[w].batch
                      THEN [decision[p] EXCEPT !.by = n] ELSE decision[p]]
  BY DEF Commit
<1>. HIDE DEF n
<1>3. \A p \in Proposals :
         decision'[p].by = IF p \in work[w].batch THEN n ELSE decision[p].by
  BY <1>1, <1>2
<1>. QED BY <1>3 DEF n

\* A step of a worker that has no release open afterwards and leaves
\* applied_at alone.
LEMMA HeldByOthers ==
    ASSUME TypeOK, Held, NEW w \in Workers, Alone(w), work'[w].pc # "apply",
           \A p \in Proposals : decision'[p].by = decision[p].by
    PROVE  Held'
<1>1. \A v \in Workers : work[v].batch \in SUBSET Proposals BY DEF TypeOK, WorkRow
<1>. QED BY <1>1 DEF Held, Alone

LEMMA HeldStep == TypeInv /\ Held /\ [Next]_vars => Held'
<1>. SUFFICES ASSUME TypeOK, \A w \in Workers : Opened(w), Held, [Next]_vars
              PROVE Held'
  BY DEF TypeInv
<1>b. \A v \in Workers : work[v].batch \in SUBSET Proposals BY DEF TypeOK, WorkRow
<1>1. CASE UNCHANGED vars BY <1>1 DEF Held, vars, rows
<1>2. CASE EditAnswers BY <1>2 DEF Held, EditAnswers, rows
<1>3. ASSUME NEW w \in Workers, BeginStage(w) PROVE Held'
  <2>1. Alone(w) /\ work'[w].pc = "stage" /\ decision' = decision
    BY <1>3, BeginStageStep DEF rows
  <2>. QED BY <2>1, HeldByOthers
<1>4. ASSUME NEW w \in Workers, NEW status \in {"accept", "reject"},
             NEW wave \in Waves \cup {NoWave}, BeginBatch(w, status, wave)
      PROVE  Held'
  <2>1. /\ Alone(w) /\ decision' = decision /\ work'[w].pc = "apply"
        /\ work'[w].batch = Due(status, wave) /\ work'[w].calls = {}
        /\ work'[w].todo = Due(status, wave)
        /\ \A p \in Due(status, wave) : ~Locked(p)
    BY <1>4, BatchStep DEF rows
  <2>2. \A p \in Due(status, wave) : p \in Proposals /\ decision[p].by = 0
    BY DEF Due
  <2>3. \A v \in Workers : work[v].pc = "apply" => work[v].batch \cap Due(status, wave) = {}
    BY <2>1 DEF Locked
  <2>. QED BY <2>1, <2>2, <2>3 DEF Held, Alone
<1>5. ASSUME NEW w \in Workers, Native(w) PROVE Held'
  BY <1>5, NativeStep, HeldByOthers
<1>6. ASSUME NEW w \in Workers, Stage(w) PROVE Held'
  <2>1. /\ Alone(w) /\ work'[w] = Idle
        /\ \A p \in Proposals : decision'[p].by = decision[p].by
    BY <1>6, StageStep
  <2>. QED BY <2>1, HeldByOthers DEF Idle
<1>7. ASSUME NEW w \in Workers, Apply(w) PROVE Held'
  <2>1. /\ Alone(w) /\ work[w].pc = "apply" /\ decision' = decision
        /\ work'[w].batch = work[w].batch
        /\ \E p \in work[w].todo :
                /\ work'[w].calls \in {work[w].calls, work[w].calls \cup {p}}
                /\ work'[w].todo = work[w].todo \ {p}
    BY <1>7, ApplyStep DEF rows
  <2>2. work'[w].todo \cup work'[w].calls \subseteq work'[w].batch
    BY <2>1 DEF Held
  <2>. QED BY <2>1, <2>2 DEF Held, Alone
<1>8. ASSUME NEW w \in Workers, Refuse(w) \/ Answer(w) PROVE Held'
  <2>1. decision' = decision /\ (Become(w, Answered(w, TRUE)) \/ Become(w, Answered(w, FALSE)))
    BY <1>8 DEF Refuse, Answer, rows
  <2>2. Alone(w) /\ work'[w].pc = "answered" BY <2>1, AnsweredStep
  <2>. QED BY <2>1, <2>2, HeldByOthers
<1>9. ASSUME NEW w \in Workers, Commit(w) PROVE Held'
  <2>1. Alone(w) /\ work[w].pc = "apply" /\ work'[w].pc = "plan" BY <1>9, CommitStep
  <2>2. SUFFICES ASSUME NEW v \in Workers, work'[v].pc = "apply"
                 PROVE  /\ work'[v].todo \cup work'[v].calls \subseteq work'[v].batch
                        /\ \A p \in work'[v].batch : decision'[p].by = 0
                        /\ \A u \in Workers \ {v} :
                              work'[u].pc = "apply" => work'[u].batch \cap work'[v].batch = {}
    BY DEF Held
  <2>3. v # w /\ work'[v] = work[v] BY <2>1, <2>2 DEF Alone
  <2>4. work[w].batch \cap work[v].batch = {} BY <2>1, <2>2, <2>3 DEF Held
  <2>5. \A p \in work[v].batch : decision'[p].by = 0
    BY <1>9, <1>b, <2>2, <2>3, <2>4, CommitRows DEF Held
  <2>6. \A u \in Workers \ {v} :
           work'[u].pc = "apply" => work'[u].batch \cap work[v].batch = {}
    BY <2>1, <2>2, <2>3 DEF Held, Alone
  <2>. QED BY <2>2, <2>3, <2>5, <2>6 DEF Held
<1>10. ASSUME NEW w \in Workers, CreateTasks(w) PROVE Held'
  BY <1>10, CreateTasksStep, HeldByOthers
<1>11. ASSUME NEW w \in Workers, Crash(w) PROVE Held'
  <2>1. Alone(w) /\ work'[w] = Idle /\ decision' = decision
    BY <1>11, IdleRow, BecomeAlone DEF Crash, rows
  <2>. QED BY <2>1, HeldByOthers DEF Idle
<1>. QED BY <1>1, <1>2, <1>3, <1>4, <1>5, <1>6, <1>7, <1>8, <1>9, <1>10, <1>11, Steps

\* Only a commit adds outcomes; no other step touches them or applied_at.
LEMMA OutcomesKept ==
    ASSUME TypeOK, [Next]_vars, ~(\E w \in Workers : Commit(w))
    PROVE  /\ outcomes' = outcomes
           /\ \A p \in Proposals : decision'[p].by = decision[p].by
<1>1. CASE UNCHANGED vars BY <1>1 DEF vars, rows
<1>2. CASE EditAnswers BY <1>2 DEF EditAnswers, rows
<1>3. ASSUME NEW w \in Workers, BeginStage(w)
      PROVE  outcomes' = outcomes /\ decision' = decision
  BY <1>3, BeginStageStep DEF rows
<1>4. ASSUME NEW w \in Workers, NEW status \in {"accept", "reject"},
             NEW wave \in Waves \cup {NoWave}, BeginBatch(w, status, wave)
      PROVE  outcomes' = outcomes /\ decision' = decision
  BY <1>4, BatchStep DEF rows
<1>5. ASSUME NEW w \in Workers, Native(w)
      PROVE  outcomes' = outcomes /\ decision' = decision
  BY <1>5, NativeStep
<1>6. ASSUME NEW w \in Workers, Stage(w)
      PROVE  outcomes' = outcomes /\ \A p \in Proposals : decision'[p].by = decision[p].by
  BY <1>6, StageStep DEF Stage
<1>7. ASSUME NEW w \in Workers, Apply(w)
      PROVE  outcomes' = outcomes /\ decision' = decision
  BY <1>7, ApplyStep DEF rows
<1>8. ASSUME NEW w \in Workers, Refuse(w) \/ Answer(w) \/ CreateTasks(w) \/ Crash(w)
      PROVE  outcomes' = outcomes /\ decision' = decision
  BY <1>8 DEF Refuse, Answer, CreateTasks, Crash, rows
<1>. QED BY <1>1, <1>2, <1>3, <1>4, <1>5, <1>6, <1>7, <1>8, Steps

LEMMA SettledStep == TypeInv /\ Held /\ Settled /\ [Next]_vars => Settled'
<1>. SUFFICES ASSUME TypeOK, \A w \in Workers : Opened(w), Held, Settled, [Next]_vars
              PROVE Settled'
  BY DEF TypeInv
<1>1. \A o \in outcomes : o[1] \in Proposals BY DEF TypeOK
<1>2. CASE ~(\E w \in Workers : Commit(w))
  BY <1>1, <1>2, OutcomesKept DEF Settled, OneOutcome
<1>3. ASSUME NEW w \in Workers, Commit(w) PROVE Settled'
  <2>. DEFINE n == work[w].n
              told(p) == <<p, work[w].status, n>>
  <2>1. outcomes' = outcomes \cup { told(p) : p \in work[w].calls }
    BY <1>3 DEF Commit
  <2>2. /\ work[w].pc = "apply" /\ n # 0
    BY <1>3, CommitStep DEF Opened
  <2>3. /\ work[w].calls \subseteq work[w].batch
        /\ \A p \in work[w].batch : p \in Proposals /\ decision[p].by = 0
    BY <2>2 DEF Held, TypeOK, WorkRow
  <2>4. \A p \in Proposals :
           decision'[p].by = IF p \in work[w].batch THEN n ELSE decision[p].by
    BY <1>3, CommitRows
  <2>5. \A p \in work[w].calls : told(p)[1] = p OBVIOUS
  <2>. HIDE DEF told, n
  <2>6. \A o \in outcomes : o[1] \notin work[w].calls BY <2>3 DEF Settled
  <2>7. \A o \in outcomes' : decision'[o[1]].by # 0
    BY <1>1, <2>1, <2>2, <2>3, <2>4, <2>5 DEF Settled
  <2>8. OneOutcome'
    <3>. SUFFICES ASSUME NEW o \in outcomes', NEW q \in outcomes', o[1] = q[1]
                  PROVE o = q
      BY DEF OneOutcome
    <3>1. CASE o \in outcomes /\ q \in outcomes BY <3>1 DEF Settled, OneOutcome
    <3>2. CASE o \notin outcomes /\ q \notin outcomes
      <4>1. PICK p \in work[w].calls : o = told(p) BY <2>1, <3>2
      <4>2. PICK r \in work[w].calls : q = told(r) BY <2>1, <3>2
      <4>. QED BY <2>5, <4>1, <4>2
    <3>3. CASE o \in outcomes /\ q \notin outcomes BY <2>1, <2>5, <2>6, <3>3
    <3>4. CASE o \notin outcomes /\ q \in outcomes BY <2>1, <2>5, <2>6, <3>4
    <3>. QED BY <3>1, <3>2, <3>3, <3>4
  <2>. QED BY <2>7, <2>8 DEF Settled
<1>. QED BY <1>2, <1>3

\* A proposal is told one outcome of the program decisions, once.
THEOREM OutcomeOnce == Spec => []OneOutcome
<1>1. Init => Held /\ Settled
  <2>. SUFFICES ASSUME Init PROVE Held /\ Settled
    OBVIOUS
  <2>1. \A w \in Workers : work[w].pc = "idle" BY DEF Init, Idle
  <2>. QED BY <2>1 DEF Init, Held, Settled, OneOutcome
<1>2. TypeInv /\ Held /\ Settled /\ [Next]_vars => (TypeInv /\ Held /\ Settled)'
  BY TypeStep, HeldStep, SettledStep
<1>3. Settled => OneOutcome BY DEF Settled
<1>. QED BY <1>1, <1>2, <1>3, TypeInit, PTL DEF Spec

-----------------------------------------------------------------------------
(* Answers: a request has its number to itself, so what carries the number *)
(* is what the request did.                                                *)

LEMMA NumberedKept ==
    ASSUME TypeOK, Numbered, NEW w \in Workers, Alone(w),
           \/ begun' = begun /\ work'[w].n \in {0, work[w].n}
           \/ begun' = begun + 1 /\ work'[w].n \in {0, begun + 1},
           \A o \in outcomes' : o[3] <= begun,
           \A p \in Proposals : decision'[p].by <= begun,
           outcomes' \subseteq Proposals \X {"accept", "reject"} \X (1..MaxRequests),
           decision' \in [Proposals -> DecisionRow]
    PROVE  Numbered'
<1>1. /\ begun \in Nat /\ \A v \in Workers : work[v].n \in Nat
      /\ \A o \in outcomes' : o[3] \in Nat
      /\ \A p \in Proposals : decision'[p].by \in Nat
  BY LimitsAssumption DEF TypeOK, WorkRow, DecisionRow, Requests
<1>2. \A v \in Workers : work'[v].n <= begun' BY <1>1 DEF Numbered, Alone
<1>3. \A v, u \in Workers : v # u /\ work'[v].n # 0 => work'[v].n # work'[u].n
  <2>. SUFFICES ASSUME NEW v \in Workers, NEW u \in Workers, v # u, work'[v].n # 0
                PROVE work'[v].n # work'[u].n
    OBVIOUS
  <2>1. CASE v = w BY <1>1, <2>1 DEF Numbered, Alone
  <2>2. CASE u = w BY <1>1, <2>2 DEF Numbered, Alone
  <2>3. CASE v # w /\ u # w BY <2>3 DEF Numbered, Alone
  <2>. QED BY <2>1, <2>2, <2>3
<1>. QED BY <1>1, <1>2, <1>3 DEF Numbered

\* A step that adds no outcome and sets no applied_at.
LEMMA QuietStep ==
    ASSUME TypeOK, TypeOK', Numbered, NEW w \in Workers, Alone(w),
           \/ begun' = begun /\ work'[w].n \in {0, work[w].n}
           \/ begun' = begun + 1 /\ work'[w].n \in {0, begun + 1},
           outcomes' = outcomes,
           \A p \in Proposals : decision'[p].by = decision[p].by,
           \A v \in Workers : Truthful(v),
           Truthful(w)'
    PROVE  Numbered' /\ \A v \in Workers : Truthful(v)'
<1>1. Numbered' BY NumberedKept DEF Numbered, TypeOK
<1>2. \A n : ToldBy(n)' = ToldBy(n) /\ AppliedBy(n)' = AppliedBy(n)
  BY DEF ToldBy, AppliedBy
<1>3. ASSUME NEW v \in Workers, v # w PROVE Truthful(v)'
  <2>1. work'[v] = work[v] /\ Truthful(v) BY <1>3 DEF Alone
  <2>. QED BY <1>2, <2>1 DEF Truthful
<1>. QED BY <1>1, <1>3

\* A number that was not given yet, and 0, are nobody's.
LEMMA FreshNumber ==
    ASSUME TypeOK, Numbered
    PROVE  /\ ToldBy(begun + 1) = {} /\ AppliedBy(begun + 1) = {}
           /\ ToldBy(0) = {}
<1>1. begun \in Nat /\ \A o \in outcomes : o[3] \in Nat \ {0}
  BY LimitsAssumption DEF TypeOK, Requests
<1>2. \A p \in Proposals : decision[p].by \in Nat
  BY LimitsAssumption DEF TypeOK, DecisionRow, Requests
<1>3. \A o \in outcomes : o[3] # begun + 1 /\ o[3] # 0 BY <1>1 DEF Numbered
<1>4. \A p \in Proposals : decision[p].by # begun + 1 BY <1>1, <1>2 DEF Numbered
<1>. QED BY <1>3, <1>4 DEF ToldBy, AppliedBy

LEMMA CommitTold ==
    ASSUME TypeInv, TypeOK', Numbered, \A v \in Workers : Truthful(v),
           NEW w \in Workers, Commit(w)
    PROVE  Numbered' /\ \A v \in Workers : Truthful(v)'
<1>. DEFINE n == work[w].n
            told(p) == <<p, work[w].status, n>>
<1>1. /\ Alone(w) /\ work[w].pc = "apply" /\ work'[w].pc = "plan"
      /\ work'[w].n = n /\ work'[w].calls = work[w].calls /\ work'[w].failed = FALSE
  BY CommitStep DEF TypeInv
<1>2. n # 0 /\ n \in Nat /\ n <= begun
  BY <1>1, LimitsAssumption DEF TypeInv, TypeOK, WorkRow, Opened, Requests, Numbered
<1>3. outcomes' = outcomes \cup { told(p) : p \in work[w].calls } BY DEF Commit
<1>4. \A p \in Proposals :
         decision'[p].by = IF p \in work[w].batch THEN n ELSE decision[p].by
  BY CommitRows DEF TypeInv
<1>5. \A p : told(p)[1] = p /\ told(p)[3] = n OBVIOUS
<1>6. ToldBy(n) = {} /\ AppliedBy(n) = {} BY <1>1 DEF Truthful
<1>7. begun' = begun BY DEF Commit
<1>8. \A v \in Workers \ {w} : work[v].n # n BY <1>2 DEF Numbered
<1>. HIDE DEF told, n
<1>9. Numbered'
  <2>1. \A o \in outcomes' : o[3] <= begun BY <1>2, <1>3, <1>5 DEF Numbered
  <2>2. \A p \in Proposals : decision'[p].by <= begun BY <1>2, <1>4 DEF Numbered, n
  <2>3. work'[w].n \in {0, work[w].n} BY <1>1 DEF n
  <2>. QED BY <1>1, <1>7, <2>1, <2>2, <2>3, NumberedKept DEF TypeInv, TypeOK
<1>10. { o[1] : o \in { x \in outcomes' : x[3] = n } } = work[w].calls
  <2>1. \A o \in outcomes : o[3] # n BY <1>6 DEF ToldBy
  <2>2. { x \in outcomes' : x[3] = n } = { told(p) : p \in work[w].calls }
    BY <1>3, <1>5, <2>1
  <2>. QED BY <1>5, <2>2
<1>11. Truthful(w)'
  <2>1. work'[w].n = n BY <1>1
  <2>. QED BY <1>1, <1>10, <2>1 DEF Truthful, ToldBy
<1>12. ASSUME NEW v \in Workers, v # w PROVE Truthful(v)'
  <2>. DEFINE m == work[v].n
  <2>1. work'[v] = work[v] /\ Truthful(v) /\ m # n BY <1>1, <1>8, <1>12 DEF Alone
  <2>. HIDE DEF m
  <2>2. { x \in outcomes' : x[3] = m } = { x \in outcomes : x[3] = m }
    BY <1>3, <1>5, <2>1
  <2>3. { p \in Proposals : decision'[p].by = m }
           \subseteq { p \in Proposals : decision[p].by = m }
    BY <1>4, <2>1
  <2>4. /\ { o[1] : o \in { x \in outcomes' : x[3] = work'[v].n } } = ToldBy(work[v].n)
        /\ { p \in Proposals : decision'[p].by = work'[v].n } \subseteq AppliedBy(work[v].n)
    BY <2>1, <2>2, <2>3 DEF m, ToldBy, AppliedBy
  <2>. QED BY <2>1, <2>4 DEF Truthful, ToldBy, AppliedBy
<1>. QED BY <1>9, <1>11, <1>12

LEMMA AnswerStep ==
    TypeInv /\ Numbered /\ (\A w \in Workers : Truthful(w)) /\ [Next]_vars
       => Numbered' /\ \A w \in Workers : Truthful(w)'
<1>. SUFFICES ASSUME TypeInv, Numbered, \A w \in Workers : Truthful(w), [Next]_vars
              PROVE Numbered' /\ \A w \in Workers : Truthful(w)'
  OBVIOUS
<1>0. /\ TypeOK /\ TypeOK' /\ (\A w \in Workers : Opened(w))
      /\ \A w \in Workers : work[w] \in WorkRow
  BY TypeStep DEF TypeInv, TypeOK
<1>1. CASE UNCHANGED vars
  BY <1>1 DEF Numbered, Truthful, ToldBy, AppliedBy, vars, rows
<1>2. CASE EditAnswers
  BY <1>2 DEF EditAnswers, Numbered, Truthful, ToldBy, AppliedBy, rows
<1>3. ASSUME NEW w \in Workers, BeginStage(w)
      PROVE  Numbered' /\ \A v \in Workers : Truthful(v)'
  <2>1. /\ Alone(w) /\ work'[w].pc = "stage" /\ begun' = begun + 1
        /\ work'[w].n = begun + 1 /\ outcomes' = outcomes /\ decision' = decision
    BY <1>0, <1>3, BeginStageStep DEF rows
  <2>2. Truthful(w)' BY <2>1 DEF Truthful
  <2>. QED BY <1>0, <2>1, <2>2, QuietStep
<1>4. ASSUME NEW w \in Workers, NEW status \in {"accept", "reject"},
             NEW wave \in Waves \cup {NoWave}, BeginBatch(w, status, wave)
      PROVE  Numbered' /\ \A v \in Workers : Truthful(v)'
  <2>1. /\ Alone(w) /\ work'[w].pc = "apply" /\ begun' = begun + 1
        /\ work'[w].n = begun + 1 /\ work'[w].failed = FALSE
        /\ outcomes' = outcomes /\ decision' = decision
    BY <1>0, <1>4, BatchStep DEF rows
  <2>2. Truthful(w)'
    BY <1>0, <2>1, FreshNumber DEF Truthful, ToldBy, AppliedBy
  <2>. QED BY <1>0, <2>1, <2>2, QuietStep
<1>5. ASSUME NEW w \in Workers, Native(w)
      PROVE  Numbered' /\ \A v \in Workers : Truthful(v)'
  <2>1. /\ Alone(w) /\ work'[w].pc = "plan" /\ begun' = begun + 1
        /\ work'[w].n = 0 /\ work'[w].failed = FALSE /\ work'[w].calls = {}
        /\ outcomes' = outcomes /\ decision' = decision
    BY <1>0, <1>5, NativeStep
  <2>2. Truthful(w)' BY <1>0, <2>1, FreshNumber DEF Truthful, ToldBy
  <2>. QED BY <1>0, <2>1, <2>2, QuietStep
<1>6. ASSUME NEW w \in Workers, Stage(w)
      PROVE  Numbered' /\ \A v \in Workers : Truthful(v)'
  <2>1. /\ Alone(w) /\ work'[w] = Idle /\ outcomes' = outcomes /\ begun' = begun
        /\ \A p \in Proposals : decision'[p].by = decision[p].by
    BY <1>0, <1>6, StageStep DEF Stage
  <2>2. Truthful(w)' /\ work'[w].n = 0 BY <2>1 DEF Truthful, Idle
  <2>. QED BY <1>0, <2>1, <2>2, QuietStep
<1>7. ASSUME NEW w \in Workers, Apply(w)
      PROVE  Numbered' /\ \A v \in Workers : Truthful(v)'
  <2>1. /\ Alone(w) /\ work[w].pc = "apply" /\ work'[w].pc = "apply"
        /\ work'[w].n = work[w].n /\ work'[w].failed = work[w].failed
        /\ outcomes' = outcomes /\ decision' = decision /\ begun' = begun
    BY <1>0, <1>7, ApplyStep DEF rows
  <2>2. Truthful(w)' BY <2>1 DEF Truthful, ToldBy, AppliedBy
  <2>. QED BY <1>0, <2>1, <2>2, QuietStep
<1>8. ASSUME NEW w \in Workers, Refuse(w)
      PROVE  Numbered' /\ \A v \in Workers : Truthful(v)'
  <2>1. /\ Become(w, Answered(w, TRUE)) /\ work[w].pc = "apply"
        /\ outcomes' = outcomes /\ decision' = decision /\ begun' = begun
    BY <1>8 DEF Refuse, rows
  <2>2. /\ Alone(w) /\ work'[w].pc = "answered" /\ work'[w].n = work[w].n
        /\ work'[w].failed = TRUE
    BY <1>0, <2>1, AnsweredStep
  <2>3. Truthful(w)'
    BY <1>0, <2>1, <2>2 DEF Truthful, ToldBy, AppliedBy, Opened
  <2>. QED BY <1>0, <2>1, <2>2, <2>3, QuietStep
<1>9. ASSUME NEW w \in Workers, Answer(w)
      PROVE  Numbered' /\ \A v \in Workers : Truthful(v)'
  <2>1. /\ Become(w, Answered(w, FALSE)) /\ work[w].pc = "plan"
        /\ outcomes' = outcomes /\ decision' = decision /\ begun' = begun
    BY <1>9 DEF Answer, rows
  <2>2. /\ Alone(w) /\ work'[w].pc = "answered" /\ work'[w].n = work[w].n
        /\ work'[w].failed = FALSE /\ work'[w].calls = work[w].calls
    BY <1>0, <2>1, AnsweredStep
  <2>3. Truthful(w)' BY <2>1, <2>2 DEF Truthful, ToldBy
  <2>. QED BY <1>0, <2>1, <2>2, <2>3, QuietStep
<1>10. ASSUME NEW w \in Workers, Commit(w)
       PROVE  Numbered' /\ \A v \in Workers : Truthful(v)'
  BY <1>0, <1>10, CommitTold
<1>11. ASSUME NEW w \in Workers, CreateTasks(w)
       PROVE  Numbered' /\ \A v \in Workers : Truthful(v)'
  <2>1. /\ Alone(w) /\ work[w].pc = "plan" /\ work'[w].pc = "plan"
        /\ work'[w].n = work[w].n /\ work'[w].calls = work[w].calls
        /\ work'[w].failed = work[w].failed
        /\ outcomes' = outcomes /\ decision' = decision /\ begun' = begun
    BY <1>0, <1>11, CreateTasksStep
  <2>2. Truthful(w)' BY <2>1 DEF Truthful, ToldBy
  <2>. QED BY <1>0, <2>1, <2>2, QuietStep
<1>12. ASSUME NEW w \in Workers, Crash(w)
       PROVE  Numbered' /\ \A v \in Workers : Truthful(v)'
  <2>1. /\ Alone(w) /\ work'[w] = Idle
        /\ outcomes' = outcomes /\ decision' = decision /\ begun' = begun
    BY <1>0, <1>12, IdleRow, BecomeAlone DEF Crash, rows
  <2>2. Truthful(w)' /\ work'[w].n = 0 BY <2>1 DEF Truthful, Idle
  <2>. QED BY <1>0, <2>1, <2>2, QuietStep
<1>. QED BY <1>1, <1>2, <1>3, <1>4, <1>5, <1>6, <1>7, <1>8, <1>9, <1>10, <1>11, <1>12,
            Steps

\* The chair is told what a release did: nothing at all when it was refused.
THEOREM AnswersAreTrue == Spec => []AnswersTellTheTruth
<1>1. Init => Numbered /\ \A w \in Workers : Truthful(w)
  <2>. SUFFICES ASSUME Init PROVE Numbered /\ \A w \in Workers : Truthful(w)
    OBVIOUS
  <2>1. \A w \in Workers : work[w].pc = "idle" /\ work[w].n = 0 BY DEF Init, Idle
  <2>2. /\ outcomes = {} /\ begun = 0
        /\ \A p \in Proposals : decision[p].by = 0
    BY DEF Init, Undecided
  <2>. QED BY <2>1, <2>2 DEF Numbered, Truthful
<1>2. (\A w \in Workers : Truthful(w)) => AnswersTellTheTruth
  BY DEF Truthful, AnswersTellTheTruth, ToldBy, AppliedBy
<1>3. TypeInv /\ (Numbered /\ \A w \in Workers : Truthful(w)) /\ [Next]_vars
         => (TypeInv /\ (Numbered /\ \A w \in Workers : Truthful(w)))'
  BY TypeStep, AnswerStep
<1>. QED BY <1>1, <1>2, <1>3, TypeInit, PTL DEF Spec

-----------------------------------------------------------------------------
(* Plans: they are owed only after an acceptance was committed.            *)

LEMMA EarnedByOthers ==
    ASSUME Earned, NEW w \in Workers, Alone(w), accepted \subseteq accepted',
           \A pair \in tasks' : pair[1] \in accepted',
           \A pair \in work'[w].owed : pair[1] \in accepted'
    PROVE  Earned'
BY DEF Earned, PlansAreEarned, Alone

LEMMA EarnedStep == TypeInv /\ Earned /\ [Next]_vars => Earned'
<1>. SUFFICES ASSUME TypeInv, Earned, [Next]_vars PROVE Earned'
  OBVIOUS
<1>0. /\ TypeOK /\ (\A w \in Workers : Opened(w))
      /\ \A pair \in tasks : pair[1] \in accepted
  BY DEF TypeInv, Earned, PlansAreEarned
<1>1. CASE UNCHANGED vars BY <1>1 DEF Earned, PlansAreEarned, vars, rows
<1>2. CASE EditAnswers BY <1>2 DEF EditAnswers, Earned, PlansAreEarned, rows
<1>3. ASSUME NEW w \in Workers, BeginStage(w) PROVE Earned'
  <2>1. Alone(w) /\ work'[w].owed = {} /\ tasks' = tasks /\ accepted' = accepted
    BY <1>0, <1>3, BeginStageStep DEF rows
  <2>. QED BY <1>0, <2>1, EarnedByOthers
<1>4. ASSUME NEW w \in Workers, NEW status \in {"accept", "reject"},
             NEW wave \in Waves \cup {NoWave}, BeginBatch(w, status, wave)
      PROVE  Earned'
  <2>1. Alone(w) /\ work'[w].owed = {} /\ tasks' = tasks /\ accepted' = accepted
    BY <1>0, <1>4, BatchStep DEF rows
  <2>. QED BY <1>0, <2>1, EarnedByOthers
<1>5. ASSUME NEW w \in Workers, Native(w) PROVE Earned'
  <2>1. /\ Alone(w) /\ tasks' = tasks /\ accepted \subseteq accepted'
        /\ \A pair \in work'[w].owed : pair[1] \in accepted'
    BY <1>0, <1>5, NativeStep
  <2>. QED BY <1>0, <2>1, EarnedByOthers
<1>6. ASSUME NEW w \in Workers, Stage(w) PROVE Earned'
  <2>1. Alone(w) /\ work'[w] = Idle /\ tasks' = tasks /\ accepted' = accepted
    BY <1>0, <1>6, StageStep DEF Stage
  <2>2. work'[w].owed = {} BY <2>1 DEF Idle
  <2>. QED BY <1>0, <2>1, <2>2, EarnedByOthers
<1>7. ASSUME NEW w \in Workers, Apply(w) PROVE Earned'
  <2>1. /\ Alone(w) /\ work'[w].owed = work[w].owed
        /\ tasks' = tasks /\ accepted' = accepted
    BY <1>0, <1>7, ApplyStep DEF rows
  <2>. QED BY <1>0, <2>1, EarnedByOthers DEF Earned
<1>8. ASSUME NEW w \in Workers, Refuse(w) \/ Answer(w) PROVE Earned'
  <2>1. /\ tasks' = tasks /\ accepted' = accepted
        /\ Become(w, Answered(w, TRUE)) \/ Become(w, Answered(w, FALSE))
    BY <1>8 DEF Refuse, Answer, rows
  <2>2. Alone(w) /\ work'[w].owed = {} BY <1>0, <2>1, AnsweredStep
  <2>. QED BY <1>0, <2>1, <2>2, EarnedByOthers
<1>9. ASSUME NEW w \in Workers, Commit(w) PROVE Earned'
  <2>. DEFINE to == Wanted(work[w].status)
              calls == work[w].calls
  <2>1. Alone(w) /\ work'[w].owed = Plans(calls, to)
    BY <1>0, <1>9, CommitStep
  <2>2. /\ tasks' = tasks
        /\ accepted' = IF to = "accepted" THEN accepted \cup calls ELSE accepted
    BY <1>9 DEF Commit
  <2>3. calls \in SUBSET Proposals BY <1>0 DEF TypeOK, WorkRow
  <2>. HIDE DEF to, calls
  <2>4. /\ to # "accepted" => Plans(calls, to) = {}
        /\ \A pair \in Plans(calls, to) : pair[1] \in calls
    BY <2>3, PlansOwed
  <2>5. \A pair \in work'[w].owed : pair[1] \in accepted' BY <2>1, <2>2, <2>4
  <2>. QED BY <1>0, <2>1, <2>2, <2>5, EarnedByOthers
<1>10. ASSUME NEW w \in Workers, CreateTasks(w) PROVE Earned'
  <2>1. /\ Alone(w) /\ accepted' = accepted
        /\ \E pair \in work[w].owed : /\ tasks' = tasks \cup {pair}
                                      /\ work'[w].owed = work[w].owed \ {pair}
    BY <1>0, <1>10, CreateTasksStep
  <2>2. \A pair \in work[w].owed : pair[1] \in accepted BY DEF Earned
  <2>. QED BY <1>0, <2>1, <2>2, EarnedByOthers
<1>11. ASSUME NEW w \in Workers, Crash(w) PROVE Earned'
  <2>1. Alone(w) /\ work'[w] = Idle /\ tasks' = tasks /\ accepted' = accepted
    BY <1>0, <1>11, IdleRow, BecomeAlone DEF Crash, rows
  <2>2. work'[w].owed = {} BY <2>1 DEF Idle
  <2>. QED BY <1>0, <2>1, <2>2, EarnedByOthers
<1>. QED BY <1>1, <1>2, <1>3, <1>4, <1>5, <1>6, <1>7, <1>8, <1>9, <1>10, <1>11, Steps

\* Onboarding plans are of proposals whose acceptance was committed.
THEOREM PlansAfterAcceptance == Spec => []PlansAreEarned
<1>1. Init => Earned
  BY DEF Init, Earned, PlansAreEarned, Idle
<1>2. TypeInv /\ Earned /\ [Next]_vars => (TypeInv /\ Earned)'
  BY TypeStep, EarnedStep
<1>3. Earned => PlansAreEarned BY DEF Earned
<1>. QED BY <1>1, <1>2, <1>3, TypeInit, PTL DEF Spec
=============================================================================
