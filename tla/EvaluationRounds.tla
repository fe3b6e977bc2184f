--------------------------- MODULE EvaluationRounds ---------------------------
(***************************************************************************)
(* Evaluation rounds of abstract_views.py: scorecards, assignments with a  *)
(* cap, the reviewers' answers, recusals and results.                      *)
(*                                                                         *)
(* Each post runs in one transaction, and none locks what it reads: a      *)
(* request reads when it begins and writes when it commits.                *)
(***************************************************************************)
EXTENDS Naturals, FiniteSets

CONSTANTS
    Rounds, Reviewers,
    Submissions,     \* by the order of their titles
    Presets,         \* scorecards: a function from names to sequences of
                     \* weights, 0 for a choice or a text
    Limits,          \* the assignment limits that organisers enter
    Workers,         \* concurrent requests
    MaxPosts, MaxCards    \* bounds

RoundsAssumption ==
    /\ Submissions \subseteq Nat /\ IsFiniteSet(Submissions) /\ IsFiniteSet(Reviewers)
    /\ DOMAIN Presets # {}
    /\ \A p \in DOMAIN Presets :    \* every scorecard has something to rate
         /\ DOMAIN Presets[p] \subseteq Nat
         /\ \E i \in DOMAIN Presets[p] : Presets[p][i] > 0
    /\ Limits \subseteq 1..500
    /\ MaxPosts \in Nat /\ MaxCards \in Nat

VARIABLES
    card,        \* the scorecard of a round: its preset, and which card it is
    limit,       \* RoundReviewer.assignment_limit, 0 without a membership
    status,      \* RoundReviewAssignment.status, "none" without one
    answers,     \* EvaluationAnswer: values by assignment, card and position
    reviewable,  \* submissions in one of REVIEWABLE_STATES
    reminded,    \* memberships that were mailed
    workers,
    posts,       \* posts so far
    raced        \* history: rounds whose scorecard was replaced although they
                 \* had got an assignment since the request looked

vars == <<card, limit, status, answers, reviewable, reminded, workers, posts, raced>>
rows == <<card, limit, status, answers>>

-----------------------------------------------------------------------------
Idle == [pc |-> "idle"]
Keys == Rounds \X Reviewers \X Submissions    \* round, reviewer, submission
Value == "value"    \* accepted for its criterion
Blank == "blank"
Bad   == "bad"      \* not a number, out of range, or not an option

Exists(n)    == card[n].number > 0
Criteria(n)  == DOMAIN Presets[card[n].preset]
Assigned(n)  == {k \in Keys : k[1] = n /\ status[k] # "none"}
Of(n, r)     == {k \in Assigned(n) : k[2] = r}
Actionable(r) == {k \in Keys : k[2] = r /\ status[k] \in {"assigned", "complete"}}
First(S, n)  == {s \in S : Cardinality({t \in S : t < s}) < n}
Answered(k)  == {i \in Criteria(k[1]) :
                    /\ <<k, card[k[1]].number, i>> \in DOMAIN answers
                    /\ answers[<<k, card[k[1]].number, i>>] # Blank}

Become(w, q) == workers' = [workers EXCEPT ![w] = q]
Begin(w, q)  ==
    /\ workers[w] = Idle /\ posts < MaxPosts
    /\ posts' = posts + 1
    /\ Become(w, q)
    /\ UNCHANGED <<rows, reviewable, reminded, raced>>
Commit(w, pc) ==
    /\ workers[w].pc = pc
    /\ Become(w, Idle)
    /\ UNCHANGED <<reviewable, reminded, posts>>

Without(S) == [x \in {y \in DOMAIN answers : y[1] \notin S} |-> answers[x]]

-----------------------------------------------------------------------------
(* Organisers.                                                             *)

\* _create_round refuses a round that has assignments.
BeginCard(w, n, preset) ==
    /\ Assigned(n) = {}
    /\ Begin(w, [pc |-> "card", round |-> n, preset |-> preset])

\* The criteria are deleted with every answer to them, and created anew.
CommitCard(w) ==
    /\ Commit(w, "card")
    /\ LET n == workers[w].round IN
        /\ card[n].number < MaxCards
        /\ card' = [card EXCEPT ![n] =
                      [preset |-> workers[w].preset, number |-> @.number + 1]]
        /\ answers' = Without({k \in Keys : k[1] = n})
        /\ raced' = IF Assigned(n) = {} THEN raced ELSE raced \cup {n}
    /\ UNCHANGED <<limit, status>>

\* The submissions that exclude(round=n, reviewer=r) leaves out: the two conditions
\* may be met by different assignments.
Excluded(n, r, dropped) ==
    {k[3] : k \in {a \in Assigned(n) : ~(a[2] = r /\ a[3] \in dropped)}}
        \cap {k[3] : k \in {a \in Keys : /\ a[2] = r /\ status[a] # "none"
                                         /\ ~(a[1] = n /\ a[3] \in dropped)}}

\* _assign: what is dropped and what is added, from the rows that are read now.
\* Recused assignments count towards the limit.
Selection(mode, n, r, chosen, cap) ==
    LET open    == chosen \cap reviewable
        held    == {k[3] : k \in Of(n, r)}
        kept    == First(open, cap)
        dropped == IF mode = "assign_exact" THEN held \ kept ELSE {}
        room    == cap - Cardinality(held \ dropped)
        wanted  == (IF mode = "auto_assign" THEN open ELSE kept) \ Excluded(n, r, dropped)
    IN [drop |-> dropped, add |-> IF room > 0 THEN First(wanted, room) ELSE {}]

BeginAssign(w, mode, n, r, chosen, cap) ==
    /\ Exists(n)
    /\ Begin(w, [pc |-> "assign", round |-> n, reviewer |-> r, cap |-> cap,
                 plan |-> Selection(mode, n, r, chosen, cap)])

CommitAssign(w) ==
    /\ Commit(w, "assign")
    /\ LET n == workers[w].round
           r == workers[w].reviewer
           gone == {k \in Of(n, r) : k[3] \in workers[w].plan.drop}
       IN /\ limit' = [limit EXCEPT ![<<n, r>>] = workers[w].cap]
          /\ status' = [k \in Keys |->
                CASE k \in gone -> "none"
                  [] k[1] = n /\ k[2] = r /\ k[3] \in workers[w].plan.add
                       /\ status[k] = "none" -> "assigned"
                  [] OTHER -> status[k]]
          /\ answers' = Without(gone)
    /\ UNCHANGED <<card, raced>>

\* _send_reminders: reviewers with something to do are mailed.
Remind(n, r) ==
    /\ limit[<<n, r>>] > 0
    /\ \E k \in Of(n, r) : status[k] = "assigned"
    /\ reminded' = reminded \cup {<<n, r>>}
    /\ UNCHANGED <<rows, reviewable, workers, posts, raced>>

\* pretalx: a proposal is withdrawn, or comes back.
Withdraw(s) ==
    /\ reviewable' = IF s \in reviewable THEN reviewable \ {s} ELSE reviewable \cup {s}
    /\ UNCHANGED <<rows, reminded, workers, posts, raced>>

-----------------------------------------------------------------------------
(* Reviewers.                                                              *)

\* A reviewer opens one of the queue, and posts the scorecard or a conflict.
BeginSave(w, k, form) ==
    /\ k \in Actionable(k[2])
    /\ DOMAIN form = Criteria(k[1])
    /\ Begin(w, [pc |-> "save", key |-> k, form |-> form, number |-> card[k[1]].number])

BeginRecuse(w, k) ==
    /\ k \in Actionable(k[2])
    /\ Begin(w, [pc |-> "recuse", key |-> k])

\* An assignment or a criterion that is gone fails the transaction.
Standing(w) ==
    /\ status[workers[w].key] # "none"
    /\ workers[w].pc = "save" => workers[w].number = card[workers[w].key[1]].number

\* Mutant: a blank field is skipped.
Refused_BadOnly(form) == {i \in DOMAIN form : form[i] = Bad}

\* The criteria are taken in turn, up to the first value that is refused; what
\* came before it is committed all the same, and a bad value leaves a row
\* without a value if there was none.
Refused(form) == {i \in DOMAIN form : form[i] \in {Blank, Bad}}
Taken(form)   == {i \in DOMAIN form : \A j \in Refused(form) : i < j}
Created(form) ==
    {i \in Refused(form) : form[i] = Bad /\ \A j \in Refused(form) : i <= j}

CommitSave(w) ==
    /\ Commit(w, "save")
    /\ LET k    == workers[w].key
           form == workers[w].form
           Row(i) == <<k, workers[w].number, i>>
       IN IF ~Standing(w) THEN UNCHANGED rows
          ELSE /\ answers' = [x \in DOMAIN answers \cup {Row(i) : i \in Taken(form) \cup Created(form)} |->
                     IF \E i \in Taken(form) : x = Row(i) THEN form[x[3]]
                     ELSE IF x \in DOMAIN answers THEN answers[x] ELSE Blank]
               /\ status' = IF Refused(form) = {}
                            THEN [status EXCEPT ![k] = "complete"] ELSE status
               /\ UNCHANGED <<card, limit>>
    /\ UNCHANGED raced

CommitRecuse(w) ==
    /\ Commit(w, "recuse")
    /\ status' = IF Standing(w) THEN [status EXCEPT ![workers[w].key] = "recused"] ELSE status
    /\ UNCHANGED <<card, limit, answers, raced>>

-----------------------------------------------------------------------------
(* The organisers' results.                                                *)

Completed(n, s) == {k \in Assigned(n) : k[3] = s /\ status[k] = "complete"}

\* _round_score: the weights of the numeric answers, none if they sum to 0.
Weighed(k) == {i \in Answered(k) : Presets[card[k[1]].preset][i] > 0}
Scores(n, s) == {k \in Completed(n, s) : Weighed(k) # {}}

\* A row of _results: the number of reviews and the scores that are averaged.
Results(n) ==
    [s \in {k[3] : k \in {a \in Assigned(n) : status[a] # "recused"}} |->
        [count |-> Cardinality(Completed(n, s)), scores |-> Cardinality(Scores(n, s))]]

\* A row of the progress table.
Progress(n, r) ==
    [assigned  |-> Cardinality({k \in Of(n, r) : status[k] # "recused"}),
     completed |-> Cardinality({k \in Of(n, r) : status[k] = "complete"})]

-----------------------------------------------------------------------------
(* The assistant's answers: "Where is review stalled?", "What is next?".   *)

Rubric(k) ==
    [required |-> Cardinality(Criteria(k[1])), answered |-> Cardinality(Answered(k))]

Counted(S, value) == Cardinality({k \in S : status[k] = value})

\* The reviewers of a round: its members, and whoever still has an assignment.
Pool(n) == {r \in Reviewers : limit[<<n, r>>] > 0 \/ Of(n, r) # {}}

PoolRow(n, r) ==
    [ assigned   |-> Cardinality(Of(n, r)),
      complete   |-> Counted(Of(n, r), "complete"),
      incomplete |-> Counted(Of(n, r), "assigned"),
      recused    |-> Counted(Of(n, r), "recused") ]

\* Recused assignments leave the denominator; 0 of 0 is no progress.
RoundDone(n) ==
    LET due == Cardinality(Assigned(n)) - Counted(Assigned(n), "recused") IN
    due > 0 /\ Counted(Assigned(n), "complete") = due

IncompleteAssignments == {k \in Keys : status[k] = "assigned"}

\* A reviewer's own open work, with the rubric as far as it was saved.
NextAssignments(r) == {<<k, Rubric(k)>> : k \in {a \in IncompleteAssignments : a[2] = r}}

-----------------------------------------------------------------------------
Init ==
    /\ card = [n \in Rounds |-> [preset |-> CHOOSE p \in DOMAIN Presets : TRUE, number |-> 0]]
    /\ limit = [x \in Rounds \X Reviewers |-> 0]
    /\ status = [k \in Keys |-> "none"]
    /\ answers = <<>>
    /\ reviewable = Submissions
    /\ reminded = {}
    /\ workers = [w \in Workers |-> Idle]
    /\ posts = 0
    /\ raced = {}

Next ==
    \/ \E w \in Workers :
        \/ \E n \in Rounds, p \in DOMAIN Presets : BeginCard(w, n, p)
        \/ \E mode \in {"assign_selected", "assign_exact", "auto_assign"}, n \in Rounds,
              r \in Reviewers, chosen \in SUBSET Submissions, cap \in Limits :
              BeginAssign(w, mode, n, r, chosen, cap)
        \/ \E k \in Keys : BeginRecuse(w, k)
        \/ \E k \in Keys : \E form \in [Criteria(k[1]) -> {Value, Blank, Bad}] : BeginSave(w, k, form)
        \/ CommitCard(w) \/ CommitAssign(w) \/ CommitSave(w) \/ CommitRecuse(w)
    \/ \E n \in Rounds, r \in Reviewers : Remind(n, r)
    \/ \E s \in Submissions : Withdraw(s)

Spec == Init /\ [][Next]_vars

-----------------------------------------------------------------------------
\* Every completed evaluation answers all of its scorecard and has its part in
\* the average of its proposal: nobody is told of a review that does not count,
\* the two tables of progress agree, and a round that is reported done leaves no
\* reviewer with work and no rubric with a gap.  Only a scorecard that was
\* replaced beside the first assignment erases answers.
CompletedReviewsCount ==
    \A n \in Rounds \ raced :
        /\ \A k \in Assigned(n) : status[k] = "complete" => Answered(k) = Criteria(n)
        /\ \A s \in DOMAIN Results(n) : Results(n)[s].count = Results(n)[s].scores
        /\ \A r \in Reviewers : Progress(n, r).completed =
              Cardinality({s \in DOMAIN Results(n) : \E k \in Scores(n, s) : k[2] = r})
        /\ \A r \in Reviewers :
              Progress(n, r).assigned = PoolRow(n, r).assigned - PoolRow(n, r).recused
        /\ RoundDone(n) =>
              /\ \A r \in Pool(n) : \A x \in NextAssignments(r) : x[1][1] # n
              /\ \A k \in Assigned(n) :
                    status[k] = "recused" \/ Rubric(k).answered = Rubric(k).required
=============================================================================
