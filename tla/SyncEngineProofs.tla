-------------------------- MODULE SyncEngineProofs --------------------------
(***************************************************************************)
(* Theorems about SyncEngine, for every set of records, payloads, workers  *)
(* and correlation ids and every bound.                                    *)
(***************************************************************************)
EXTENDS SyncEngine, FiniteSetTheorems, SequenceTheorems, WellFoundedInduction, TLAPS

-----------------------------------------------------------------------------
(* Type correctness.  TypeOK is not inductive: a step uses what the program *)
(* counter says of the request's other fields.                             *)

\* The program counters at which a request works on an item.
AtItem == {"blocked", "check", "start", "call", "reconcile", "finish",
           "record", "readItems", "release", "count"}

\* A request whose fields agree with its program counter and with tables of
\* m items and n runs.
Fits(q, m, n) ==
    /\ q \in WorkerRow
    /\ q.queue \subseteq 1..m
    /\ q.item \in 0..m
    /\ q.pc \in AtItem => q.item # 0
    /\ q.pc \in {"idle", "next", "receipt"} => q.item = 0
    /\ q.mode = "run" => q.run \in 1..n
    /\ q.pc \in {"readRun", "writeRun"} =>
         /\ q.target \in RunStatuses
         /\ q.item = 0 => q.run \in 1..n
    /\ q.pc = "finish" => q.outcome \in {"succeeded", "failed", "reconciled"}

RequestsFit ==
    /\ workers \in [Workers -> WorkerRow]
    /\ \A w \in Workers : Fits(workers[w], nItems, nRuns)

TypeInv == TypeOK /\ RequestsFit

LEMMA IdleFits == ASSUME NEW m \in Nat, NEW n \in Nat PROVE Fits(Idle, m, n)
BY DEF Idle, Fits, WorkerRow, Pcs, AtItem

\* Going back to the loop head keeps the fields a request came with.
LEMMA LoopHead ==
    ASSUME NEW w, workers[w] \in WorkerRow
    PROVE  /\ AtLoop(w) \in WorkerRow
           /\ AtLoop(w).pc = "next" /\ AtLoop(w).item = 0
           /\ AtLoop(w).mode = workers[w].mode
           /\ AtLoop(w).run = workers[w].run
           /\ AtLoop(w).queue = workers[w].queue
BY DEF AtLoop, WorkerRow, Pcs

LEMMA LoopHeadFits ==
    ASSUME NEW w, NEW m \in Nat, NEW n \in Nat, Fits(workers[w], m, n)
    PROVE  /\ Fits(AtLoop(w), m, n)
           /\ Fits([AtLoop(w) EXCEPT !.someOk = TRUE], m, n)
           /\ Fits([AtLoop(w) EXCEPT !.someBad = TRUE], m, n)
           /\ Fits([AtLoop(w) EXCEPT !.pc = "receipt", !.outcome = "ambiguous"], m, n)
<1>1. workers[w] \in WorkerRow BY DEF Fits
<1>. DEFINE q == AtLoop(w)
<1>2. /\ q \in WorkerRow /\ q.pc = "next" /\ q.item = 0
      /\ q.mode = workers[w].mode /\ q.run = workers[w].run
      /\ q.queue = workers[w].queue
  BY <1>1, LoopHead
<1>. HIDE DEF q
<1>3. Fits(q, m, n) BY <1>2 DEF Fits, AtItem
<1>4. Fits([q EXCEPT !.someOk = TRUE], m, n) BY <1>3, <1>2 DEF Fits, AtItem, WorkerRow
<1>5. Fits([q EXCEPT !.someBad = TRUE], m, n) BY <1>3, <1>2 DEF Fits, AtItem, WorkerRow
<1>6. Fits([q EXCEPT !.pc = "receipt", !.outcome = "ambiguous"], m, n)
  <2>. DEFINE p == [q EXCEPT !.pc = "receipt", !.outcome = "ambiguous"]
  <2>1. p \in WorkerRow BY <1>2 DEF WorkerRow, Pcs
  <2>2. /\ p.pc = "receipt" /\ p.item = 0 /\ p.mode = q.mode
        /\ p.run = q.run /\ p.queue = q.queue
    BY <1>2 DEF WorkerRow
  <2>. HIDE DEF p
  <2>3. Fits(p, m, n) BY <2>1, <2>2, <1>3 DEF Fits, AtItem
  <2>. QED BY <2>3 DEF p
<1>. QED BY <1>3, <1>4, <1>5, <1>6 DEF q

LEMMA AfterRaiseFits ==
    ASSUME NEW w, NEW m \in Nat, NEW n \in Nat, Fits(workers[w], m, n)
    PROVE  Fits(AfterRaise(w), m, n)
BY IdleFits, LoopHeadFits DEF AfterRaise

LEMMA AfterRefreshFits ==
    ASSUME NEW w, NEW m \in Nat, NEW n \in Nat, Fits(workers[w], m, n), workers[w].pc \in {"readRun", "writeRun"}
    PROVE  Fits(AfterRefresh(w), m, n)
BY IdleFits DEF AfterRefresh, Fits, WorkerRow, Pcs, AtItem

\* A step replaces the record of one request by one that fits, and adds rows.
LEMMA OneRequest ==
    ASSUME RequestsFit, nItems \in Nat, nRuns \in Nat,
           nItems' \in Nat, nRuns' \in Nat, nItems <= nItems', nRuns <= nRuns',
           NEW w \in Workers, NEW q, Fits(q, nItems', nRuns'),
           Become(w, q)
    PROVE  RequestsFit'
<1>1. q \in WorkerRow
  BY DEF Fits
<1>2. workers' \in [Workers -> WorkerRow]
  BY <1>1 DEF RequestsFit, Become
<1>3. ASSUME NEW v \in Workers PROVE Fits(workers[v], nItems, nRuns)'
  <2>1. CASE v = w
    <3>1. workers'[v] = q BY <2>1 DEF RequestsFit, Become
    <3>. QED BY <3>1 DEF Fits, WorkerRow, RunStatuses, Pcs, AtItem
  <2>2. CASE v # w
    <3>1. workers'[v] = workers[v] BY <2>2 DEF RequestsFit, Become
    <3>2. Fits(workers[v], nItems, nRuns) BY DEF RequestsFit
    <3>. QED BY <3>1, <3>2 DEF Fits, WorkerRow, RunStatuses, Pcs, AtItem
  <2>. QED BY <2>1, <2>2
<1>. QED BY <1>2, <1>3 DEF RequestsFit, WorkerRow, RunStatuses, Pcs

\* The same for a step that adds no row.
LEMMA SameTables ==
    ASSUME RequestsFit, nItems \in Nat, nRuns \in Nat, UNCHANGED <<nItems, nRuns>>,
           NEW w \in Workers, NEW q, Fits(q, nItems, nRuns),
           Become(w, q)
    PROVE  RequestsFit'
<1>1. nItems' = nItems /\ nRuns' = nRuns OBVIOUS
<1>2. Fits(q, nItems', nRuns') BY <1>1
<1>3. /\ nItems' \in Nat /\ nRuns' \in Nat
      /\ nItems <= nItems' /\ nRuns <= nRuns'
  BY <1>1
<1>. QED BY <1>2, <1>3, OneRequest

\* Every step of an accepted request leaves requests that fit.
LEMMA StepFits ==
    ASSUME TypeInv, NEW w \in Workers, Step(w)
    PROVE  RequestsFit'
<1>. DEFINE q == workers[w]
<1>1. /\ Fits(q, nItems, nRuns) /\ RequestsFit
      /\ nItems \in Nat /\ nRuns \in Nat
      /\ items \in [1..nItems -> ItemRow]
      /\ \A i \in 1..nItems : items[i].run \in 1..nRuns
      /\ runs \in [1..nRuns -> RunRow]
  BY DEF TypeInv, TypeOK, RequestsFit, RunsOK, ItemsOK, ItemIds, RunIds
<1>2. q \in WorkerRow BY <1>1 DEF Fits
<1>3. Fits(AfterRaise(w), nItems, nRuns) BY <1>1, AfterRaiseFits
<1>4. Fits(Idle, nItems, nRuns) BY <1>1, IdleFits
<1>5. /\ Fits(AtLoop(w), nItems, nRuns)
      /\ Fits([AtLoop(w) EXCEPT !.someOk = TRUE], nItems, nRuns)
      /\ Fits([AtLoop(w) EXCEPT !.someBad = TRUE], nItems, nRuns)
  BY <1>1, LoopHeadFits
<1>a. CASE Raise(w) /\ UNCHANGED <<nItems, nRuns>>
  BY <1>a, <1>1, <1>3, SameTables DEF Raise
<1>6. CASE Claim(w)
  <2>1. PICK i \in q.queue, pc \in {"check", "blocked"} :
          /\ Become(w, [[q EXCEPT !.item = i, !.queue = @ \ {i}] EXCEPT !.pc = pc])
          /\ UNCHANGED <<nItems, nRuns>>
    BY <1>6 DEF Claim, rows
  <2>. DEFINE p == [[q EXCEPT !.item = i, !.queue = @ \ {i}] EXCEPT !.pc = pc]
  <2>2. i \in 1..nItems BY <1>1 DEF Fits
  <2>3. p \in WorkerRow BY <2>2, <1>1, <1>2 DEF WorkerRow, Pcs
  <2>4. /\ p.item = i /\ p.pc = pc /\ p.queue = q.queue \ {i}
        /\ p.mode = q.mode /\ p.run = q.run
    BY <1>2 DEF WorkerRow
  <2>. HIDE DEF p
  <2>5. Fits(p, nItems, nRuns) BY <2>2, <2>3, <2>4, <1>1 DEF Fits, AtItem
  <2>. QED BY <2>1, <2>5, <1>1, SameTables DEF p
<1>7. CASE Blocked(w)
  <2>1. PICK p \in {AfterRaise(w), Idle, [AtLoop(w) EXCEPT !.someBad = TRUE]} :
          Become(w, p) /\ UNCHANGED <<nItems, nRuns>>
    BY <1>7 DEF Blocked, rows
  <2>. QED BY <2>1, <1>1, <1>3, <1>4, <1>5, SameTables
<1>8. CASE Check(w)
  <2>. DEFINE p == [q EXCEPT !.pc = "start", !.version = Row(w).version]
  <2>1. PICK r \in {AfterRaise(w), p} : Become(w, r) /\ UNCHANGED <<nItems, nRuns>>
    BY <1>8 DEF Check, rows
  <2>2. q.item \in 1..nItems BY <1>8, <1>1 DEF Check, Fits, AtItem
  <2>3. Row(w).version \in Nat BY <2>2, <1>1 DEF Row, ItemRow
  <2>4. Fits(p, nItems, nRuns)
    BY <2>3, <1>8, <1>1, <1>2 DEF Check, Fits, WorkerRow, Pcs, AtItem
  <2>. QED BY <2>1, <2>4, <1>1, <1>3, SameTables
<1>9. CASE ClientFails(w) BY <1>9, <1>a DEF ClientFails, rows
<1>10. CASE Start(w)
  <2>. DEFINE v == q.version + 1
              p(pc) == [q EXCEPT !.pc = pc, !.version = v]
  <2>0. v \in Nat BY <1>2 DEF WorkerRow
  <2>1. CASE Raise(w) BY <2>1, <1>10, <1>a DEF Start
  <2>2. CASE ~Raise(w)
    <3>1. PICK pc \in {"readItems", "call"} :
            Become(w, p(pc)) /\ UNCHANGED <<nItems, nRuns>>
      BY <2>2, <1>10 DEF Start
    <3>. HIDE DEF v
    <3>2. Fits(p(pc), nItems, nRuns)
      BY <2>0, <1>10, <1>1, <1>2 DEF Start, Fits, WorkerRow, Pcs, AtItem
    <3>. QED BY <3>1, <3>2, <1>1, SameTables
  <2>. QED BY <2>1, <2>2
<1>11. CASE Accepted(w)
  <2>. DEFINE p == [q EXCEPT !.pc = "finish", !.outcome = "succeeded"]
  <2>1. Become(w, p) /\ UNCHANGED <<nItems, nRuns>> BY <1>11 DEF Accepted, rows
  <2>2. Fits(p, nItems, nRuns) BY <1>11, <1>1, <1>2 DEF Accepted, Fits, WorkerRow, Pcs, AtItem
  <2>. QED BY <2>1, <2>2, <1>1, SameTables
<1>12. CASE AnsweredDuplicate(w)
  <2>. DEFINE p == [q EXCEPT !.pc = "reconcile"]
  <2>1. Become(w, p) /\ UNCHANGED <<nItems, nRuns>> BY <1>12 DEF AnsweredDuplicate, Goto, rows
  <2>2. Fits(p, nItems, nRuns) BY <1>12, <1>1, <1>2 DEF AnsweredDuplicate, Fits, WorkerRow, Pcs, AtItem
  <2>. QED BY <2>1, <2>2, <1>1, SameTables
<1>13. CASE Rejected(w)
  <2>. DEFINE p == [q EXCEPT !.pc = "finish", !.outcome = "failed"]
  <2>1. Become(w, p) /\ UNCHANGED <<nItems, nRuns>> BY <1>13 DEF Rejected, rows
  <2>2. Fits(p, nItems, nRuns) BY <1>13, <1>1, <1>2 DEF Rejected, Fits, WorkerRow, Pcs, AtItem
  <2>. QED BY <2>1, <2>2, <1>1, SameTables
<1>14. CASE ServerError(w)
  <2>. DEFINE t  == q.tries + 1
              p1 == [q EXCEPT !.tries = t]
              p2 == [q EXCEPT !.pc = "finish", !.outcome = "failed"]
  <2>1. PICK p \in {p1, p2} : Become(w, p) /\ UNCHANGED <<nItems, nRuns>>
    BY <1>14 DEF ServerError, rows
  <2>0. t \in Nat BY <1>2 DEF WorkerRow
  <2>. HIDE DEF t
  <2>2. Fits(p1, nItems, nRuns)
    BY <2>0, <1>14, <1>1, <1>2 DEF ServerError, Fits, WorkerRow, Pcs, AtItem
  <2>3. Fits(p2, nItems, nRuns)
    BY <1>14, <1>1, <1>2 DEF ServerError, Fits, WorkerRow, Pcs, AtItem
  <2>. QED BY <2>1, <2>2, <2>3, <1>1, SameTables
<1>15. CASE ConnectionBreaks(w) BY <1>15, <1>a DEF ConnectionBreaks, rows
<1>16. CASE Reconcile(w)
  <2>. DEFINE p == [q EXCEPT !.pc = "finish", !.outcome = "reconciled"]
  <2>1. CASE Raise(w) BY <2>1, <1>16, <1>a DEF Reconcile, rows
  <2>2. CASE ~Raise(w)
    <3>1. Become(w, p) /\ UNCHANGED <<nItems, nRuns>>
      BY <2>2, <1>16 DEF Reconcile, rows
    <3>2. Fits(p, nItems, nRuns)
      BY <1>16, <1>1, <1>2 DEF Reconcile, Fits, WorkerRow, Pcs, AtItem
    <3>. QED BY <3>1, <3>2, <1>1, SameTables
  <2>. QED BY <2>1, <2>2
<1>17. CASE Finish(w)
  <2>. DEFINE v == q.version + 1
              p == [q EXCEPT !.pc = "record", !.version = v]
  <2>0. v \in Nat BY <1>2 DEF WorkerRow
  <2>1. CASE Raise(w) BY <2>1, <1>17, <1>a DEF Finish
  <2>2. CASE ~Raise(w)
    <3>1. Become(w, p) /\ UNCHANGED <<nItems, nRuns>>
      BY <2>2, <1>17 DEF Finish
    <3>. HIDE DEF v
    <3>2. Fits(p, nItems, nRuns)
      BY <2>0, <1>17, <1>1, <1>2 DEF Finish, Fits, WorkerRow, Pcs, AtItem
    <3>. QED BY <3>1, <3>2, <1>1, SameTables
  <2>. QED BY <2>1, <2>2
<1>18. CASE Record(w)
  <2>. DEFINE p == [q EXCEPT !.pc = "readItems"]
  <2>1. Become(w, p) /\ UNCHANGED <<nItems, nRuns>> BY <1>18 DEF Record, Goto, rows
  <2>2. Fits(p, nItems, nRuns) BY <1>18, <1>1, <1>2 DEF Record, Fits, WorkerRow, Pcs, AtItem
  <2>. QED BY <2>1, <2>2, <1>1, SameTables
<1>19. CASE ReadItems(w)
  <2>. DEFINE t == RunTarget(RunOf(w))
              p == [q EXCEPT !.pc = "readRun", !.target = t]
  <2>1. Become(w, p) /\ UNCHANGED <<nItems, nRuns>> BY <1>19 DEF ReadItems, rows
  <2>2. t \in {"running", "partial", "succeeded"} BY DEF RunTarget
  <2>. HIDE DEF t
  <2>3. Fits(p, nItems, nRuns)
    BY <2>2, <1>19, <1>1, <1>2 DEF ReadItems, Fits, WorkerRow, Pcs, AtItem, RunStatuses
  <2>. QED BY <2>1, <2>3, <1>1, SameTables
<1>20. CASE ReadRun(w)
  <2>. DEFINE v == runs[RunOf(w)].version
              p == [q EXCEPT !.pc = "writeRun", !.runVersion = v]
  <2>1. PICK r \in {AfterRefresh(w), p} : Become(w, r) /\ UNCHANGED <<nItems, nRuns>>
    BY <1>20 DEF ReadRun, rows
  <2>2. RunOf(w) \in 1..nRuns
    BY <1>20, <1>1 DEF ReadRun, RunOf, Row, Fits
  <2>3. v \in Nat BY <2>2, <1>1 DEF RunRow
  <2>. HIDE DEF v
  <2>4. Fits(p, nItems, nRuns)
    BY <2>3, <1>20, <1>1, <1>2 DEF ReadRun, Fits, WorkerRow, Pcs, AtItem
  <2>5. Fits(AfterRefresh(w), nItems, nRuns)
    BY <1>20, <1>1, AfterRefreshFits DEF ReadRun
  <2>. QED BY <2>1, <2>4, <2>5, <1>1, SameTables
<1>21. CASE WriteRun(w)
  <2>1. UNCHANGED <<nItems, nRuns>> BY <1>21 DEF WriteRun
  <2>2. CASE Raise(w) BY <2>1, <2>2, <1>a
  <2>3. CASE ~Raise(w)
    <3>1. PICK p \in {AfterRefresh(w), Idle} : Become(w, p)
      BY <2>3, <1>21 DEF WriteRun
    <3>2. Fits(AfterRefresh(w), nItems, nRuns)
      BY <1>21, <1>1, AfterRefreshFits DEF WriteRun
    <3>. QED BY <3>1, <3>2, <2>1, <1>1, <1>4, SameTables
  <2>. QED BY <2>2, <2>3
<1>22. CASE Release(w)
  <2>. DEFINE p == [q EXCEPT !.pc = "count"]
  <2>1. PICK r \in {p, Idle, AtLoop(w)} : Become(w, r) /\ UNCHANGED <<nItems, nRuns>>
    BY <1>22 DEF Release, rows
  <2>2. Fits(p, nItems, nRuns)
    BY <1>22, <1>1, <1>2 DEF Release, Fits, WorkerRow, Pcs, AtItem
  <2>. QED BY <2>1, <2>2, <1>1, <1>4, <1>5, SameTables
<1>23. CASE Count(w)
  <2>1. PICK p \in {[AtLoop(w) EXCEPT !.someOk = TRUE], [AtLoop(w) EXCEPT !.someBad = TRUE]} :
          Become(w, p) /\ UNCHANGED <<nItems, nRuns>>
    BY <1>23 DEF Count, rows
  <2>. QED BY <2>1, <1>1, <1>5, SameTables
<1>24. CASE FinishReceipt(w)
  <2>1. Become(w, Idle) /\ UNCHANGED <<nItems, nRuns>> BY <1>24 DEF FinishReceipt, rows
  <2>. QED BY <2>1, <1>1, <1>4, SameTables
<1>. QED
  BY <1>6, <1>7, <1>8, <1>9, <1>10, <1>11, <1>12, <1>13, <1>14, <1>15, <1>16,
     <1>17, <1>18, <1>19, <1>20, <1>21, <1>22, <1>23, <1>24 DEF Step

\* A request at an item names a row of the table.
LEMMA RowType ==
    ASSUME TypeInv, NEW w \in Workers, workers[w].pc \in AtItem
    PROVE  /\ workers[w].item \in 1..nItems
           /\ Row(w) \in ItemRow /\ Rec(w) \in Records
           /\ Row(w).run \in 1..nRuns
<1>1. Fits(workers[w], nItems, nRuns) /\ nItems \in Nat
  BY DEF TypeInv, RequestsFit, TypeOK, ItemsOK
<1>2. workers[w].item \in 1..nItems BY <1>1 DEF Fits
<1>. QED BY <1>2 DEF TypeInv, TypeOK, ItemsOK, ItemIds, RunIds, Row, Rec, ItemRow

LEMMA SetType ==
    ASSUME NEW f, NEW k, NEW v
    PROVE  /\ DOMAIN Set(f, k, v) = DOMAIN f \cup {k}
           /\ Set(f, k, v)[k] = v
           /\ \A x \in DOMAIN f \ {k} : Set(f, k, v)[x] = f[x]
BY DEF Set

LEMMA DropType ==
    ASSUME NEW f, NEW k
    PROVE  /\ DOMAIN Drop(f, k) = DOMAIN f \ {k}
           /\ \A x \in DOMAIN f \ {k} : Drop(f, k)[x] = f[x]
BY DEF Drop

\* An accepted command leaves a row of the same kind.
LEMMA AppliedItem ==
    ASSUME NEW row \in ItemRow, NEW st \in ItemStatuses
    PROVE  /\ Applied(row, st) \in ItemRow
           /\ Applied(row, st).status = st
           /\ Applied(row, st).version = row.version + 1
           /\ Applied(row, st).rec = row.rec /\ Applied(row, st).run = row.run
           /\ Applied(row, st).attempts = row.attempts
<1>. DEFINE v == row.version + 1
<1>1. v \in Nat BY DEF ItemRow
<1>. HIDE DEF v
<1>2. Applied(row, st) = [row EXCEPT !.status = st, !.version = v] BY DEF Applied, v
<1>3. [row EXCEPT !.status = st, !.version = v] \in ItemRow BY <1>1 DEF ItemRow
<1>. QED BY <1>2, <1>3 DEF ItemRow, v

\* What no step of an accepted request changes.
LEMMA StepFrame ==
    ASSUME NEW w \in Workers, Step(w)
    PROVE  UNCHANGED <<local, previews, nRuns, nItems, crashes>>
BY DEF Step, Claim, Blocked, Check, ClientFails, Start, Accepted, AnsweredDuplicate,
       Rejected, ServerError, ConnectionBreaks, Reconcile, Finish, Record, ReadItems,
       ReadRun, WriteRun, Release, Count, FinishReceipt, rows

\* What the steps other than those named leave alone.
LEMMA StepFrames ==
    ASSUME NEW w \in Workers, Step(w)
    PROVE  /\ UNCHANGED remote \/ Accepted(w) \/ ServerError(w) \/ ConnectionBreaks(w)
           /\ UNCHANGED identity \/ Record(w)
           /\ UNCHANGED items \/ Blocked(w) \/ Start(w) \/ Finish(w)
           /\ UNCHANGED runs \/ WriteRun(w)
           /\ UNCHANGED receipts \/ FinishReceipt(w)
<1>1. UNCHANGED remote \/ Accepted(w) \/ ServerError(w) \/ ConnectionBreaks(w)
  BY DEF Step, Claim, Blocked, Check, ClientFails, Start, AnsweredDuplicate,
       Rejected, Reconcile, Finish, Record, ReadItems,
       ReadRun, WriteRun, Release, Count, FinishReceipt, rows
<1>2. UNCHANGED identity \/ Record(w)
  BY DEF Step, Claim, Blocked, Check, ClientFails, Start, Accepted, AnsweredDuplicate,
       Rejected, ServerError, ConnectionBreaks, Reconcile, Finish, ReadItems,
       ReadRun, WriteRun, Release, Count, FinishReceipt, rows
<1>3. UNCHANGED items \/ Blocked(w) \/ Start(w) \/ Finish(w)
  BY DEF Step, Claim, Check, ClientFails, Accepted, AnsweredDuplicate,
       Rejected, ServerError, ConnectionBreaks, Reconcile, Record, ReadItems,
       ReadRun, WriteRun, Release, Count, FinishReceipt, rows
<1>4. UNCHANGED runs \/ WriteRun(w)
  BY DEF Step, Claim, Blocked, Check, ClientFails, Start, Accepted, AnsweredDuplicate,
       Rejected, ServerError, ConnectionBreaks, Reconcile, Finish, Record, ReadItems,
       ReadRun, Release, Count, FinishReceipt, rows
<1>5. UNCHANGED receipts \/ FinishReceipt(w)
  BY DEF Step, Claim, Blocked, Check, ClientFails, Start, Accepted, AnsweredDuplicate,
       Rejected, ServerError, ConnectionBreaks, Reconcile, Finish, Record, ReadItems,
       ReadRun, WriteRun, Release, Count, rows
<1>. QED BY <1>1, <1>2, <1>3, <1>4, <1>5

\* The step replaces its request's row by another of the same record and run.
ItemMove(w, row) ==
    /\ items' = [items EXCEPT ![workers[w].item] = row]
    /\ row \in ItemRow
    /\ row.rec = Row(w).rec /\ row.run = Row(w).run
    /\ \/ row.version = Row(w).version + 1
       \/ row.version = Row(w).version /\ row.status = Row(w).status
    /\ \/ /\ Blocked(w) /\ workers[w].mode = "run"
          /\ Row(w).status \in {"pending", "running"} /\ Row(w).version = 0
          /\ row.status = "failed" /\ row.attempts = Row(w).attempts
       \/ /\ Start(w) /\ Raise(w)
          /\ row.status = Row(w).status
       \/ /\ Start(w)
          /\ Become(w, [workers[w] EXCEPT !.pc = "call", !.version = workers[w].version + 1])
          /\ row.status = "running" /\ row.version = workers[w].version + 1
          /\ UNCHANGED claims
       \/ /\ Start(w)
          /\ Become(w, [workers[w] EXCEPT !.pc = "readItems", !.version = workers[w].version + 1])
          /\ Row(w).status = "pending"
          /\ row.status = "noop" /\ row.attempts = Row(w).attempts
          /\ UNCHANGED claims
       \/ /\ Finish(w)
          /\ Become(w, [workers[w] EXCEPT !.pc = "record", !.version = workers[w].version + 1])
          /\ <<Row(w).status, row.status>> \in ItemMachine
          /\ row.status = workers[w].outcome /\ row.attempts = Row(w).attempts
          /\ UNCHANGED claims

LEMMA StepItems ==
    ASSUME TypeInv, NEW w \in Workers, Step(w)
    PROVE  /\ UNCHANGED items \/ \E row : ItemMove(w, row)
           /\ Start(w) => \E row : ItemMove(w, row)
           /\ Finish(w) => Raise(w) \/ \E row : ItemMove(w, row)
<1>1. Blocked(w) => UNCHANGED items \/ \E row : ItemMove(w, row)
  <2>. SUFFICES ASSUME Blocked(w) PROVE UNCHANGED items \/ \E row : ItemMove(w, row)
    OBVIOUS
  <2>1. Row(w) \in ItemRow BY RowType DEF Blocked, AtItem
  <2>2. CASE ~UNCHANGED items
    <3>1. /\ items' = [items EXCEPT ![workers[w].item] = Applied(Row(w), "failed")]
          /\ workers[w].mode = "run"
          /\ Accepts(ItemMachine, Row(w), "failed", 0)
      BY <2>2 DEF Blocked, Row
    <3>2. Row(w).version = 0 /\ Row(w).status \in {"pending", "running"}
      BY <3>1 DEF Accepts, ItemMachine
    <3>3. ItemMove(w, Applied(Row(w), "failed"))
      BY <3>1, <3>2, <2>1, AppliedItem DEF ItemMove, ItemStatuses
    <3>. QED BY <3>3
  <2>. QED BY <2>2
<1>2. Start(w) => \E row : ItemMove(w, row)
  <2>. SUFFICES ASSUME Start(w) PROVE \E row : ItemMove(w, row)
    OBVIOUS
  <2>. DEFINE noop   == Row(w).action = "noop"
              target == IF noop THEN "noop" ELSE "running"
              n      == Row(w).attempts + 1
              more   == [Row(w) EXCEPT !.attempts = n]
              sent   == IF noop THEN Row(w) ELSE more
  <2>1. Row(w) \in ItemRow BY RowType DEF Start, AtItem
  <2>2. n \in Nat BY <2>1 DEF ItemRow
  <2>3. /\ more \in ItemRow /\ more.rec = Row(w).rec /\ more.run = Row(w).run
        /\ more.status = Row(w).status /\ more.version = Row(w).version
    <3>. HIDE DEF n
    <3>. QED BY <2>1, <2>2 DEF ItemRow
  <2>4. /\ sent \in ItemRow /\ sent.rec = Row(w).rec /\ sent.run = Row(w).run
        /\ sent.status = Row(w).status /\ sent.version = Row(w).version
        /\ noop => sent = Row(w)
    BY <2>1, <2>3
  <2>5. CASE Accepts(ItemMachine, Row(w), target, workers[w].version)
    <3>. DEFINE row == Applied(sent, target)
    <3>1. /\ items' = [items EXCEPT ![workers[w].item] = row]
          /\ Become(w, [workers[w] EXCEPT !.pc = IF noop THEN "readItems" ELSE "call",
                                          !.version = workers[w].version + 1])
          /\ UNCHANGED claims
      BY <2>5 DEF Start
    <3>2. target \in ItemStatuses BY DEF ItemStatuses
    <3>3. /\ row \in ItemRow /\ row.rec = Row(w).rec /\ row.run = Row(w).run
          /\ row.status = target /\ row.version = workers[w].version + 1
          /\ row.version = Row(w).version + 1
          /\ row.attempts = sent.attempts
      <4>1. Row(w).version = workers[w].version BY <2>5 DEF Accepts
      <4>. HIDE DEF sent, target
      <4>. QED BY <4>1, <3>2, <2>4, AppliedItem
    <3>4. noop => Row(w).status = "pending" BY <2>5 DEF Accepts, ItemMachine
    <3>. HIDE DEF row, sent
    <3>5. CASE noop
      <4>1. ItemMove(w, row) BY <3>1, <3>3, <3>4, <3>5, <2>4 DEF ItemMove
      <4>. QED BY <4>1
    <3>6. CASE ~noop
      <4>1. ItemMove(w, row) BY <3>1, <3>3, <3>6 DEF ItemMove
      <4>. QED BY <4>1
    <3>. QED BY <3>5, <3>6
  <2>6. CASE ~Accepts(ItemMachine, Row(w), target, workers[w].version)
    <3>1. items' = [items EXCEPT ![workers[w].item] = sent] /\ Raise(w)
      BY <2>6 DEF Start
    <3>2. ItemMove(w, sent) BY <3>1, <2>4 DEF ItemMove
    <3>. QED BY <3>2
  <2>. QED BY <2>5, <2>6
<1>3. Finish(w) => (Raise(w) /\ UNCHANGED items) \/ \E row : ItemMove(w, row)
  <2>. SUFFICES ASSUME Finish(w)
                PROVE (Raise(w) /\ UNCHANGED items) \/ \E row : ItemMove(w, row)
    OBVIOUS
  <2>1. Row(w) \in ItemRow BY RowType DEF Finish, AtItem
  <2>2. workers[w].outcome \in {"succeeded", "failed", "reconciled"}
    BY DEF Finish, TypeInv, RequestsFit, Fits
  <2>3. CASE ~(Raise(w) /\ UNCHANGED items)
    <3>. DEFINE row == Applied(Row(w), workers[w].outcome)
    <3>1. /\ items' = [items EXCEPT ![workers[w].item] = row]
          /\ Become(w, [workers[w] EXCEPT !.pc = "record",
                                          !.version = workers[w].version + 1])
          /\ UNCHANGED claims
          /\ Accepts(ItemMachine, Row(w), workers[w].outcome, workers[w].version)
      BY <2>3 DEF Finish, Row
    <3>2. workers[w].outcome \in ItemStatuses BY <2>2 DEF ItemStatuses
    <3>3. /\ row \in ItemRow /\ row.rec = Row(w).rec /\ row.run = Row(w).run
          /\ row.status = workers[w].outcome /\ row.attempts = Row(w).attempts
          /\ row.version = Row(w).version + 1
      BY <3>2, <2>1, AppliedItem
    <3>4. <<Row(w).status, row.status>> \in ItemMachine BY <3>1, <3>3 DEF Accepts
    <3>. HIDE DEF row
    <3>5. ItemMove(w, row) BY <3>1, <3>3, <3>4 DEF ItemMove
    <3>. QED BY <3>5
  <2>. QED BY <2>3
<1>. QED BY <1>1, <1>2, <1>3, StepFrames

\* The request found its record free and inserted its claim.
TakesClaim(w) ==
    /\ workers[w].pc = "next"
    /\ \E i \in workers[w].queue :
        /\ items[i].rec \notin DOMAIN claims
        /\ claims' = Set(claims, items[i].rec,
                        [item |-> i, status |-> "in_progress", owner |-> w])
        /\ Become(w, [[workers[w] EXCEPT !.item = i, !.queue = @ \ {i}]
                        EXCEPT !.pc = "check"])
    /\ UNCHANGED items

\* The ways in which a step changes the claims.
LEMMA StepClaims ==
    ASSUME NEW w \in Workers, Step(w)
    PROVE  \/ UNCHANGED claims
           \/ TakesClaim(w)
           \/ Check(w) /\ ~Eligible(workers[w].item) /\ claims' = Drop(claims, Rec(w))
           \/ Release(w) /\ claims' = Drop(claims, Rec(w))
           \/ /\ Raise(w)
              /\ workers[w].pc \in {"start", "call", "reconcile", "finish", "writeRun"}
              /\ workers[w].pc = "writeRun" => workers[w].item # 0
              /\ UNCHANGED items \/ Start(w)
<1>1. CASE Claim(w)
  BY <1>1 DEF Claim, TakesClaim, ClaimIsFree, rows
<1>2. CASE Check(w) BY <1>2 DEF Check
<1>3. CASE Release(w) BY <1>3 DEF Release
<1>4. CASE ClientFails(w) BY <1>4 DEF ClientFails, rows
<1>5. CASE Start(w) BY <1>5 DEF Start
<1>6. CASE ConnectionBreaks(w) BY <1>6 DEF ConnectionBreaks, rows
<1>7. CASE Reconcile(w) BY <1>7 DEF Reconcile, rows
<1>8. CASE Finish(w) BY <1>8 DEF Finish
<1>9. CASE WriteRun(w) BY <1>9 DEF WriteRun
<1>10. CASE Blocked(w) \/ Accepted(w) \/ AnsweredDuplicate(w) \/ Rejected(w)
            \/ ServerError(w) \/ Record(w) \/ ReadItems(w) \/ ReadRun(w)
            \/ Count(w) \/ FinishReceipt(w)
  BY <1>10 DEF Blocked, Accepted, AnsweredDuplicate, Rejected, ServerError, Record,
       ReadItems, ReadRun, Count, FinishReceipt
<1>. QED
  BY <1>1, <1>2, <1>3, <1>4, <1>5, <1>6, <1>7, <1>8, <1>9, <1>10 DEF Step

\* The tables after a step of an accepted request.
LEMMA StepTables ==
    ASSUME TypeInv, NEW w \in Workers, Step(w)
    PROVE  TypeOK'
<1>0. /\ UNCHANGED <<local, previews, nRuns, nItems, crashes>>
      /\ nItems \in Nat /\ nRuns \in Nat
      /\ items \in [1..nItems -> ItemRow]
      /\ \A i \in 1..nItems : items[i].run \in 1..nRuns
      /\ runs \in [1..nRuns -> RunRow]
      /\ remote \in [Records -> Seq(Payloads)]
      /\ SourcesOK /\ IdentityOK /\ PreviewsOK /\ RunsOK /\ ItemsOK
      /\ ClaimsOK /\ ReceiptsOK /\ crashes \in Nat
  BY StepFrame DEF TypeInv, TypeOK, SourcesOK, RunsOK, ItemsOK, ItemIds, RunIds
<1>1. SourcesOK'
  <2>1. CASE UNCHANGED remote BY <2>1, <1>0 DEF SourcesOK
  <2>2. CASE workers[w].pc = "call" /\ Writable(w) /\ remote' = Written(w)
    <3>1. Row(w) \in ItemRow /\ Rec(w) \in Records
      BY <2>2, RowType DEF AtItem
    <3>. DEFINE s == remote[Rec(w)]
                t == IF IsUpdate(w) THEN [s EXCEPT ![Row(w).ext] = Row(w).payload]
                                    ELSE Append(s, Row(w).payload)
    <3>2. s \in Seq(Payloads) /\ Row(w).payload \in Payloads
      BY <3>1, <1>0 DEF ItemRow
    <3>3. t \in Seq(Payloads)
      <4>1. CASE IsUpdate(w)
        <5>1. Row(w).ext \in DOMAIN s BY <4>1, <2>2 DEF Writable, Unknown
        <5>2. Row(w).ext \in 1..Len(s) BY <5>1, <3>2
        <5>. QED BY <5>2, <4>1, <3>2, ExceptSeq
      <4>2. CASE ~IsUpdate(w) BY <4>2, <3>2, AppendProperties
      <4>. QED BY <4>1, <4>2
    <3>4. remote' = [remote EXCEPT ![Rec(w)] = t] BY <2>2 DEF Written
    <3>. HIDE DEF t
    <3>. QED BY <3>3, <3>4, <1>0 DEF SourcesOK
  <2>. QED BY <2>1, <2>2, StepFrames DEF Accepted, ServerError, ConnectionBreaks
<1>2. IdentityOK'
  <2>1. CASE UNCHANGED identity BY <2>1, <1>0 DEF IdentityOK, IdentityRow
  <2>2. CASE Record(w) /\ ~UNCHANGED identity
    <3>1. Row(w) \in ItemRow /\ Rec(w) \in Records
      BY <2>2, RowType DEF Record, AtItem
    <3>. DEFINE v == [ ext |-> Row(w).ext, payload |-> Row(w).payload,
                       reconciled |-> Row(w).status = "reconciled" ]
    <3>2. v \in IdentityRow BY <3>1 DEF IdentityRow, ItemRow
    <3>3. identity' = Set(identity, Rec(w), v) BY <2>2 DEF Record
    <3>. HIDE DEF v
    <3>4. DOMAIN identity' \subseteq Records
      BY <3>1, <3>3, <1>0 DEF IdentityOK, Set
    <3>5. \A r \in DOMAIN identity' : identity'[r] \in IdentityRow
      BY <3>2, <3>3, <1>0 DEF IdentityOK, Set
    <3>. QED BY <3>4, <3>5 DEF IdentityOK, IdentityRow
  <2>. QED BY <2>1, <2>2, StepFrames
<1>3. PreviewsOK' BY <1>0 DEF PreviewsOK, EntryRow, Actions
<1>4. RunsOK'
  <2>1. CASE UNCHANGED runs BY <2>1, <1>0 DEF RunsOK, RunIds, RunRow, RunStatuses
  <2>2. CASE WriteRun(w) /\ ~UNCHANGED runs
    <3>. DEFINE run == RunOf(w)
                k == workers[w].runVersion + 1
                t == workers[w].target
                row == [runs[run] EXCEPT !.keys = @ \cup {<<t, k>>}]
    <3>1. Fits(workers[w], nItems, nRuns) BY DEF TypeInv, RequestsFit
    <3>2. run \in 1..nRuns
      <4>1. CASE workers[w].item = 0
        BY <4>1, <3>1, <2>2 DEF WriteRun, Fits, RunOf
      <4>2. CASE workers[w].item # 0
        <5>1. workers[w].item \in 1..nItems BY <4>2, <3>1, <1>0 DEF Fits
        <5>. QED BY <5>1, <4>2, <1>0 DEF RunOf, Row
      <4>. QED BY <4>1, <4>2
    <3>3. k \in Nat /\ t \in RunStatuses
      BY <3>1, <2>2 DEF WriteRun, Fits, WorkerRow
    <3>4. runs' = [runs EXCEPT ![run] = Applied(row, t)]
      <4>1. runs' = [runs EXCEPT ![run] = MovedRun(w)] BY <2>2 DEF WriteRun
      <4>. QED BY <4>1 DEF MovedRun, RunKey
    <3>. HIDE DEF run, k, t
    <3>5. row \in RunRow /\ row.version = runs[run].version
      BY <3>2, <3>3, <1>0 DEF RunRow
    <3>. HIDE DEF row
    <3>6. Applied(row, t) \in RunRow
      <4>. DEFINE v == row.version + 1
      <4>1. v \in Nat BY <3>5 DEF RunRow
      <4>2. Applied(row, t) = [row EXCEPT !.status = t, !.version = v] BY DEF Applied
      <4>. HIDE DEF v
      <4>. QED BY <4>1, <4>2, <3>3, <3>5 DEF RunRow
    <3>7. runs' \in [1..nRuns -> RunRow] BY <3>4, <3>6, <1>0
    <3>. QED BY <3>7, <1>0 DEF RunsOK, RunIds, RunRow, RunStatuses
  <2>. QED BY <2>1, <2>2, StepFrames
<1>5. ItemsOK'
  <2>1. CASE UNCHANGED items
    BY <2>1, <1>0 DEF ItemsOK, ItemIds, RunIds, ItemRow, Actions, ItemStatuses
  <2>2. CASE ~UNCHANGED items
    <3>1. PICK row : ItemMove(w, row) BY <2>2, StepItems
    <3>2. workers[w].item \in 1..nItems /\ Row(w).run \in 1..nRuns
      BY <3>1, RowType DEF ItemMove, Blocked, Start, Finish, AtItem
    <3>3. /\ items' = [items EXCEPT ![workers[w].item] = row]
          /\ row \in ItemRow /\ row.run = Row(w).run
      BY <3>1 DEF ItemMove
    <3>4. items' \in [1..nItems -> ItemRow]
      BY <3>2, <3>3, <1>0
    <3>5. \A i \in 1..nItems : items'[i].run \in 1..nRuns
      BY <3>2, <3>3, <1>0
    <3>. QED BY <3>4, <3>5, <1>0
            DEF ItemsOK, ItemIds, RunIds, ItemRow, Actions, ItemStatuses
  <2>. QED BY <2>1, <2>2
<1>6. ClaimsOK'
  <2>1. CASE UNCHANGED claims
    BY <2>1, <1>0 DEF ClaimsOK, ClaimRow, ItemIds
  <2>2. CASE TakesClaim(w)
    <3>1. PICK i \in workers[w].queue :
            claims' = Set(claims, items[i].rec,
                        [item |-> i, status |-> "in_progress", owner |-> w])
      BY <2>2 DEF TakesClaim
    <3>2. i \in 1..nItems BY <3>1 DEF TypeInv, RequestsFit, Fits
    <3>3. items[i].rec \in Records BY <3>2, <1>0 DEF ItemRow
    <3>4. [item |-> i, status |-> "in_progress", owner |-> w] \in ClaimRow
      BY <3>2 DEF ClaimRow
    <3>. DEFINE v == [item |-> i, status |-> "in_progress", owner |-> w]
    <3>. HIDE DEF v
    <3>5. DOMAIN claims' \subseteq Records
      BY <3>1, <3>3, <1>0 DEF ClaimsOK, Set
    <3>6. v \in ClaimRow /\ v.item = i BY <3>4 DEF v
    <3>7. \A r \in DOMAIN claims' :
             claims'[r] \in ClaimRow /\ claims'[r].item \in 1..nItems
      BY <3>1, <3>2, <3>6, <1>0 DEF ClaimsOK, Set, ItemIds, v
    <3>. QED BY <3>5, <3>7, <1>0 DEF ClaimsOK, ClaimRow, ItemIds
  <2>3. CASE claims' = Drop(claims, Rec(w))
    BY <2>3, <1>0 DEF ClaimsOK, ClaimRow, ItemIds, Drop
  <2>4. CASE Raise(w)
    <3>1. claims' = [claims EXCEPT ![Rec(w)] =
                      [@ EXCEPT !.status = "ambiguous", !.owner = NoWorker]]
      BY <2>4 DEF Raise
    <3>. QED BY <3>1, <1>0 DEF ClaimsOK, ClaimRow, ItemIds
  <2>. QED BY <2>1, <2>2, <2>3, <2>4, StepClaims
<1>7. ReceiptsOK'
  <2>1. CASE UNCHANGED receipts
    BY <2>1, <1>0 DEF ReceiptsOK, ReceiptRow, ItemIds
  <2>2. CASE FinishReceipt(w)
    <3>. DEFINE st == ReceiptStatus(w)
    <3>1. st \in {"ambiguous", "partial", "failed", "succeeded"} BY DEF ReceiptStatus
    <3>2. receipts' = [c \in DOMAIN receipts |->
             IF c \in workers[w].corr THEN [receipts[c] EXCEPT !.status = st]
             ELSE receipts[c]]
      BY <2>2 DEF FinishReceipt
    <3>. HIDE DEF st
    <3>. QED BY <3>1, <3>2, <1>0 DEF ReceiptsOK, ReceiptRow, ItemIds
  <2>. QED BY <2>1, <2>2, StepFrames
<1>8. RequestsOK'
  BY StepFits DEF RequestsFit, RequestsOK, Fits, ItemIds, WorkerRow, Pcs, RunStatuses
<1>. QED BY <1>0, <1>1, <1>2, <1>3, <1>4, <1>5, <1>6, <1>7, <1>8 DEF TypeOK

\* An organiser's resolution: the item of an ambiguous claim and its claim.
LEMMA ResolveItem ==
    ASSUME TypeInv, NEW r \in Records, Resolve(r)
    PROVE  \E row \in ItemRow :
             /\ claims[r].item \in 1..nItems
             /\ r \in DOMAIN claims /\ claims[r].status = "ambiguous"
             /\ items' = [items EXCEPT ![claims[r].item] = row]
             /\ row.rec = items[claims[r].item].rec
             /\ row.run = items[claims[r].item].run
             /\ row.attempts = items[claims[r].item].attempts
             /\ \/ row = items[claims[r].item] /\ row.status # "running"
                \/ /\ items[claims[r].item].status \in {"failed", "running"}
                   /\ row.status \in {"failed", "reconciled"}
                   /\ row.version = items[claims[r].item].version + 1
<1>. DEFINE i == claims[r].item
<1>1. r \in DOMAIN claims /\ claims[r].status = "ambiguous" /\ i \in 1..nItems
  BY DEF Resolve, Resolvable, TypeInv, TypeOK, ClaimsOK, ItemIds
<1>2. items[i] \in ItemRow BY <1>1 DEF TypeInv, TypeOK, ItemsOK, ItemIds
<1>3. PICK resolution \in {"verified_applied", "verified_not_applied"} :
        /\ resolution = "verified_applied" => items[i].status \in {"failed", "running"}
        /\ items' = [items EXCEPT ![i] = ResolvedItem(i, resolution)]
  BY DEF Resolve
<1>4. "failed" \in ItemStatuses /\ "reconciled" \in ItemStatuses BY DEF ItemStatuses
<1>5. \/ ResolvedItem(i, resolution) = items[i] /\ items[i].status # "running"
      \/ /\ items[i].status \in {"failed", "running"}
         /\ \E st \in {"failed", "reconciled"} :
              ResolvedItem(i, resolution) = Applied(items[i], st)
  BY <1>3 DEF ResolvedItem
<1>. DEFINE row == ResolvedItem(i, resolution)
<1>6. /\ row \in ItemRow /\ row.rec = items[i].rec /\ row.run = items[i].run
      /\ row.attempts = items[i].attempts
      /\ \/ row = items[i] /\ row.status # "running"
         \/ /\ items[i].status \in {"failed", "running"}
            /\ row.status \in {"failed", "reconciled"}
            /\ row.version = items[i].version + 1
  BY <1>2, <1>4, <1>5, AppliedItem
<1>. HIDE DEF row
<1>. QED BY <1>1, <1>3, <1>6 DEF row

LEMMA InitType == Init => TypeInv
<1>. SUFFICES ASSUME Init PROVE TypeInv
  OBVIOUS
<1>1. SourcesOK
  <2>1. PICK held \in SUBSET Records :
          remote = [r \in Records |-> IF r \in held THEN <<local[r]>> ELSE <<>>]
    BY DEF Init
  <2>2. local \in [Records -> Payloads] BY DEF Init
  <2>. QED BY <2>1, <2>2 DEF SourcesOK
<1>2. IdentityOK
  <2>1. PICK linked \in SUBSET Records :
          identity = [r \in linked |->
             [ext |-> 1, payload |-> local[r], reconciled |-> FALSE]]
    BY DEF Init
  <2>2. local \in [Records -> Payloads] BY DEF Init
  <2>. QED BY <2>1, <2>2 DEF IdentityOK, IdentityRow
<1>3. PreviewsOK BY DEF Init, PreviewsOK
<1>4. RunsOK /\ ItemsOK BY DEF Init, RunsOK, ItemsOK, RunIds, ItemIds
<1>5. ClaimsOK /\ ReceiptsOK BY DEF Init, ClaimsOK, ReceiptsOK
<1>6. crashes \in Nat BY DEF Init
<1>7. RequestsFit
  <2>1. nItems = 0 /\ nRuns = 0 /\ workers = [w \in Workers |-> Idle] BY DEF Init
  <2>2. Fits(Idle, 0, 0) BY IdleFits
  <2>. QED BY <2>1, <2>2 DEF RequestsFit, Fits
<1>8. RequestsOK BY <1>7 DEF RequestsFit, RequestsOK, Fits, ItemIds
<1>. QED BY <1>1, <1>2, <1>3, <1>4, <1>5, <1>6, <1>7, <1>8 DEF TypeInv, TypeOK

\* A new run: n new rows after the old ones, all of the new run, in the queue
\* of the request that created it.
LEMMA NewRun ==
    ASSUME TypeInv, NEW w \in Workers, ExecutePreview(w)
    PROVE  \E n \in Nat :
             /\ workers[w] = Idle
             /\ nItems' = nItems + n /\ nRuns' = nRuns + 1
             /\ items' \in [1..nItems + n -> ItemRow]
             /\ \A i \in 1..nItems : items'[i] = items[i]
             /\ \A i \in nItems + 1..nItems + n :
                  /\ items'[i].run = nRuns + 1 /\ items'[i].status = "pending"
                  /\ items'[i].version = 0 /\ items'[i].attempts = 0
             /\ runs' = Set(runs, nRuns + 1,
                          [status |-> "running", version |-> 1, keys |-> {}])
             /\ Become(w, Arrived("run", nRuns + 1, {}, nItems + 1..nItems + n))
             /\ PreviewsOK'
             /\ UNCHANGED <<local, identity, claims, receipts, remote, crashes>>
<1>1. PICK p \in previews :
        /\ ~Stale(p)
        /\ nItems + Cardinality(DOMAIN p.entries) <= MaxItems
        /\ \E f \in [nItems + 1..nItems + Cardinality(DOMAIN p.entries) -> DOMAIN p.entries] :
             items' = [i \in 1..nItems + Cardinality(DOMAIN p.entries) |->
                 IF i <= nItems THEN items[i]
                 ELSE [ rec |-> f[i], run |-> nRuns + 1,
                        action |-> p.entries[f[i]].action,
                        payload |-> p.entries[f[i]].payload,
                        ext |-> p.entries[f[i]].ext,
                        status |-> "pending", version |-> 0, attempts |-> 0 ]]
        /\ nItems' = nItems + Cardinality(DOMAIN p.entries)
        /\ previews' = (previews \ {p}) \cup {[p EXCEPT !.status = "executed"]}
        /\ Become(w, Arrived("run", nRuns + 1, {},
                             nItems + 1..nItems + Cardinality(DOMAIN p.entries)))
  BY DEF ExecutePreview
<1>. DEFINE S == DOMAIN p.entries
            n == Cardinality(S)
<1>2. /\ S \subseteq Records /\ p.status \in {"created", "executed"}
      /\ \A r \in S : p.entries[r] \in EntryRow
  BY DEF TypeInv, TypeOK, PreviewsOK
<1>3. n \in Nat
  BY <1>2, RecordsAssumption, FS_Subset, FS_CardinalityType
<1>4. /\ nItems \in Nat /\ nRuns \in Nat /\ items \in [1..nItems -> ItemRow]
  BY DEF TypeInv, TypeOK, ItemsOK, RunsOK, ItemIds
<1>5. PICK f \in [nItems + 1..nItems + n -> S] :
        items' = [i \in 1..nItems + n |->
                 IF i <= nItems THEN items[i]
                 ELSE [ rec |-> f[i], run |-> nRuns + 1,
                        action |-> p.entries[f[i]].action,
                        payload |-> p.entries[f[i]].payload,
                        ext |-> p.entries[f[i]].ext,
                        status |-> "pending", version |-> 0, attempts |-> 0 ]]
  BY <1>1
<1>6. PreviewsOK'
  <2>1. /\ [p EXCEPT !.status = "executed"].entries = p.entries
        /\ [p EXCEPT !.status = "executed"].status = "executed"
    OBVIOUS
  <2>. QED BY <1>1, <1>2, <2>1 DEF TypeInv, TypeOK, PreviewsOK, EntryRow, Actions
<1>. HIDE DEF n, S
<1>7. ASSUME NEW i \in nItems + 1..nItems + n
      PROVE  /\ items'[i] \in ItemRow
             /\ items'[i].run = nRuns + 1 /\ items'[i].status = "pending"
             /\ items'[i].version = 0 /\ items'[i].attempts = 0
  <2>1. /\ f[i] \in S /\ i \in 1..nItems + n /\ ~(i <= nItems) /\ nRuns + 1 \in Nat
    BY <1>3, <1>4, <1>5
  <2>2. items'[i] = [ rec |-> f[i], run |-> nRuns + 1,
                        action |-> p.entries[f[i]].action,
                        payload |-> p.entries[f[i]].payload,
                        ext |-> p.entries[f[i]].ext,
                        status |-> "pending", version |-> 0, attempts |-> 0 ]
    BY <2>1, <1>5
  <2>3. f[i] \in Records /\ p.entries[f[i]] \in EntryRow BY <2>1, <1>2
  <2>. QED BY <2>1, <2>2, <2>3 DEF ItemRow, EntryRow, ItemStatuses
<1>8. \A i \in 1..nItems : i \in 1..nItems + n /\ items'[i] = items[i]
  BY <1>3, <1>4, <1>5
<1>9. items' \in [1..nItems + n -> ItemRow]
  <2>1. DOMAIN items' = 1..nItems + n
    BY <1>5
  <2>2. ASSUME NEW i \in 1..nItems + n PROVE items'[i] \in ItemRow
    <3>1. CASE i \in 1..nItems BY <3>1, <1>8, <1>4
    <3>2. CASE i \in nItems + 1..nItems + n BY <3>2, <1>7
    <3>. QED BY <3>1, <3>2, <1>3, <1>4
  <2>. QED BY <2>1, <2>2, <1>5
<1>10. /\ workers[w] = Idle /\ nRuns' = nRuns + 1
       /\ runs' = Set(runs, nRuns + 1,
                     [status |-> "running", version |-> 1, keys |-> {}])
       /\ UNCHANGED <<local, identity, claims, receipts, remote, crashes>>
  BY DEF ExecutePreview
<1>. QED BY <1>1, <1>3, <1>6, <1>7, <1>8, <1>9, <1>10 DEF n, S

\* A request that arrives with work to do.
LEMMA ArrivalFits ==
    ASSUME NEW m \in Nat, NEW n \in Nat,
           NEW mode \in {"run", "retry", "recovery"}, NEW S \in SUBSET (1..m),
           NEW run \in 0..n, mode = "run" => run # 0, NEW C \in SUBSET Correlations
    PROVE  Fits(Arrived(mode, run, C, S), m, n)
<1>. DEFINE q == Arrived(mode, run, C, S)
<1>1. S \in SUBSET Nat /\ run \in Nat OBVIOUS
<1>2. q \in WorkerRow
  BY <1>1, Zenon, IdleFits DEF Arrived, Idle, WorkerRow, Pcs
<1>3. /\ q.pc = "next" /\ q.mode = mode /\ q.run = run /\ q.queue = S
      /\ q.item = 0
  BY DEF Arrived, Idle
<1>. HIDE DEF q
<1>4. Fits(q, m, n) BY <1>2, <1>3 DEF Fits, AtItem
<1>. QED BY <1>4 DEF q

LEMMA NextType == TypeInv /\ [Next]_vars => TypeInv'
<1>. SUFFICES ASSUME TypeInv, [Next]_vars PROVE TypeInv'
  OBVIOUS
<1>0. /\ nItems \in Nat /\ nRuns \in Nat /\ RequestsFit /\ TypeOK
      /\ items \in [1..nItems -> ItemRow]
      /\ \A i \in 1..nItems : items[i].run \in 1..nRuns
      /\ runs \in [1..nRuns -> RunRow]
  BY DEF TypeInv, TypeOK, ItemsOK, RunsOK, ItemIds, RunIds
<1>a. ASSUME RequestsFit' PROVE RequestsOK'
  BY <1>a DEF RequestsFit, RequestsOK, Fits, ItemIds, WorkerRow, Pcs, RunStatuses
<1>1. CASE UNCHANGED vars
  <2>1. UNCHANGED <<local, identity, previews, nRuns, runs, nItems, items, claims,
                    receipts, remote, workers, crashes>>
    BY <1>1 DEF vars, rows
  <2>2. RequestsFit'
    BY <2>1, <1>0 DEF RequestsFit, Fits, WorkerRow, Pcs, RunStatuses, AtItem
  <2>. QED
    BY <2>1, <2>2, <1>0 DEF TypeInv, TypeOK, SourcesOK, IdentityOK, PreviewsOK, RunsOK,
       ItemsOK, ClaimsOK, ReceiptsOK, RequestsOK, ItemIds, RunIds, IdentityRow, EntryRow,
       RunRow, ItemRow, ClaimRow, ReceiptRow, Actions, RunStatuses, ItemStatuses, WorkerRow, Pcs
<1>2. ASSUME NEW r \in Records, Edit(r) PROVE TypeInv'
  <2>1. UNCHANGED <<identity, previews, nRuns, runs, nItems, items, claims,
                    receipts, remote, workers, crashes>>
    BY <1>2 DEF Edit, rows
  <2>2. RequestsFit'
    BY <2>1, <1>0 DEF RequestsFit, Fits, WorkerRow, Pcs, RunStatuses, AtItem
  <2>3. SourcesOK'
    BY <1>2, <2>1, <1>0 DEF Edit, TypeOK, SourcesOK
  <2>. QED
    BY <2>1, <2>2, <2>3, <1>0 DEF TypeInv, TypeOK, IdentityOK, PreviewsOK, RunsOK,
       ItemsOK, ClaimsOK, ReceiptsOK, RequestsOK, ItemIds, RunIds, IdentityRow, EntryRow,
       RunRow, ItemRow, ClaimRow, ReceiptRow, Actions, RunStatuses, ItemStatuses, WorkerRow, Pcs
<1>3. ASSUME NEW r \in Records, Resolve(r) PROVE TypeInv'
  <2>1. /\ UNCHANGED <<local, identity, previews, nRuns, runs, nItems, receipts,
                       remote, workers, crashes>>
        /\ claims' = Drop(claims, r)
    BY <1>3 DEF Resolve
  <2>2. RequestsFit'
    BY <2>1, <1>0 DEF RequestsFit, Fits, WorkerRow, Pcs, RunStatuses, AtItem
  <2>3. PICK row \in ItemRow :
          /\ claims[r].item \in 1..nItems
          /\ items' = [items EXCEPT ![claims[r].item] = row]
          /\ row.run = items[claims[r].item].run
    BY <1>3, ResolveItem
  <2>4. ItemsOK'
    <3>1. items' \in [1..nItems -> ItemRow] BY <2>3, <1>0
    <3>2. \A i \in 1..nItems : items'[i].run \in 1..nRuns BY <2>3, <1>0
    <3>. QED BY <3>1, <3>2, <2>1, <1>0
            DEF ItemsOK, ItemIds, RunIds, ItemRow, Actions, ItemStatuses
  <2>5. ClaimsOK'
    BY <2>1, <1>0 DEF TypeOK, ClaimsOK, ClaimRow, Drop, ItemIds
  <2>. QED
    BY <2>1, <2>2, <2>4, <2>5, <1>0 DEF TypeInv, TypeOK, SourcesOK, IdentityOK, PreviewsOK,
       RunsOK, ReceiptsOK, RequestsOK, ItemIds, RunIds, IdentityRow, EntryRow,
       RunRow, ReceiptRow, Actions, RunStatuses, WorkerRow, Pcs
<1>4. ASSUME NEW S \in SUBSET Records, MakePreview(S) PROVE TypeInv'
  <2>1. UNCHANGED <<local, identity, nRuns, runs, nItems, items, claims, receipts,
                    remote, workers, crashes>>
    BY <1>4 DEF MakePreview
  <2>2. RequestsFit'
    BY <2>1, <1>0 DEF RequestsFit, Fits, WorkerRow, Pcs, RunStatuses, AtItem
  <2>. DEFINE entry(r) == [ action  |-> PreviewAction(r), payload |-> local[r],
                ext     |-> IF r \in DOMAIN identity THEN identity[r].ext ELSE 0 ]
              new == [status |-> "created", entries |-> [r \in S |-> entry(r)]]
  <2>3. previews' = previews \cup {new} BY <1>4 DEF MakePreview
  <2>4. ASSUME NEW r \in S PROVE entry(r) \in EntryRow
    <3>1. PreviewAction(r) \in Actions BY DEF PreviewAction, Actions
    <3>. QED BY <3>1, <1>0 DEF TypeOK, SourcesOK, IdentityOK, IdentityRow, EntryRow
  <2>. HIDE DEF entry
  <2>5. PreviewsOK'
    BY <2>3, <2>4, <1>0 DEF TypeOK, PreviewsOK, EntryRow, Actions
  <2>. QED
    BY <2>1, <2>2, <2>5, <1>0 DEF TypeInv, TypeOK, SourcesOK, IdentityOK, RunsOK,
       ItemsOK, ClaimsOK, ReceiptsOK, RequestsOK, ItemIds, RunIds, IdentityRow,
       RunRow, ItemRow, ClaimRow, ReceiptRow, Actions, RunStatuses, ItemStatuses, WorkerRow, Pcs
<1>5. ASSUME NEW w \in Workers, ExecutePreview(w) PROVE TypeInv'
  <2>1. PICK n \in Nat :
             /\ nItems' = nItems + n /\ nRuns' = nRuns + 1
             /\ items' \in [1..nItems + n -> ItemRow]
             /\ \A i \in 1..nItems : items'[i] = items[i]
             /\ \A i \in nItems + 1..nItems + n : items'[i].run = nRuns + 1
             /\ runs' = Set(runs, nRuns + 1,
                          [status |-> "running", version |-> 1, keys |-> {}])
             /\ Become(w, Arrived("run", nRuns + 1, {}, nItems + 1..nItems + n))
             /\ PreviewsOK'
             /\ UNCHANGED <<local, identity, claims, receipts, remote, crashes>>
    BY <1>5, NewRun
  <2>2. nItems + n \in Nat /\ nRuns + 1 \in Nat BY <1>0
  <2>3. RequestsFit'
    <3>. DEFINE q == Arrived("run", nRuns + 1, {}, nItems + 1..nItems + n)
    <3>1. /\ nItems + 1..nItems + n \in SUBSET (1..nItems + n)
          /\ nRuns + 1 \in 0..nRuns + 1 /\ nRuns + 1 # 0
      BY <1>0
    <3>2. {} \in SUBSET Correlations OBVIOUS
    <3>3. Fits(q, nItems + n, nRuns + 1) BY <3>1, <3>2, <2>2, ArrivalFits
    <3>4. Fits(q, nItems', nRuns') BY <3>3, <2>1
    <3>5. nItems' \in Nat /\ nRuns' \in Nat /\ nItems <= nItems' /\ nRuns <= nRuns'
      BY <2>1, <2>2, <1>0
    <3>. HIDE DEF q
    <3>6. Become(w, q) BY <2>1 DEF q
    <3>. QED BY <3>4, <3>5, <3>6, <1>0, OneRequest
  <2>4. RunsOK'
    <3>. DEFINE v == [status |-> "running", version |-> 1, keys |-> {}]
    <3>1. v \in RunRow BY DEF RunRow, RunStatuses
    <3>. HIDE DEF v
    <3>2. runs' = Set(runs, nRuns + 1, v) BY <2>1 DEF v
    <3>3. DOMAIN runs \cup {nRuns + 1} = 1..nRuns + 1 BY <1>0
    <3>4. runs' \in [1..nRuns + 1 -> RunRow] BY <3>1, <3>2, <3>3, <1>0 DEF Set
    <3>. QED BY <3>4, <2>1, <2>2 DEF RunsOK, RunIds, RunRow, RunStatuses
  <2>5. ItemsOK'
    <3>1. ASSUME NEW i \in 1..nItems + n PROVE items'[i].run \in 1..nRuns + 1
      <4>1. CASE i \in 1..nItems BY <4>1, <2>1, <1>0
      <4>2. CASE i \in nItems + 1..nItems + n BY <4>2, <2>1, <1>0
      <4>. QED BY <4>1, <4>2, <1>0
    <3>. QED BY <3>1, <2>1, <2>2 DEF ItemsOK, ItemIds, RunIds, ItemRow, Actions, ItemStatuses
  <2>6. ClaimsOK' /\ ReceiptsOK'
    <3>1. 1..nItems \subseteq 1..nItems' BY <2>1, <1>0
    <3>. QED BY <3>1, <2>1, <1>0 DEF TypeOK, ClaimsOK, ReceiptsOK, ClaimRow, ReceiptRow, ItemIds
  <2>. QED
    BY <2>1, <2>3, <2>4, <2>5, <2>6, <1>a, <1>0 DEF TypeInv, TypeOK, SourcesOK, IdentityOK,
       IdentityRow
<1>6. ASSUME NEW w \in Workers, Retry(w) PROVE TypeInv'
  <2>1. UNCHANGED <<local, identity, previews, nRuns, runs, nItems, items, claims, receipts,
                    remote, crashes>>
    BY <1>6 DEF Retry, rows
  <2>2. PICK i \in 1..nItems :
          Become(w, Arrived("retry", 0, {}, {i}))
    BY <1>6 DEF Retry, LatestFailed, ItemIds
  <2>3. RequestsFit'
    <3>. DEFINE q == Arrived("retry", 0, {}, {i})
    <3>1. {i} \in SUBSET (1..nItems) /\ 0 \in 0..nRuns BY <1>0
    <3>2. {} \in SUBSET Correlations OBVIOUS
    <3>4. Fits(q, nItems, nRuns) BY <3>1, <3>2, <1>0, ArrivalFits
    <3>. HIDE DEF q
    <3>5. Become(w, q) /\ UNCHANGED <<nItems, nRuns>> BY <2>1, <2>2 DEF q
    <3>. QED BY <3>4, <3>5, <1>0, SameTables
  <2>. QED
    BY <2>1, <2>3, <1>a, <1>0 DEF TypeInv, TypeOK, SourcesOK, IdentityOK, PreviewsOK, RunsOK,
       ItemsOK, ClaimsOK, ReceiptsOK, ItemIds, RunIds, IdentityRow, EntryRow,
       RunRow, ItemRow, ClaimRow, ReceiptRow, Actions, RunStatuses, ItemStatuses
<1>7. ASSUME NEW w \in Workers, ConfirmRecovery(w) PROVE TypeInv'
  <2>1. UNCHANGED <<local, identity, previews, nRuns, runs, nItems, items, claims,
                    remote, crashes>>
    BY <1>7 DEF ConfirmRecovery, rows
  <2>2. PICK c \in Correlations, S \in SUBSET (1..nItems) :
          /\ receipts' = Set(receipts, c, [status |-> "pending", targets |-> S])
          /\ Become(w, Arrived("recovery", 0, {c}, S))
    BY <1>7 DEF ConfirmRecovery, LatestFailed, ItemIds
  <2>3. RequestsFit'
    <3>. DEFINE q == Arrived("recovery", 0, {c}, S)
    <3>1. {c} \in SUBSET Correlations /\ 0 \in 0..nRuns BY <1>0
    <3>4. Fits(q, nItems, nRuns) BY <3>1, <1>0, ArrivalFits
    <3>. HIDE DEF q
    <3>5. Become(w, q) /\ UNCHANGED <<nItems, nRuns>> BY <2>1, <2>2 DEF q
    <3>. QED BY <3>4, <3>5, <1>0, SameTables
  <2>4. ReceiptsOK'
    <3>. DEFINE v == [status |-> "pending", targets |-> S]
    <3>1. v \in ReceiptRow /\ v.targets \subseteq 1..nItems
      BY DEF ReceiptRow
    <3>. HIDE DEF v
    <3>2. receipts' = Set(receipts, c, v) BY <2>2 DEF v
    <3>. QED BY <3>1, <3>2, <2>1, <1>0 DEF TypeOK, ReceiptsOK, ReceiptRow, ItemIds, Set
  <2>. QED
    BY <2>1, <2>3, <2>4, <1>a, <1>0 DEF TypeInv, TypeOK, SourcesOK, IdentityOK, PreviewsOK,
       RunsOK, ItemsOK, ClaimsOK, ItemIds, RunIds, IdentityRow, EntryRow,
       RunRow, ItemRow, ClaimRow, Actions, RunStatuses, ItemStatuses
<1>8. ASSUME NEW w \in Workers, Step(w) PROVE TypeInv'
  BY <1>8, StepFits, StepTables DEF TypeInv
<1>9. ASSUME NEW w \in Workers, Crash(w) PROVE TypeInv'
  <2>1. UNCHANGED <<local, identity, previews, nRuns, runs, nItems, items, receipts, remote>>
    BY <1>9 DEF Crash, rows
  <2>2. /\ Become(w, Idle)
        /\ claims' = [r \in DOMAIN claims |->
             IF claims[r].owner = w THEN [claims[r] EXCEPT !.owner = NoWorker]
             ELSE claims[r]]
        /\ crashes' = crashes + 1
    BY <1>9 DEF Crash
  <2>3. RequestsFit' BY <2>1, <2>2, <1>0, IdleFits, SameTables
  <2>4. ClaimsOK' BY <2>1, <2>2, <1>0 DEF TypeOK, ClaimsOK, ClaimRow, ItemIds
  <2>5. crashes' \in Nat BY <2>2, <1>0 DEF TypeOK
  <2>. QED
    BY <2>1, <2>3, <2>4, <2>5, <1>a, <1>0 DEF TypeInv, TypeOK, SourcesOK, IdentityOK,
       PreviewsOK, RunsOK, ItemsOK, ReceiptsOK, ItemIds, RunIds, IdentityRow, EntryRow,
       RunRow, ItemRow, ReceiptRow, Actions, RunStatuses, ItemStatuses
<1>. QED
  BY <1>1, <1>2, <1>3, <1>4, <1>5, <1>6, <1>7, <1>8, <1>9 DEF Next

\* The rows, and the item and record numbers that requests, claims and receipts
\* carry, stay those of the models whatever requests do to each other.
THEOREM TypeCorrect == Spec => []TypeOK
<1>1. Spec => []TypeInv BY InitType, NextType, PTL DEF Spec
<1>2. TypeInv => TypeOK BY DEF TypeInv
<1>. QED BY <1>1, <1>2, PTL

-----------------------------------------------------------------------------
(* Claims.  Who holds the claim of a record, what the status of its item is *)
(* at each point of the request, and that the two survive every step of     *)
(* every other request.                                                     *)

\* The status of the item a request works on, by program counter.
HeldStatus(w) ==
    /\ workers[w].pc = "check" => Row(w).status # "running"
    /\ workers[w].pc = "start" => Row(w).status \in {"pending", "failed"}
    /\ workers[w].pc \in {"call", "reconcile", "finish"} => Row(w).status = "running"
    /\ \/ workers[w].pc \in {"record", "release"}
       \/ workers[w].pc \in {"readItems", "readRun", "writeRun"} /\ workers[w].item # 0
       => Row(w).status \in Settled \cup {"failed"}

\* Nobody else sends the record between the eligibility check and the call.
Newest(w) ==
    workers[w].pc \in {"start", "call"} =>
        \A j \in ItemIds :
            items[j].rec = Rec(w) /\ items[j].attempts > 0 => j <= workers[w].item

\* A claim is filed under the record of its item.
ClaimsMatch == \A r \in DOMAIN claims : items[claims[r].item].rec = r

\* An item that has moved has a version.
MovedItems == \A i \in ItemIds : items[i].status # "pending" => items[i].version # 0

ClaimInv ==
    /\ WriterHoldsTheClaim
    /\ RunningItemIsGuarded
    /\ \A w \in Workers : HeldStatus(w)
    /\ \A w \in Workers : Newest(w)
    /\ ClaimsMatch
    /\ MovedItems

\* How the program counter of a request that keeps its item advances.
Flow ==
    { <<"check", "start">>, <<"start", "readItems">>, <<"start", "call">>,
      <<"call", "call">>, <<"call", "reconcile">>, <<"call", "finish">>,
      <<"reconcile", "finish">>, <<"finish", "record">>, <<"record", "readItems">>,
      <<"readItems", "readRun">>, <<"next", "readRun">>, <<"readRun", "writeRun">>,
      <<"readRun", "release">>, <<"writeRun", "release">> }

Parked == {"idle", "next", "receipt", "count", "blocked"}

\* A step takes a claim, or parks the request, or follows the flow.
Follows(w) ==
    /\ workers'[w].item = workers[w].item
    /\ <<workers[w].pc, workers'[w].pc>> \in Flow
    /\ workers[w].pc = "next" => workers[w].item = 0
    /\ workers[w].pc \in {"readRun", "writeRun"} /\ workers'[w].pc = "release" =>
         workers[w].item # 0
    /\ workers[w].pc = "check" => Eligible(workers[w].item)
    /\ UNCHANGED claims

LEMMA Others ==
    ASSUME TypeInv, NEW w \in Workers, NEW q, Become(w, q)
    PROVE  /\ workers'[w] = q
           /\ \A v \in Workers \ {w} : workers'[v] = workers[v]
BY DEF TypeInv, RequestsFit, Become

LEMMA ParkedAfter ==
    ASSUME TypeInv, NEW w \in Workers
    PROVE  /\ AfterRaise(w).pc \in Parked /\ Idle.pc \in Parked
           /\ AtLoop(w).pc \in Parked
           /\ [AtLoop(w) EXCEPT !.someBad = TRUE].pc \in Parked
           /\ [AtLoop(w) EXCEPT !.someOk = TRUE].pc \in Parked
<1>1. workers[w] \in WorkerRow BY DEF TypeInv, RequestsFit
<1>2. AtLoop(w) \in WorkerRow /\ AtLoop(w).pc = "next" BY <1>1, LoopHead
<1>3. [AtLoop(w) EXCEPT !.pc = "receipt", !.outcome = "ambiguous"].pc = "receipt"
  BY <1>2 DEF WorkerRow
<1>4. Idle.pc = "idle" BY DEF Idle
<1>5. AfterRaise(w).pc \in {"receipt", "idle"} BY <1>3, <1>4 DEF AfterRaise
<1>6. /\ [AtLoop(w) EXCEPT !.someBad = TRUE].pc = "next"
      /\ [AtLoop(w) EXCEPT !.someOk = TRUE].pc = "next"
  BY <1>2 DEF WorkerRow
<1>. QED BY <1>2, <1>4, <1>5, <1>6 DEF Parked

LEMMA StepFlow ==
    ASSUME TypeInv, NEW w \in Workers, Step(w)
    PROVE  /\ \A v \in Workers \ {w} : workers'[v] = workers[v]
           /\ TakesClaim(w) \/ workers'[w].pc \in Parked \/ Follows(w)
<1>. DEFINE q == workers[w]
            Goal == /\ \A v \in Workers \ {w} : workers'[v] = workers[v]
                    /\ TakesClaim(w) \/ workers'[w].pc \in Parked \/ Follows(w)
<1>1. q \in WorkerRow /\ Fits(q, nItems, nRuns) BY DEF TypeInv, RequestsFit
<1>a. ASSUME NEW p, Become(w, p), p.pc \in Parked PROVE Goal
  BY <1>a, Others
<1>b. CASE Raise(w) BY <1>b, <1>a, ParkedAfter DEF Raise
<1>c. ASSUME NEW p, Become(w, p), p.item = q.item, <<q.pc, p.pc>> \in Flow,
             q.pc \notin {"next", "check", "readRun", "writeRun"}, UNCHANGED claims
      PROVE Goal
  BY <1>c, Others DEF Follows
<1>2. CASE Claim(w)
  <2>1. CASE TakesClaim(w) BY <2>1, Others DEF TakesClaim
  <2>2. CASE ~TakesClaim(w)
    <3>1. PICK i \in q.queue :
            Become(w, [[q EXCEPT !.item = i, !.queue = @ \ {i}] EXCEPT !.pc = "blocked"])
      BY <2>2, <1>2 DEF Claim, TakesClaim, ClaimIsFree, rows
    <3>2. [[q EXCEPT !.item = i, !.queue = @ \ {i}] EXCEPT !.pc = "blocked"].pc = "blocked"
      BY <1>1 DEF WorkerRow
    <3>. QED BY <3>1, <3>2, <1>a DEF Parked
  <2>. QED BY <2>1, <2>2
<1>3. CASE Blocked(w)
  <2>1. PICK p \in {AfterRaise(w), Idle, [AtLoop(w) EXCEPT !.someBad = TRUE]} : Become(w, p)
    BY <1>3 DEF Blocked
  <2>. QED BY <2>1, <1>a, ParkedAfter
<1>4. CASE Check(w)
  <2>1. CASE Become(w, AfterRaise(w)) BY <2>1, <1>a, ParkedAfter
  <2>2. CASE ~Become(w, AfterRaise(w))
    <3>. DEFINE v == Row(w).version
                p == [q EXCEPT !.pc = "start", !.version = v]
    <3>1. Become(w, p) /\ UNCHANGED claims /\ Eligible(q.item) /\ q.pc = "check"
      BY <2>2, <1>4 DEF Check
    <3>. HIDE DEF v
    <3>2. p.pc = "start" /\ p.item = q.item BY <1>1 DEF WorkerRow
    <3>. HIDE DEF p
    <3>. QED BY <3>1, <3>2, Others DEF Follows, Flow
  <2>. QED BY <2>1, <2>2
<1>5. CASE ClientFails(w) BY <1>5, <1>b DEF ClientFails
<1>6. CASE Start(w)
  <2>1. CASE Raise(w) BY <2>1, <1>b
  <2>2. CASE ~Raise(w)
    <3>. DEFINE v == q.version + 1
                p(pc) == [q EXCEPT !.pc = pc, !.version = v]
    <3>1. PICK pc \in {"readItems", "call"} :
            Become(w, p(pc)) /\ UNCHANGED claims /\ q.pc = "start"
      BY <2>2, <1>6 DEF Start
    <3>. HIDE DEF v
    <3>2. p(pc).pc = pc /\ p(pc).item = q.item BY <1>1 DEF WorkerRow
    <3>3. <<q.pc, pc>> \in Flow BY <3>1 DEF Flow
    <3>. QED BY <3>1, <3>2, <3>3, <1>c
  <2>. QED BY <2>1, <2>2
<1>7. CASE Accepted(w)
  <2>. DEFINE p == [q EXCEPT !.pc = "finish", !.outcome = "succeeded"]
  <2>1. Become(w, p) /\ UNCHANGED claims /\ q.pc = "call" BY <1>7 DEF Accepted
  <2>2. p.pc = "finish" /\ p.item = q.item BY <1>1 DEF WorkerRow
  <2>. HIDE DEF p
  <2>. QED BY <2>1, <2>2, <1>c DEF Flow
<1>8. CASE AnsweredDuplicate(w)
  <2>. DEFINE p == [q EXCEPT !.pc = "reconcile"]
  <2>1. Become(w, p) /\ UNCHANGED claims /\ q.pc = "call"
    BY <1>8 DEF AnsweredDuplicate, Goto
  <2>2. p.pc = "reconcile" /\ p.item = q.item BY <1>1 DEF WorkerRow
  <2>. HIDE DEF p
  <2>. QED BY <2>1, <2>2, <1>c DEF Flow
<1>9. CASE Rejected(w)
  <2>. DEFINE p == [q EXCEPT !.pc = "finish", !.outcome = "failed"]
  <2>1. Become(w, p) /\ UNCHANGED claims /\ q.pc = "call" BY <1>9 DEF Rejected
  <2>2. p.pc = "finish" /\ p.item = q.item BY <1>1 DEF WorkerRow
  <2>. HIDE DEF p
  <2>. QED BY <2>1, <2>2, <1>c DEF Flow
<1>10. CASE ServerError(w)
  <2>. DEFINE t  == q.tries + 1
              p1 == [q EXCEPT !.tries = t]
              p2 == [q EXCEPT !.pc = "finish", !.outcome = "failed"]
  <2>1. PICK p \in {p1, p2} : Become(w, p) /\ UNCHANGED claims /\ q.pc = "call"
    BY <1>10 DEF ServerError
  <2>. HIDE DEF t
  <2>2. p1.pc = q.pc /\ p1.item = q.item BY <1>1 DEF WorkerRow
  <2>3. p2.pc = "finish" /\ p2.item = q.item BY <1>1 DEF WorkerRow
  <2>4. p.item = q.item /\ p.pc \in {q.pc, "finish"} BY <2>1, <2>2, <2>3
  <2>. HIDE DEF p1, p2
  <2>. QED BY <2>1, <2>4, <1>c DEF Flow
<1>11. CASE ConnectionBreaks(w) BY <1>11, <1>b DEF ConnectionBreaks
<1>12. CASE Reconcile(w)
  <2>1. CASE Raise(w) BY <2>1, <1>b
  <2>2. CASE ~Raise(w)
    <3>. DEFINE p == [q EXCEPT !.pc = "finish", !.outcome = "reconciled"]
    <3>1. Become(w, p) /\ UNCHANGED claims /\ q.pc = "reconcile"
      BY <2>2, <1>12 DEF Reconcile
    <3>2. p.pc = "finish" /\ p.item = q.item BY <1>1 DEF WorkerRow
    <3>. HIDE DEF p
    <3>. QED BY <3>1, <3>2, <1>c DEF Flow
  <2>. QED BY <2>1, <2>2
<1>13. CASE Finish(w)
  <2>1. CASE Raise(w) BY <2>1, <1>b
  <2>2. CASE ~Raise(w)
    <3>. DEFINE v == q.version + 1
                p == [q EXCEPT !.pc = "record", !.version = v]
    <3>1. Become(w, p) /\ UNCHANGED claims /\ q.pc = "finish"
      BY <2>2, <1>13 DEF Finish
    <3>. HIDE DEF v
    <3>2. p.pc = "record" /\ p.item = q.item BY <1>1 DEF WorkerRow
    <3>. HIDE DEF p
    <3>. QED BY <3>1, <3>2, <1>c DEF Flow
  <2>. QED BY <2>1, <2>2
<1>14. CASE Record(w)
  <2>. DEFINE p == [q EXCEPT !.pc = "readItems"]
  <2>1. Become(w, p) /\ UNCHANGED claims /\ q.pc = "record"
    BY <1>14 DEF Record, Goto
  <2>2. p.pc = "readItems" /\ p.item = q.item BY <1>1 DEF WorkerRow
  <2>. HIDE DEF p
  <2>. QED BY <2>1, <2>2, <1>c DEF Flow
<1>15. CASE ReadItems(w)
  <2>. DEFINE t == RunTarget(RunOf(w))
              p == [q EXCEPT !.pc = "readRun", !.target = t]
  <2>1. Become(w, p) /\ UNCHANGED claims /\ q.pc \in {"readItems", "next"}
    BY <1>15 DEF ReadItems
  <2>. HIDE DEF t
  <2>2. p.pc = "readRun" /\ p.item = q.item BY <1>1 DEF WorkerRow
  <2>. HIDE DEF p
  <2>3. q.pc = "next" => q.item = 0 BY <1>1 DEF Fits
  <2>4. <<q.pc, "readRun">> \in Flow BY <2>1 DEF Flow
  <2>. QED BY <2>1, <2>2, <2>3, <2>4, Others DEF Follows
<1>16. CASE ReadRun(w)
  <2>. DEFINE v == runs[RunOf(w)].version
              p1 == [q EXCEPT !.pc = "writeRun", !.runVersion = v]
              p2 == [q EXCEPT !.pc = "release"]
  <2>1. PICK p \in {AfterRefresh(w), p1} : Become(w, p) /\ UNCHANGED claims
    BY <1>16 DEF ReadRun
  <2>. HIDE DEF v
  <2>2. p1.pc = "writeRun" /\ p1.item = q.item BY <1>1 DEF WorkerRow
  <2>3. p2.pc = "release" /\ p2.item = q.item BY <1>1 DEF WorkerRow
  <2>4. \/ p.pc \in Parked
        \/ p.item = q.item /\ p.pc = "writeRun"
        \/ p.item = q.item /\ p.pc = "release" /\ q.item # 0
    BY <2>1, <2>2, <2>3, ParkedAfter DEF AfterRefresh
  <2>5. q.pc = "readRun" BY <1>16 DEF ReadRun
  <2>. QED BY <2>1, <2>4, <2>5, <1>a, Others DEF Follows, Flow
<1>17. CASE WriteRun(w)
  <2>1. CASE Raise(w) BY <2>1, <1>b
  <2>2. CASE ~Raise(w)
    <3>1. PICK p \in {AfterRefresh(w), Idle} : Become(w, p) /\ UNCHANGED claims
      BY <2>2, <1>17 DEF WriteRun
    <3>2. [q EXCEPT !.pc = "release"].pc = "release"
          /\ [q EXCEPT !.pc = "release"].item = q.item
      BY <1>1 DEF WorkerRow
    <3>3. \/ p.pc \in Parked
          \/ p.item = q.item /\ p.pc = "release" /\ q.item # 0
      BY <3>1, <3>2, ParkedAfter DEF AfterRefresh
    <3>4. q.pc = "writeRun" BY <1>17 DEF WriteRun
    <3>. QED BY <3>1, <3>3, <3>4, <1>a, Others DEF Follows, Flow
  <2>. QED BY <2>1, <2>2
<1>18. CASE Release(w)
  <2>1. PICK p \in {[q EXCEPT !.pc = "count"], Idle, AtLoop(w)} : Become(w, p)
    BY <1>18 DEF Release
  <2>2. [q EXCEPT !.pc = "count"].pc = "count" BY <1>1 DEF WorkerRow
  <2>3. p.pc \in Parked BY <2>1, <2>2, ParkedAfter DEF Parked
  <2>. QED BY <2>1, <2>3, <1>a
<1>19. CASE Count(w)
  <2>1. PICK p \in {[AtLoop(w) EXCEPT !.someOk = TRUE], [AtLoop(w) EXCEPT !.someBad = TRUE]} :
          Become(w, p)
    BY <1>19 DEF Count
  <2>. QED BY <2>1, <1>a, ParkedAfter
<1>20. CASE FinishReceipt(w) BY <1>20, <1>a, ParkedAfter DEF FinishReceipt
<1>. QED
  BY <1>2, <1>3, <1>4, <1>5, <1>6, <1>7, <1>8, <1>9, <1>10, <1>11, <1>12, <1>13,
     <1>14, <1>15, <1>16, <1>17, <1>18, <1>19, <1>20 DEF Step

HoldingPcs == {"check", "start", "call", "reconcile", "finish", "record", "release",
               "readItems", "readRun", "writeRun"}

\* A request that holds a claim has an item, and two of them have different
\* items of different records.
LEMMA Exclusive ==
    ASSUME TypeInv, ClaimInv
    PROVE  /\ \A w \in Workers : Holding(w) =>
                /\ workers[w].item \in 1..nItems /\ Rec(w) \in Records
                /\ workers[w].pc \in HoldingPcs
           /\ \A v, w \in Workers : v # w /\ Holding(v) /\ Holding(w) =>
                /\ workers[v].item # workers[w].item
                /\ Rec(v) # Rec(w)
<1>1. ASSUME NEW w \in Workers, Holding(w)
      PROVE  /\ workers[w].item \in 1..nItems /\ Rec(w) \in Records
             /\ workers[w].pc \in HoldingPcs
  <2>1. Fits(workers[w], nItems, nRuns) /\ nItems \in Nat
    BY DEF TypeInv, RequestsFit, TypeOK, ItemsOK
  <2>2. workers[w].pc \in HoldingPcs /\ workers[w].item # 0
    BY <1>1, <2>1 DEF Holding, HoldingPcs, Fits, AtItem
  <2>3. workers[w].item \in 1..nItems BY <2>1, <2>2 DEF Fits
  <2>. QED BY <2>2, <2>3 DEF TypeInv, TypeOK, ItemsOK, ItemIds, ItemRow, Rec, Row
<1>2. ASSUME NEW v \in Workers, NEW w \in Workers, v # w, Holding(v), Holding(w)
      PROVE  workers[v].item # workers[w].item /\ Rec(v) # Rec(w)
  <2>1. /\ claims[Rec(v)] = [item |-> workers[v].item, status |-> "in_progress", owner |-> v]
        /\ claims[Rec(w)] = [item |-> workers[w].item, status |-> "in_progress", owner |-> w]
    BY <1>2 DEF ClaimInv, WriterHoldsTheClaim
  <2>2. Rec(v) # Rec(w) BY <2>1, <1>2
  <2>. QED BY <2>2 DEF Rec, Row
<1>. QED BY <1>1, <1>2

LEMMA HeldClaim ==
    ASSUME ClaimInv, NEW w \in Workers, Holding(w)
    PROVE  /\ Rec(w) \in DOMAIN claims
           /\ claims[Rec(w)].item = workers[w].item
           /\ claims[Rec(w)].status = "in_progress" /\ claims[Rec(w)].owner = w
<1>. DEFINE c == claims[Rec(w)]
<1>1. /\ Rec(w) \in DOMAIN claims
      /\ c = [item |-> workers[w].item, status |-> "in_progress", owner |-> w]
  BY DEF ClaimInv, WriterHoldsTheClaim
<1>. HIDE DEF c
<1>2. c.item = workers[w].item /\ c.status = "in_progress" /\ c.owner = w BY <1>1
<1>. QED BY <1>1, <1>2 DEF c

\* What a step does to the items, for the sake of the claims.
LEMMA StepRows ==
    ASSUME TypeInv, NEW w \in Workers, Step(w)
    PROVE  /\ nItems' = nItems
           /\ \A i \in 1..nItems : items'[i].rec = items[i].rec
           /\ \A i \in 1..nItems :
                items'[i] # items[i] =>
                  /\ i = workers[w].item
                  /\ workers[w].pc \in {"blocked", "start", "finish"}
                  /\ \E row : ItemMove(w, row) /\ items'[i] = row
<1>1. nItems' = nItems BY StepFrame
<1>2. CASE UNCHANGED items BY <1>1, <1>2
<1>3. ASSUME NEW row, ItemMove(w, row)
      PROVE  /\ \A i \in 1..nItems : items'[i].rec = items[i].rec
             /\ \A i \in 1..nItems :
                items'[i] # items[i] =>
                  /\ i = workers[w].item
                  /\ workers[w].pc \in {"blocked", "start", "finish"}
                  /\ items'[i] = row
  <2>1. workers[w].pc \in {"blocked", "start", "finish"}
    BY <1>3 DEF ItemMove, Blocked, Start, Finish
  <2>2. workers[w].item \in 1..nItems BY <2>1, RowType DEF AtItem
  <2>3. /\ items' = [items EXCEPT ![workers[w].item] = row]
        /\ row.rec = items[workers[w].item].rec
    BY <1>3 DEF ItemMove, Row
  <2>4. items \in [1..nItems -> ItemRow] BY DEF TypeInv, TypeOK, ItemsOK, ItemIds
  <2>. QED BY <2>1, <2>2, <2>3, <2>4
<1>. QED BY <1>1, <1>2, <1>3, StepItems

\* A request keeps its claim while others step.
LEMMA OthersKeepClaims ==
    ASSUME TypeInv, ClaimInv, NEW w \in Workers, Step(w),
           NEW v \in Workers \ {w}, Holding(v)
    PROVE  /\ Rec(v) \in DOMAIN claims' /\ claims'[Rec(v)] = claims[Rec(v)]
           /\ Rec(v)' = Rec(v) /\ workers'[v] = workers[v]
<1>1. workers'[v] = workers[v] BY StepFlow
<1>2. Rec(v) \in DOMAIN claims BY DEF ClaimInv, WriterHoldsTheClaim
<1>3. workers[v].item \in 1..nItems BY Exclusive
<1>4. Rec(v)' = Rec(v) BY <1>1, <1>3, StepRows DEF Rec, Row
<1>5. Holding(w) => Rec(v) # Rec(w) BY Exclusive
<1>6. Rec(v) \in DOMAIN claims' /\ claims'[Rec(v)] = claims[Rec(v)]
  <2>1. CASE UNCHANGED claims BY <2>1, <1>2
  <2>2. CASE TakesClaim(w) BY <2>2, <1>2 DEF TakesClaim, Set
  <2>3. CASE (Check(w) \/ Release(w)) /\ claims' = Drop(claims, Rec(w))
    <3>1. Holding(w) BY <2>3 DEF Check, Release, Holding
    <3>. QED BY <3>1, <2>3, <1>2, <1>5 DEF Drop
  <2>4. CASE /\ Raise(w)
             /\ workers[w].pc \in {"start", "call", "reconcile", "finish", "writeRun"}
             /\ workers[w].pc = "writeRun" => workers[w].item # 0
    <3>1. Holding(w) BY <2>4 DEF Holding
    <3>. QED BY <3>1, <2>4, <1>2, <1>5 DEF Raise
  <2>. QED BY <2>1, <2>2, <2>3, <2>4, StepClaims
<1>. QED BY <1>1, <1>4, <1>6

LEMMA StepWriterHolds ==
    ASSUME TypeInv, ClaimInv, NEW w \in Workers, Step(w)
    PROVE  WriterHoldsTheClaim'
<1>. SUFFICES ASSUME NEW v \in Workers, Holding(v)'
              PROVE  /\ Rec(v)' \in DOMAIN claims'
                     /\ claims'[Rec(v)'] = [item |-> workers'[v].item,
                                            status |-> "in_progress", owner |-> v]
  BY DEF WriterHoldsTheClaim
<1>1. CASE v # w
  <2>1. workers'[v] = workers[v] BY <1>1, StepFlow
  <2>2. Holding(v) BY <2>1 DEF Holding
  <2>. QED BY <1>1, <2>1, <2>2, OthersKeepClaims DEF ClaimInv, WriterHoldsTheClaim
<1>2. CASE v = w
  <2>1. workers'[w].pc \notin Parked BY <1>2 DEF Holding, Parked
  <2>2. CASE TakesClaim(w)
    <3>1. PICK i \in workers[w].queue :
            /\ claims' = Set(claims, items[i].rec,
                        [item |-> i, status |-> "in_progress", owner |-> w])
            /\ Become(w, [[workers[w] EXCEPT !.item = i, !.queue = @ \ {i}]
                        EXCEPT !.pc = "check"])
            /\ UNCHANGED items
      BY <2>2 DEF TakesClaim
    <3>2. workers[w] \in WorkerRow BY DEF TypeInv, RequestsFit
    <3>3. workers'[w] = [[workers[w] EXCEPT !.item = i, !.queue = @ \ {i}] EXCEPT !.pc = "check"]
      BY <3>1, Others
    <3>4. workers'[w].item = i BY <3>2, <3>3 DEF WorkerRow
    <3>5. Rec(w)' = items[i].rec BY <3>1, <3>4 DEF Rec, Row
    <3>. QED BY <1>2, <3>1, <3>4, <3>5 DEF Set
  <2>3. CASE Follows(w)
    <3>1. Holding(w)
      BY <1>2, <2>3 DEF Follows, Flow, Holding
    <3>2. workers'[w].item = workers[w].item /\ UNCHANGED claims BY <2>3 DEF Follows
    <3>3. workers[w].item \in 1..nItems BY <3>1, Exclusive
    <3>4. Rec(w)' = Rec(w) BY <3>2, <3>3, StepRows DEF Rec, Row
    <3>. QED BY <1>2, <3>1, <3>2, <3>4 DEF ClaimInv, WriterHoldsTheClaim
  <2>. QED BY <2>1, <2>2, <2>3, StepFlow
<1>. QED BY <1>1, <1>2

\* The row of an item other than the stepping request's is its own business;
\* a refused claim moves at most a row that never moved before.
LEMMA OthersKeepRows ==
    ASSUME TypeInv, ClaimInv, NEW w \in Workers, Step(w),
           NEW v \in Workers \ {w}, Holding(v)
    PROVE  \/ Row(v)' = Row(v)
           \/ Row(v).status = "pending" /\ Row(v)'.status = "failed"
<1>1. workers'[v] = workers[v] BY StepFlow
<1>2. workers[v].item \in 1..nItems BY Exclusive
<1>3. Row(v)' = items'[workers[v].item] BY <1>1 DEF Row
<1>4. CASE items'[workers[v].item] # items[workers[v].item]
  <2>1. PICK row : /\ workers[v].item = workers[w].item
                   /\ workers[w].pc \in {"blocked", "start", "finish"}
                   /\ ItemMove(w, row) /\ items'[workers[v].item] = row
    BY <1>2, <1>4, StepRows
  <2>2. ~Holding(w) BY <2>1, Exclusive
  <2>3. workers[w].pc = "blocked" BY <2>1, <2>2 DEF Holding
  <2>4. /\ Row(w).status \in {"pending", "running"} /\ Row(w).version = 0
        /\ row.status = "failed"
    BY <2>1, <2>3 DEF ItemMove, Start, Finish
  <2>5. Row(w) = Row(v) BY <2>1 DEF Row
  <2>6. Row(w).status = "pending"
    BY <2>4, <2>5, <1>2 DEF ClaimInv, MovedItems, ItemIds, Row
  <2>. QED BY <1>3, <2>1, <2>4, <2>5, <2>6
<1>. QED BY <1>3, <1>4 DEF Row

LEMMA StepPcs ==
    ASSUME NEW w \in Workers, Step(w)
    PROVE  /\ workers[w].pc = "start" => Start(w) \/ ClientFails(w)
           /\ workers[w].pc = "finish" => Finish(w)
BY DEF Step, Claim, Blocked, Check, Accepted, AnsweredDuplicate, Rejected, ServerError,
       ConnectionBreaks, Reconcile, Record, ReadItems, ReadRun, WriteRun, Release,
       Count, FinishReceipt, Start, ClientFails, Finish

LEMMA StepHeld ==
    ASSUME TypeInv, ClaimInv, NEW w \in Workers, Step(w), NEW v \in Workers
    PROVE  HeldStatus(v)'
<1>1. CASE ~Holding(v)'
  BY <1>1 DEF HeldStatus, Holding
<1>2. CASE v # w /\ Holding(v)'
  <2>1. workers'[v] = workers[v] BY <1>2, StepFlow
  <2>2. Holding(v) BY <1>2, <2>1 DEF Holding
  <2>3. HeldStatus(v) BY DEF ClaimInv
  <2>4. \/ Row(v)' = Row(v)
        \/ Row(v).status = "pending" /\ Row(v)'.status = "failed"
    BY <1>2, <2>2, OthersKeepRows
  <2>. QED BY <2>1, <2>3, <2>4 DEF HeldStatus, Settled
<1>3. CASE v = w /\ Holding(w)'
  <2>1. workers'[w].pc \notin Parked BY <1>3 DEF Holding, Parked
  <2>2. CASE TakesClaim(w)
    <3>1. PICK i \in workers[w].queue :
            /\ items[i].rec \notin DOMAIN claims
            /\ Become(w, [[workers[w] EXCEPT !.item = i, !.queue = @ \ {i}]
                        EXCEPT !.pc = "check"])
            /\ UNCHANGED items
      BY <2>2 DEF TakesClaim
    <3>2. workers[w] \in WorkerRow /\ i \in 1..nItems
      BY DEF TypeInv, RequestsFit, Fits
    <3>3. workers'[w] = [[workers[w] EXCEPT !.item = i, !.queue = @ \ {i}] EXCEPT !.pc = "check"]
      BY <3>1, Others
    <3>4. workers'[w].item = i /\ workers'[w].pc = "check" BY <3>2, <3>3 DEF WorkerRow
    <3>5. items[i].status # "running"
      BY <3>1, <3>2 DEF ClaimInv, RunningItemIsGuarded, ItemIds
    <3>6. Row(w)'.status # "running" BY <3>1, <3>4, <3>5 DEF Row
    <3>. QED BY <1>3, <3>4, <3>6 DEF HeldStatus
  <2>3. CASE Follows(w)
    <3>1. /\ workers'[w].item = workers[w].item
          /\ <<workers[w].pc, workers'[w].pc>> \in Flow
          /\ HeldStatus(w) /\ Holding(w)
      BY <1>3, <2>3 DEF Follows, Flow, Holding, ClaimInv
    <3>2. workers[w].item \in 1..nItems BY <3>1, Exclusive
    <3>3. Row(w)' = items'[workers[w].item] /\ Row(w) = items[workers[w].item]
      BY <3>1 DEF Row
    <3>4. CASE Row(w)' = Row(w) /\ workers[w].pc \notin {"start", "finish"}
      <4>1. workers[w].pc = "check" => Row(w).status \in {"pending", "failed"}
        BY <2>3 DEF Follows, Eligible, Row
      <4>. DEFINE pc == workers[w].pc
                  pd == workers'[w].pc
                  st == Row(w).status
      <4>2. /\ <<pc, pd>> \in Flow /\ pc \notin {"start", "finish"}
            /\ pc = "next" => workers[w].item = 0
            /\ pc \in {"readRun", "writeRun"} /\ pd = "release" => workers[w].item # 0
        BY <3>1, <3>4, <2>3 DEF Follows
      <4>3. /\ pc \in {"call", "reconcile", "finish"} => st = "running"
            /\ pc \in {"record", "release"} => st \in Settled \cup {"failed"}
            /\ pc \in {"readItems", "readRun", "writeRun"} /\ workers[w].item # 0 =>
                 st \in Settled \cup {"failed"}
        BY <3>1 DEF HeldStatus
      <4>4. /\ pd = "check" => st # "running"
            /\ pd = "start" => st \in {"pending", "failed"}
            /\ pd \in {"call", "reconcile", "finish"} => st = "running"
            /\ pd \in {"record", "release"} => st \in Settled \cup {"failed"}
            /\ pd \in {"readItems", "readRun", "writeRun"} /\ workers[w].item # 0 =>
                 st \in Settled \cup {"failed"}
        <5>. HIDE DEF pc, pd, st
        <5>. QED BY <4>1, <4>2, <4>3 DEF Flow, pc, st
      <4>5. HeldStatus(w)' BY <3>1, <3>4, <4>4 DEF HeldStatus
      <4>. QED BY <1>3, <4>5
    <3>5. CASE workers[w].pc \in {"start", "finish"}
      <4>1. ~Raise(w)
        BY <2>1, ParkedAfter, Others DEF Raise
      <4>2. PICK row : ItemMove(w, row)
        BY <3>5, <4>1, StepItems, StepPcs DEF ClientFails
      <4>3. Row(w)' = row
        BY <3>2, <3>3, <4>2 DEF ItemMove, TypeInv, TypeOK, ItemsOK, ItemIds
      <4>4. \/ workers[w].pc = "start" /\ workers'[w].pc = "call" /\ row.status = "running"
            \/ workers[w].pc = "start" /\ workers'[w].pc = "readItems" /\ row.status = "noop"
            \/ /\ workers[w].pc = "finish" /\ workers'[w].pc = "record"
               /\ row.status = workers[w].outcome
        <5>1. workers[w] \in WorkerRow BY DEF TypeInv, RequestsFit
        <5>. DEFINE ver == workers[w].version + 1
                    q(pc) == [workers[w] EXCEPT !.pc = pc, !.version = ver]
        <5>2. \/ Start(w) /\ Become(w, q("call")) /\ row.status = "running"
              \/ Start(w) /\ Become(w, q("readItems")) /\ row.status = "noop"
              \/ Finish(w) /\ Become(w, q("record")) /\ row.status = workers[w].outcome
          BY <3>5, <4>1, <4>2 DEF ItemMove, Blocked
        <5>. HIDE DEF ver
        <5>3. ASSUME NEW pc PROVE q(pc).pc = pc BY <5>1 DEF WorkerRow
        <5>4. ASSUME NEW pc, Become(w, q(pc)) PROVE workers'[w].pc = pc
          BY <5>3, <5>4, Others
        <5>. HIDE DEF q
        <5>5. Start(w) => workers[w].pc = "start" BY DEF Start
        <5>6. Finish(w) => workers[w].pc = "finish" BY DEF Finish
        <5>. QED BY <5>2, <5>4, <5>5, <5>6
      <4>5. workers[w].pc = "finish" => workers[w].outcome \in {"succeeded", "failed", "reconciled"}
        BY DEF TypeInv, RequestsFit, Fits
      <4>. QED BY <1>3, <4>3, <4>4, <4>5, <3>1 DEF HeldStatus, Settled
    <3>6. CASE Row(w)' # Row(w) /\ workers[w].pc \notin {"start", "finish"}
      <4>1. workers[w].pc = "blocked" BY <3>2, <3>3, <3>6, StepRows
      <4>. QED BY <4>1, <3>1 DEF Holding
    <3>. QED BY <3>4, <3>5, <3>6
  <2>. QED BY <2>1, <2>2, <2>3, StepFlow
<1>. QED BY <1>1, <1>2, <1>3

\* Only the request that starts an item makes it one that was sent.
LEMMA SentBefore ==
    ASSUME TypeInv, NEW w \in Workers, Step(w),
           NEW j \in 1..nItems, items'[j].attempts > 0
    PROVE  items[j].attempts > 0 \/ (workers[w].pc = "start" /\ j = workers[w].item)
<1>1. CASE items'[j] # items[j]
  <2>1. PICK row : /\ j = workers[w].item
                   /\ workers[w].pc \in {"blocked", "start", "finish"}
                   /\ ItemMove(w, row) /\ items'[j] = row
    BY <1>1, StepRows
  <2>2. workers[w].pc # "start" => row.attempts = Row(w).attempts
    BY <2>1 DEF ItemMove, Start
  <2>. QED BY <2>1, <2>2 DEF Row
<1>. QED BY <1>1

LEMMA StepNewest ==
    ASSUME TypeInv, ClaimInv, NEW w \in Workers, Step(w), NEW v \in Workers
    PROVE  Newest(v)'
<1>. SUFFICES ASSUME workers'[v].pc \in {"start", "call"},
                     NEW j \in 1..nItems', items'[j].rec = Rec(v)', items'[j].attempts > 0
              PROVE  j <= workers'[v].item
  BY DEF Newest, ItemIds
<1>1. /\ j \in 1..nItems /\ items'[j].rec = items[j].rec /\ j \in Nat
      /\ items[j].attempts > 0 \/ (workers[w].pc = "start" /\ j = workers[w].item)
  BY StepRows, SentBefore DEF TypeInv, TypeOK, ItemsOK
<1>2. CASE v # w
  <2>1. workers'[v] = workers[v] /\ Holding(v) BY <1>2, StepFlow DEF Holding
  <2>2. Rec(v)' = Rec(v) BY <1>2, <2>1, OthersKeepClaims
  <2>3. workers[w].pc = "start" => Rec(v) # Rec(w)
    BY <1>2, <2>1, Exclusive DEF Holding
  <2>4. items[j].attempts > 0 BY <1>1, <2>2, <2>3 DEF Rec, Row
  <2>. QED BY <1>1, <2>1, <2>2, <2>4 DEF ClaimInv, Newest, ItemIds
<1>3. CASE v = w
  <2>1. workers'[w].pc \notin Parked BY <1>3 DEF Parked
  <2>2. CASE TakesClaim(w)
    <3>1. PICK i : Become(w, [[workers[w] EXCEPT !.item = i, !.queue = @ \ {i}]
                               EXCEPT !.pc = "check"])
      BY <2>2 DEF TakesClaim
    <3>2. workers[w] \in WorkerRow BY DEF TypeInv, RequestsFit
    <3>3. workers'[w] = [[workers[w] EXCEPT !.item = i, !.queue = @ \ {i}] EXCEPT !.pc = "check"]
      BY <3>1, Others
    <3>4. workers'[w].pc = "check" BY <3>2, <3>3 DEF WorkerRow
    <3>. QED BY <1>3, <3>4
  <2>3. CASE Follows(w)
    <3>1. /\ workers'[w].item = workers[w].item
          /\ workers[w].pc \in {"check", "start", "call"}
      BY <1>3, <2>3 DEF Follows, Flow
    <3>2. Holding(w) BY <3>1 DEF Holding
    <3>3. workers[w].item \in 1..nItems BY <3>2, Exclusive
    <3>4. Rec(w)' = Rec(w) BY <3>1, <3>3, StepRows DEF Rec, Row
    <3>5. CASE workers[w].pc = "check"
      <4>1. IsLatest(workers[w].item) BY <2>3, <3>5 DEF Follows, Eligible
      <4>. QED BY <1>1, <1>3, <3>1, <3>4, <4>1 DEF IsLatest, ItemIds, Rec, Row
    <3>6. CASE workers[w].pc \in {"start", "call"}
      <4>1. items[j].attempts > 0 => j <= workers[w].item
        BY <1>1, <1>3, <3>4, <3>6 DEF ClaimInv, Newest, ItemIds
      <4>. QED BY <1>1, <1>3, <3>1, <4>1
    <3>. QED BY <3>1, <3>5, <3>6
  <2>. QED BY <2>1, <2>2, <2>3, StepFlow
<1>. QED BY <1>2, <1>3

\* A claim that covers a running item survives the step.
LEMMA StepGuarded ==
    ASSUME TypeInv, ClaimInv, NEW w \in Workers, Step(w)
    PROVE  RunningItemIsGuarded'
<1>. SUFFICES ASSUME NEW i \in 1..nItems', items'[i].status = "running"
              PROVE  /\ items'[i].rec \in DOMAIN claims'
                     /\ claims'[items'[i].rec].item = i
  BY DEF RunningItemIsGuarded, ItemIds
<1>1. i \in 1..nItems /\ items'[i].rec = items[i].rec BY StepRows
<1>. DEFINE r == items[i].rec
<1>2. CASE items'[i] = items[i]
  <2>1. r \in DOMAIN claims /\ claims[r].item = i
    BY <1>1, <1>2 DEF ClaimInv, RunningItemIsGuarded, ItemIds
  <2>2. CASE UNCHANGED claims BY <2>1, <2>2, <1>1
  <2>3. CASE TakesClaim(w) BY <2>1, <2>3, <1>1 DEF TakesClaim, Set
  <2>4. CASE /\ \/ Check(w) \/ Release(w)
             /\ claims' = Drop(claims, Rec(w))
    <3>1. Holding(w) /\ workers[w].pc \in {"check", "release"}
      BY <2>4 DEF Check, Release, Holding
    <3>2. claims[Rec(w)].item = workers[w].item
      BY <3>1, HeldClaim
    <3>3. Row(w).status # "running" BY <3>1 DEF ClaimInv, HeldStatus, Settled
    <3>4. r # Rec(w) BY <1>2, <2>1, <3>2, <3>3 DEF Row
    <3>. QED BY <2>1, <2>4, <3>4, <1>1 DEF Drop
  <2>5. CASE Raise(w)
    <3>1. claims[r] \in ClaimRow BY <2>1 DEF TypeInv, TypeOK, ClaimsOK
    <3>2. r \in DOMAIN claims' /\ claims'[r].item = claims[r].item
      BY <2>1, <2>5, <3>1 DEF Raise, ClaimRow
    <3>. QED BY <2>1, <3>2, <1>1
  <2>. QED BY <2>2, <2>3, <2>4, <2>5, StepClaims
<1>3. CASE items'[i] # items[i]
  <2>1. PICK row : /\ i = workers[w].item /\ ItemMove(w, row) /\ items'[i] = row
                   /\ workers[w].pc \in {"blocked", "start", "finish"}
    BY <1>1, <1>3, StepRows
  <2>2. workers[w].pc = "start" => Holding(w) /\ Row(w).status # "running"
    BY DEF ClaimInv, HeldStatus, Holding
  <2>3. workers[w].pc = "finish" => workers[w].outcome # "running"
    BY DEF TypeInv, RequestsFit, Fits
  <2>4. workers[w].pc = "start" /\ UNCHANGED claims
    BY <2>1, <2>2, <2>3 DEF ItemMove, Blocked, Start, Finish
  <2>5. Rec(w) \in DOMAIN claims /\ claims[Rec(w)].item = i /\ Rec(w) = r
    BY <2>1, <2>2, <2>4, HeldClaim DEF Rec, Row
  <2>. QED BY <1>1, <2>4, <2>5
<1>. QED BY <1>2, <1>3

LEMMA StepMatch ==
    ASSUME TypeInv, ClaimInv, NEW w \in Workers, Step(w)
    PROVE  ClaimsMatch' /\ MovedItems'
<1>0. nItems' = nItems /\ \A i \in 1..nItems : items'[i].rec = items[i].rec
  BY StepRows
<1>1. ASSUME NEW r \in DOMAIN claims'
      PROVE  items'[claims'[r].item].rec = r
  <2>1. ASSUME r \in DOMAIN claims, claims'[r].item = claims[r].item
        PROVE items'[claims'[r].item].rec = r
    <3>1. claims[r].item \in 1..nItems
      BY <2>1 DEF TypeInv, TypeOK, ClaimsOK, ItemIds
    <3>. QED BY <2>1, <3>1, <1>0 DEF ClaimInv, ClaimsMatch
  <2>2. CASE UNCHANGED claims BY <2>1, <2>2
  <2>3. CASE TakesClaim(w)
    <3>1. PICK i \in workers[w].queue :
            claims' = Set(claims, items[i].rec,
                        [item |-> i, status |-> "in_progress", owner |-> w])
      BY <2>3 DEF TakesClaim
    <3>2. i \in 1..nItems BY DEF TypeInv, RequestsFit, Fits
    <3>3. CASE r = items[i].rec BY <3>1, <3>2, <3>3, <1>0 DEF Set
    <3>4. CASE r # items[i].rec BY <3>1, <3>4, <2>1 DEF Set
    <3>. QED BY <3>3, <3>4
  <2>4. CASE claims' = Drop(claims, Rec(w)) BY <2>1, <2>4 DEF Drop
  <2>5. CASE Raise(w)
    <3>1. r \in DOMAIN claims BY <2>5 DEF Raise
    <3>2. claims[r] \in ClaimRow BY <3>1 DEF TypeInv, TypeOK, ClaimsOK
    <3>3. claims'[r].item = claims[r].item BY <2>5, <3>1, <3>2 DEF Raise, ClaimRow
    <3>. QED BY <2>1, <3>1, <3>3
  <2>. QED BY <2>2, <2>3, <2>4, <2>5, StepClaims
<1>2. ASSUME NEW i \in 1..nItems, items'[i].status # "pending"
      PROVE  items'[i].version # 0
  <2>1. CASE items'[i] # items[i]
    <3>1. PICK row : /\ i = workers[w].item /\ ItemMove(w, row) /\ items'[i] = row
      BY <2>1, StepRows
    <3>2. Row(w) = items[i] /\ items[i].version \in Nat
      BY <3>1 DEF Row, TypeInv, TypeOK, ItemsOK, ItemIds, ItemRow
    <3>3. \/ row.version = items[i].version + 1
          \/ row.version = items[i].version /\ row.status = items[i].status
      BY <3>1, <3>2 DEF ItemMove
    <3>. QED BY <1>2, <3>1, <3>2, <3>3 DEF ClaimInv, MovedItems, ItemIds
  <2>. QED BY <1>2, <2>1 DEF ClaimInv, MovedItems, ItemIds
<1>. QED BY <1>0, <1>1, <1>2 DEF ClaimsMatch, MovedItems, ItemIds

\* A request arrives, or the request is gone; new items have not moved.
LEMMA ArrivalClaims ==
    ASSUME TypeInv, ClaimInv, NEW w \in Workers, NEW q, Become(w, q),
           q.pc \in {"next", "idle"}, UNCHANGED claims,
           nItems' \in Nat, nItems <= nItems',
           \A i \in 1..nItems : items'[i] = items[i],
           \A i \in nItems + 1..nItems' :
               /\ items'[i].status = "pending" /\ items'[i].version = 0
               /\ items'[i].attempts = 0
    PROVE  ClaimInv'
<1>0. nItems \in Nat BY DEF TypeInv, TypeOK, ItemsOK
<1>1. ASSUME NEW v \in Workers, workers'[v].pc \notin {"next", "idle"}
      PROVE  workers'[v] = workers[v]
  BY <1>1, Others
<1>2. ASSUME NEW v \in Workers, Holding(v)'
      PROVE  /\ workers'[v] = workers[v] /\ Holding(v) /\ Row(v)' = Row(v)
  <2>1. workers'[v] = workers[v] BY <1>1, <1>2 DEF Holding
  <2>2. Holding(v) BY <1>2, <2>1 DEF Holding
  <2>3. workers[v].item \in 1..nItems BY <2>2, Exclusive
  <2>. QED BY <2>1, <2>2, <2>3 DEF Row
<1>3. WriterHoldsTheClaim' BY <1>2 DEF ClaimInv, WriterHoldsTheClaim, Rec
<1>4. RunningItemIsGuarded'
  <2>1. ASSUME NEW i \in 1..nItems', items'[i].status = "running"
        PROVE  i \in 1..nItems /\ items'[i] = items[i]
    BY <2>1, <1>0
  <2>. QED BY <2>1 DEF ClaimInv, RunningItemIsGuarded, ItemIds
<1>5. ASSUME NEW v \in Workers PROVE HeldStatus(v)'
  <2>1. CASE Holding(v)' BY <2>1, <1>2 DEF ClaimInv, HeldStatus
  <2>2. CASE ~Holding(v)' BY <2>2 DEF HeldStatus, Holding
  <2>. QED BY <2>1, <2>2
<1>6. ASSUME NEW v \in Workers PROVE Newest(v)'
  <2>1. ASSUME workers'[v].pc \in {"start", "call"}, NEW j \in 1..nItems',
               items'[j].rec = Rec(v)', items'[j].attempts > 0
        PROVE  j <= workers'[v].item
    <3>1. Holding(v)' BY <2>1 DEF Holding
    <3>2. j \in 1..nItems /\ items'[j] = items[j] BY <2>1, <1>0
    <3>. QED BY <1>2, <2>1, <3>1, <3>2 DEF ClaimInv, Newest, ItemIds, Rec
  <2>. QED BY <2>1 DEF Newest, ItemIds
<1>7. ClaimsMatch'
  <2>1. \A r \in DOMAIN claims : claims[r].item \in 1..nItems
    BY DEF TypeInv, TypeOK, ClaimsOK, ItemIds
  <2>. QED BY <2>1 DEF ClaimInv, ClaimsMatch
<1>8. MovedItems'
  <2>1. ASSUME NEW i \in 1..nItems', items'[i].status # "pending"
        PROVE  i \in 1..nItems /\ items'[i] = items[i]
    BY <2>1, <1>0
  <2>. QED BY <2>1 DEF ClaimInv, MovedItems, ItemIds
<1>. QED BY <1>3, <1>4, <1>5, <1>6, <1>7, <1>8 DEF ClaimInv

LEMMA CrashClaims ==
    ASSUME TypeInv, ClaimInv, NEW w \in Workers, Crash(w)
    PROVE  ClaimInv'
<1>0. /\ UNCHANGED <<nItems, items>> /\ Become(w, Idle)
      /\ claims' = [r \in DOMAIN claims |->
             IF claims[r].owner = w THEN [claims[r] EXCEPT !.owner = NoWorker]
             ELSE claims[r]]
  BY DEF Crash, rows
<1>1. ASSUME NEW v \in Workers, workers'[v].pc # "idle"
      PROVE  workers'[v] = workers[v] /\ v # w
  BY <1>1, <1>0, Others DEF Idle
<1>2. ASSUME NEW v \in Workers, Holding(v)'
      PROVE  /\ workers'[v] = workers[v] /\ Holding(v) /\ Row(v)' = Row(v) /\ v # w
  <2>1. workers'[v] = workers[v] /\ v # w BY <1>1, <1>2 DEF Holding
  <2>. QED BY <2>1, <1>0, <1>2 DEF Row, Holding
<1>3. WriterHoldsTheClaim'
  <2>1. ASSUME NEW v \in Workers, Holding(v)'
        PROVE  /\ Rec(v)' \in DOMAIN claims'
               /\ claims'[Rec(v)'] = [item |-> workers'[v].item,
                                      status |-> "in_progress", owner |-> v]
    <3>1. Holding(v) /\ v # w /\ Rec(v)' = Rec(v) /\ workers'[v] = workers[v]
      BY <1>2, <2>1 DEF Rec
    <3>2. Rec(v) \in DOMAIN claims /\ claims[Rec(v)].owner # w BY <3>1, HeldClaim
    <3>3. claims'[Rec(v)] = claims[Rec(v)] BY <3>2, <1>0
    <3>. QED BY <3>1, <3>2, <3>3, <1>0 DEF ClaimInv, WriterHoldsTheClaim
  <2>. QED BY <2>1 DEF WriterHoldsTheClaim
<1>4. /\ DOMAIN claims' = DOMAIN claims
      /\ \A r \in DOMAIN claims : claims'[r].item = claims[r].item
  BY <1>0 DEF TypeInv, TypeOK, ClaimsOK, ClaimRow
<1>5. RunningItemIsGuarded' BY <1>0, <1>4 DEF ClaimInv, RunningItemIsGuarded, ItemIds
<1>6. ASSUME NEW v \in Workers PROVE HeldStatus(v)'
  <2>1. CASE Holding(v)' BY <2>1, <1>2 DEF ClaimInv, HeldStatus
  <2>2. CASE ~Holding(v)' BY <2>2 DEF HeldStatus, Holding
  <2>. QED BY <2>1, <2>2
<1>7. ASSUME NEW v \in Workers PROVE Newest(v)'
  <2>1. CASE Holding(v)' BY <2>1, <1>0, <1>2 DEF ClaimInv, Newest, ItemIds, Rec
  <2>2. CASE ~Holding(v)' BY <2>2 DEF Newest, Holding
  <2>. QED BY <2>1, <2>2
<1>8. ClaimsMatch' /\ MovedItems'
  BY <1>0, <1>4 DEF ClaimInv, ClaimsMatch, MovedItems, ItemIds
<1>. QED BY <1>3, <1>5, <1>6, <1>7, <1>8 DEF ClaimInv

LEMMA ResolveClaims ==
    ASSUME TypeInv, ClaimInv, NEW r \in Records, Resolve(r)
    PROVE  ClaimInv'
<1>. DEFINE k == claims[r].item
<1>0. UNCHANGED <<nItems, workers>> /\ claims' = Drop(claims, r)
  BY DEF Resolve
<1>1. PICK row : /\ k \in 1..nItems /\ r \in DOMAIN claims
                 /\ claims[r].status = "ambiguous"
                 /\ items' = [items EXCEPT ![k] = row]
                 /\ row.rec = items[k].rec /\ row.attempts = items[k].attempts
                 /\ \/ row = items[k] /\ row.status # "running"
                    \/ /\ row.status \in {"failed", "reconciled"}
                       /\ row.version = items[k].version + 1
  BY ResolveItem
<1>2. items \in [1..nItems -> ItemRow] BY DEF TypeInv, TypeOK, ItemsOK, ItemIds
<1>3. items[k].rec = r /\ items[k].version \in Nat
  BY <1>1, <1>2 DEF ClaimInv, ClaimsMatch, ItemRow
<1>4. /\ items'[k] = row
      /\ \A i \in 1..nItems \ {k} : items'[i] = items[i]
      /\ \A i \in 1..nItems : items'[i].rec = items[i].rec
                              /\ items'[i].attempts = items[i].attempts
  BY <1>1, <1>2
<1>. HIDE DEF k
<1>5. ASSUME NEW v \in Workers, Holding(v)
      PROVE  Row(v)' = Row(v) /\ Rec(v) # r
  <2>1. Rec(v) # r BY <1>1, <1>5, HeldClaim
  <2>2. workers[v].item \in 1..nItems BY <1>5, Exclusive
  <2>3. workers[v].item # k BY <2>1, <1>3 DEF Rec, Row
  <2>. QED BY <1>0, <1>4, <2>1, <2>2, <2>3 DEF Row
<1>6. ASSUME NEW v \in Workers PROVE Holding(v)' = Holding(v)
  BY <1>0 DEF Holding
<1>7. WriterHoldsTheClaim'
  BY <1>0, <1>5, <1>6 DEF ClaimInv, WriterHoldsTheClaim, Rec, Drop
<1>8. RunningItemIsGuarded'
  <2>1. ASSUME NEW i \in 1..nItems, items'[i].status = "running"
        PROVE  /\ items'[i].rec \in DOMAIN claims'
               /\ claims'[items'[i].rec].item = i
    <3>1. i # k BY <2>1, <1>1, <1>4
    <3>2. items'[i] = items[i] BY <3>1, <1>4
    <3>3. items[i].rec \in DOMAIN claims /\ claims[items[i].rec].item = i
      BY <2>1, <3>2 DEF ClaimInv, RunningItemIsGuarded, ItemIds
    <3>4. items[i].rec # r BY <3>1, <3>3 DEF k
    <3>. QED BY <1>0, <3>2, <3>3, <3>4 DEF Drop
  <2>. QED BY <1>0, <2>1 DEF RunningItemIsGuarded, ItemIds
<1>9. ASSUME NEW v \in Workers PROVE HeldStatus(v)'
  <2>1. CASE Holding(v) BY <2>1, <1>0, <1>5 DEF ClaimInv, HeldStatus
  <2>2. CASE ~Holding(v) BY <2>2, <1>0 DEF HeldStatus, Holding
  <2>. QED BY <2>1, <2>2
<1>10. ASSUME NEW v \in Workers PROVE Newest(v)'
  <2>1. CASE Holding(v) BY <2>1, <1>0, <1>4, <1>5 DEF ClaimInv, Newest, ItemIds, Rec
  <2>2. CASE ~Holding(v) BY <2>2, <1>0 DEF Newest, Holding
  <2>. QED BY <2>1, <2>2
<1>11. ClaimsMatch'
  <2>1. \A s \in DOMAIN claims : claims[s].item \in 1..nItems
    BY DEF TypeInv, TypeOK, ClaimsOK, ItemIds
  <2>. QED BY <1>0, <1>4, <2>1 DEF ClaimInv, ClaimsMatch, Drop
<1>12. MovedItems'
  <2>1. ASSUME NEW i \in 1..nItems, items'[i].status # "pending" PROVE items'[i].version # 0
    BY <2>1, <1>1, <1>3, <1>4 DEF ClaimInv, MovedItems, ItemIds
  <2>. QED BY <1>0, <2>1 DEF MovedItems, ItemIds
<1>. QED BY <1>7, <1>8, <1>9, <1>10, <1>11, <1>12 DEF ClaimInv

LEMMA InitClaims == Init => ClaimInv
<1>. SUFFICES ASSUME Init PROVE ClaimInv
  OBVIOUS
<1>1. nItems = 0 /\ claims = <<>> /\ workers = [w \in Workers |-> Idle] BY DEF Init
<1>2. ItemIds = {} BY <1>1 DEF ItemIds
<1>3. \A w \in Workers : workers[w].pc = "idle" BY <1>1 DEF Idle
<1>4. WriterHoldsTheClaim /\ \A w \in Workers : HeldStatus(w) /\ Newest(w)
  BY <1>3 DEF WriterHoldsTheClaim, Holding, HeldStatus, Newest
<1>5. DOMAIN claims = {} BY <1>1
<1>. QED
  BY <1>2, <1>4, <1>5 DEF ClaimInv, RunningItemIsGuarded, ClaimsMatch, MovedItems

LEMMA NextClaims == TypeInv /\ ClaimInv /\ [Next]_vars => ClaimInv'
<1>. SUFFICES ASSUME TypeInv, ClaimInv, [Next]_vars PROVE ClaimInv'
  OBVIOUS
<1>0. nItems \in Nat /\ nRuns \in Nat BY DEF TypeInv, TypeOK, ItemsOK, RunsOK
<1>1. CASE UNCHANGED <<nItems, items, claims, workers>>
  BY <1>1 DEF ClaimInv, WriterHoldsTheClaim, RunningItemIsGuarded, HeldStatus, Newest,
       ClaimsMatch, MovedItems, Holding, Rec, Row, ItemIds
<1>2. CASE UNCHANGED vars BY <1>1, <1>2 DEF vars, rows
<1>3. ASSUME NEW r \in Records, Edit(r) PROVE ClaimInv'
  BY <1>1, <1>3 DEF Edit, rows
<1>4. ASSUME NEW r \in Records, Resolve(r) PROVE ClaimInv'
  BY <1>4, ResolveClaims
<1>5. ASSUME NEW S \in SUBSET Records, MakePreview(S) PROVE ClaimInv'
  BY <1>1, <1>5 DEF MakePreview
<1>6. ASSUME NEW w \in Workers, ExecutePreview(w) PROVE ClaimInv'
  <2>1. PICK n \in Nat :
             /\ nItems' = nItems + n
             /\ \A i \in 1..nItems : items'[i] = items[i]
             /\ \A i \in nItems + 1..nItems + n :
                  /\ items'[i].status = "pending"
                  /\ items'[i].version = 0 /\ items'[i].attempts = 0
             /\ Become(w, Arrived("run", nRuns + 1, {}, nItems + 1..nItems + n))
             /\ UNCHANGED claims
    BY <1>6, NewRun
  <2>. DEFINE q == Arrived("run", nRuns + 1, {}, nItems + 1..nItems + n)
  <2>2. q.pc = "next" BY DEF Arrived, Idle
  <2>3. nItems' \in Nat /\ nItems <= nItems' BY <1>0, <2>1
  <2>. HIDE DEF q
  <2>4. Become(w, q) BY <2>1 DEF q
  <2>. QED BY <2>1, <2>2, <2>3, <2>4, ArrivalClaims
<1>7. ASSUME NEW w \in Workers, Retry(w) \/ ConfirmRecovery(w) PROVE ClaimInv'
  <2>1. UNCHANGED <<nItems, items, claims>>
    BY <1>7 DEF Retry, ConfirmRecovery, rows
  <2>2. PICK mode, C, S : Become(w, Arrived(mode, 0, C, S))
    BY <1>7 DEF Retry, ConfirmRecovery
  <2>. DEFINE q == Arrived(mode, 0, C, S)
  <2>3. q.pc = "next" BY DEF Arrived, Idle
  <2>. HIDE DEF q
  <2>4. Become(w, q) BY <2>2 DEF q
  <2>. QED BY <1>0, <2>1, <2>3, <2>4, ArrivalClaims
<1>8. ASSUME NEW w \in Workers, Step(w) PROVE ClaimInv'
  BY <1>8, StepWriterHolds, StepGuarded, StepHeld, StepNewest, StepMatch DEF ClaimInv
<1>9. ASSUME NEW w \in Workers, Crash(w) PROVE ClaimInv'
  BY <1>9, CrashClaims
<1>. QED BY <1>2, <1>3, <1>4, <1>5, <1>6, <1>7, <1>8, <1>9 DEF Next

\* What is true of claims, items and requests together in every reachable state,
\* the inductive invariant from which the three theorems below follow.
THEOREM ClaimsInvariant == Spec => [](TypeInv /\ ClaimInv)
BY InitType, InitClaims, NextType, NextClaims, PTL DEF Spec

\* Whatever other requests, organisers and crashes do, a request between the
\* insertion and the release of its claim is the owner of the one active claim
\* of its record: two requests never write one record at the same time.
THEOREM OneWriter == Spec => []WriterHoldsTheClaim
<1>1. ClaimInv => WriterHoldsTheClaim BY DEF ClaimInv
<1>. QED BY <1>1, ClaimsInvariant, PTL

\* A RUNNING item keeps the active claim taken for it until it leaves that
\* status, also when its request raised, died or was resolved by hand.
THEOREM NoUnguardedItem == Spec => []RunningItemIsGuarded
<1>1. ClaimInv => RunningItemIsGuarded BY DEF ClaimInv
<1>. QED BY <1>1, ClaimsInvariant, PTL

\* Sends of a record follow the order of its items: while item i is being sent,
\* no newer item of the record was ever sent.
THEOREM SendsInOrder == Spec => []NoOvertaking
<1>1. ClaimInv => NoOvertaking BY DEF ClaimInv, NoOvertaking, Newest
<1>. QED BY <1>1, ClaimsInvariant, PTL

-----------------------------------------------------------------------------
(* Requests and their items: where the items of a request come from, and   *)
(* what a step does to the fields of its request.                          *)

\* The items a request has or is to work on.
Work(w) == workers[w].queue \cup ({workers[w].item} \ {0})

\* The request keeps its mode, run and receipt.
SameRequest(w) ==
    /\ workers'[w].mode = workers[w].mode
    /\ workers'[w].run = workers[w].run
    /\ workers'[w].corr = workers[w].corr

\* It takes the next item of its queue.
TakesItem(w) ==
    /\ workers[w].pc = "next"
    /\ \E i \in workers[w].queue :
         workers'[w].queue = workers[w].queue \ {i} /\ workers'[w].item = i
    /\ workers'[w].pc \in {"check", "blocked"}
    /\ workers'[w].someBad = workers[w].someBad

\* It goes on with its item; the version, target and outcome it carries.
KeepsItem(w) ==
    /\ workers'[w].queue = workers[w].queue
    /\ workers'[w].item = workers[w].item
    /\ workers'[w].someBad = workers[w].someBad
    /\ <<workers[w].pc, workers'[w].pc>> \in Flow \cup {<<"release", "count">>}
    /\ workers[w].pc = "check" => workers'[w].version = Row(w).version
    /\ workers[w].pc = "start" => Start(w) /\ ~Raise(w)
    /\ workers[w].pc = "finish" => Finish(w) /\ ~Raise(w)
    /\ workers[w].pc \in {"call", "reconcile"} => workers'[w].version = workers[w].version
    /\ workers'[w].pc = "readRun" => workers'[w].target = RunTarget(RunOf(w))
    /\ workers[w].pc = "next" => workers[w].mode = "run"
    /\ workers'[w].pc = "writeRun" => workers'[w].target = workers[w].target

\* It is done with its item: settled, or remembered as a failure.
LeavesItem(w) ==
    /\ workers'[w].queue = workers[w].queue
    /\ workers'[w].item = 0
    /\ \/ /\ workers'[w].pc = "next"
          /\ \/ workers'[w].someBad
             \/ workers[w].mode # "recovery"
             \/ /\ Row(w).status \in Settled /\ UNCHANGED items
                /\ workers'[w].someBad = workers[w].someBad
       \/ workers'[w].pc = "receipt" /\ workers'[w].outcome = "ambiguous"

\* It gives its claim up, or had none.
Departs(w) ==
    \/ ~Holding(w)
    \/ Raise(w)
    \/ Release(w)
    \/ Check(w) /\ ~Eligible(workers[w].item)

RequestStep(w) ==
    \/ Departs(w) /\ workers'[w] = Idle
    \/ SameRequest(w) /\ (TakesItem(w) \/ KeepsItem(w) \/ (LeavesItem(w) /\ Departs(w)))

LEMMA StepRequest ==
    ASSUME TypeInv, NEW w \in Workers, Step(w)
    PROVE  RequestStep(w)
<1>. DEFINE q == workers[w]
<1>1. q \in WorkerRow /\ Fits(q, nItems, nRuns) BY DEF TypeInv, RequestsFit
<1>a. ASSUME NEW p, Become(w, p) PROVE workers'[w] = p
  BY <1>a, Others
<1>b. ASSUME Become(w, AfterRaise(w)), Departs(w) PROVE RequestStep(w)
  <2>. DEFINE l == AtLoop(w)
              p == [l EXCEPT !.pc = "receipt", !.outcome = "ambiguous"]
  <2>1. /\ l \in WorkerRow /\ l.mode = q.mode /\ l.run = q.run
        /\ l.queue = q.queue /\ l.item = 0 /\ l.corr = q.corr
    <3>1. l.corr = q.corr BY <1>1 DEF AtLoop, WorkerRow
    <3>. QED BY <3>1, <1>1, LoopHead
  <2>. HIDE DEF l
  <2>2. /\ p.mode = q.mode /\ p.run = q.run /\ p.corr = q.corr /\ p.queue = q.queue
        /\ p.item = 0 /\ p.pc = "receipt" /\ p.outcome = "ambiguous"
    BY <2>1 DEF WorkerRow
  <2>3. AfterRaise(w) \in {p, Idle} BY DEF AfterRaise, l
  <2>4. workers'[w] \in {p, Idle} BY <1>a, <1>b, <2>3
  <2>. HIDE DEF p
  <2>. QED BY <2>2, <2>4, <1>b DEF RequestStep, SameRequest, LeavesItem
<1>c. CASE Raise(w) BY <1>c, <1>b DEF Raise, Departs
<1>d. ASSUME Become(w, Idle), Departs(w) PROVE RequestStep(w)
  BY <1>a, <1>d DEF RequestStep
<1>e. ASSUME NEW p, Become(w, p), p.mode = q.mode, p.run = q.run, p.corr = q.corr,
             p.queue = q.queue, p.item = q.item, p.someBad = q.someBad,
             <<q.pc, p.pc>> \in Flow \cup {<<"release", "count">>},
             q.pc = "check" => p.version = Row(w).version,
             q.pc = "start" => Start(w) /\ ~Raise(w),
             q.pc = "finish" => Finish(w) /\ ~Raise(w),
             q.pc \in {"call", "reconcile"} => p.version = q.version,
             p.pc = "readRun" => p.target = RunTarget(RunOf(w)),
             q.pc = "next" => q.mode = "run",
             p.pc = "writeRun" => p.target = q.target
      PROVE  RequestStep(w)
  <2>1. workers'[w] = p BY <1>a, <1>e
  <2>2. SameRequest(w) BY <2>1, <1>e DEF SameRequest
  <2>3. KeepsItem(w) BY <2>1, <1>e DEF KeepsItem
  <2>. QED BY <2>2, <2>3 DEF RequestStep
<1>f. ASSUME Become(w, AtLoop(w)), q.mode # "recovery", Departs(w) PROVE RequestStep(w)
  <2>1. /\ AtLoop(w).mode = q.mode /\ AtLoop(w).run = q.run
        /\ AtLoop(w).queue = q.queue /\ AtLoop(w).item = 0 /\ AtLoop(w).corr = q.corr
        /\ AtLoop(w).pc = "next"
    BY <1>1 DEF AtLoop, WorkerRow
  <2>2. workers'[w] = AtLoop(w) BY <1>a, <1>f
  <2>. HIDE DEF AtLoop
  <2>. QED BY <2>1, <2>2, <1>f DEF RequestStep, SameRequest, LeavesItem
<1>g. ASSUME Become(w, [AtLoop(w) EXCEPT !.someBad = TRUE]), Departs(w) PROVE RequestStep(w)
  <2>. DEFINE p == [AtLoop(w) EXCEPT !.someBad = TRUE]
  <2>1. /\ p.mode = q.mode /\ p.run = q.run /\ p.queue = q.queue /\ p.item = 0
        /\ p.corr = q.corr /\ p.pc = "next" /\ p.someBad
    BY <1>1 DEF AtLoop, WorkerRow
  <2>2. workers'[w] = p BY <1>a, <1>g
  <2>. HIDE DEF p
  <2>. QED BY <2>1, <2>2, <1>g DEF RequestStep, SameRequest, LeavesItem
<1>2. CASE Claim(w)
  <2>1. PICK i \in q.queue, pc \in {"check", "blocked"} :
          Become(w, [[q EXCEPT !.item = i, !.queue = @ \ {i}] EXCEPT !.pc = pc])
    BY <1>2 DEF Claim
  <2>. DEFINE p == [[q EXCEPT !.item = i, !.queue = @ \ {i}] EXCEPT !.pc = pc]
  <2>2. /\ p.mode = q.mode /\ p.run = q.run /\ p.corr = q.corr
        /\ p.queue = q.queue \ {i} /\ p.item = i /\ p.pc = pc /\ p.someBad = q.someBad
    BY <1>1 DEF WorkerRow
  <2>3. workers'[w] = p /\ q.pc = "next" BY <1>a, <2>1, <1>2 DEF Claim
  <2>. HIDE DEF p
  <2>. QED BY <2>2, <2>3 DEF RequestStep, SameRequest, TakesItem
<1>3. CASE Blocked(w)
  <2>1. PICK p \in {AfterRaise(w), Idle, [AtLoop(w) EXCEPT !.someBad = TRUE]} : Become(w, p)
    BY <1>3 DEF Blocked
  <2>2. Departs(w) BY <1>3 DEF Blocked, Departs, Holding
  <2>. QED BY <2>1, <2>2, <1>b, <1>d, <1>g
<1>4. CASE Check(w)
  <2>. DEFINE v == Row(w).version
              p == [q EXCEPT !.pc = "start", !.version = v]
  <2>1. /\ q.pc = "check"
        /\ Become(w, p) \/ (Become(w, AfterRaise(w)) /\ ~Eligible(q.item))
    BY <1>4 DEF Check
  <2>. HIDE DEF v
  <2>2. /\ p.mode = q.mode /\ p.run = q.run /\ p.corr = q.corr /\ p.queue = q.queue
        /\ p.item = q.item /\ p.someBad = q.someBad /\ p.pc = "start" /\ p.version = v
    BY <1>1 DEF WorkerRow
  <2>. HIDE DEF p
  <2>3. CASE Become(w, p) BY <2>1, <2>2, <2>3, <1>e DEF Flow, v
  <2>. QED BY <2>1, <2>3, <1>4, <1>b DEF Departs
<1>5. CASE ClientFails(w) BY <1>5, <1>c DEF ClientFails
<1>6. CASE Start(w) /\ ~Raise(w)
  <2>. DEFINE v == q.version + 1
              p(pc) == [q EXCEPT !.pc = pc, !.version = v]
  <2>1. PICK pc \in {"readItems", "call"} : Become(w, p(pc)) /\ q.pc = "start"
    BY <1>6 DEF Start
  <2>. HIDE DEF v
  <2>2. /\ p(pc).mode = q.mode /\ p(pc).run = q.run /\ p(pc).corr = q.corr
        /\ p(pc).queue = q.queue /\ p(pc).item = q.item /\ p(pc).someBad = q.someBad
        /\ p(pc).pc = pc
    BY <1>1 DEF WorkerRow
  <2>. HIDE DEF p
  <2>. QED BY <2>1, <2>2, <1>6, <1>e DEF Flow
<1>7. CASE Accepted(w)
  <2>. DEFINE p == [q EXCEPT !.pc = "finish", !.outcome = "succeeded"]
  <2>1. Become(w, p) /\ q.pc = "call" BY <1>7 DEF Accepted
  <2>2. /\ p.mode = q.mode /\ p.run = q.run /\ p.corr = q.corr /\ p.queue = q.queue
        /\ p.item = q.item /\ p.someBad = q.someBad /\ p.pc = "finish" /\ p.version = q.version
    BY <1>1 DEF WorkerRow
  <2>. HIDE DEF p
  <2>. QED BY <2>1, <2>2, <1>e DEF Flow
<1>8. CASE AnsweredDuplicate(w)
  <2>. DEFINE p == [q EXCEPT !.pc = "reconcile"]
  <2>1. Become(w, p) /\ q.pc = "call" BY <1>8 DEF AnsweredDuplicate, Goto
  <2>2. /\ p.mode = q.mode /\ p.run = q.run /\ p.corr = q.corr /\ p.queue = q.queue
        /\ p.item = q.item /\ p.someBad = q.someBad /\ p.pc = "reconcile" /\ p.version = q.version
    BY <1>1 DEF WorkerRow
  <2>. HIDE DEF p
  <2>. QED BY <2>1, <2>2, <1>e DEF Flow
<1>9. CASE Rejected(w)
  <2>. DEFINE p == [q EXCEPT !.pc = "finish", !.outcome = "failed"]
  <2>1. Become(w, p) /\ q.pc = "call" BY <1>9 DEF Rejected
  <2>2. /\ p.mode = q.mode /\ p.run = q.run /\ p.corr = q.corr /\ p.queue = q.queue
        /\ p.item = q.item /\ p.someBad = q.someBad /\ p.pc = "finish" /\ p.version = q.version
    BY <1>1 DEF WorkerRow
  <2>. HIDE DEF p
  <2>. QED BY <2>1, <2>2, <1>e DEF Flow
<1>10. CASE ServerError(w)
  <2>. DEFINE t  == q.tries + 1
              p1 == [q EXCEPT !.tries = t]
              p2 == [q EXCEPT !.pc = "finish", !.outcome = "failed"]
  <2>1. q.pc = "call" /\ (Become(w, p1) \/ Become(w, p2)) BY <1>10 DEF ServerError
  <2>. HIDE DEF t
  <2>2. /\ p1.mode = q.mode /\ p1.run = q.run /\ p1.corr = q.corr /\ p1.queue = q.queue
        /\ p1.item = q.item /\ p1.someBad = q.someBad /\ p1.pc = q.pc /\ p1.version = q.version
    BY <1>1 DEF WorkerRow
  <2>3. /\ p2.mode = q.mode /\ p2.run = q.run /\ p2.corr = q.corr /\ p2.queue = q.queue
        /\ p2.item = q.item /\ p2.someBad = q.someBad /\ p2.pc = "finish" /\ p2.version = q.version
    BY <1>1 DEF WorkerRow
  <2>. HIDE DEF p1, p2
  <2>4. CASE Become(w, p1) BY <2>1, <2>2, <2>4, <1>e DEF Flow
  <2>5. CASE Become(w, p2) BY <2>1, <2>3, <2>5, <1>e DEF Flow
  <2>. QED BY <2>1, <2>4, <2>5
<1>11. CASE ConnectionBreaks(w) BY <1>11, <1>c DEF ConnectionBreaks
<1>12. CASE Reconcile(w) /\ ~Raise(w)
  <2>. DEFINE p == [q EXCEPT !.pc = "finish", !.outcome = "reconciled"]
  <2>1. Become(w, p) /\ q.pc = "reconcile" BY <1>12 DEF Reconcile
  <2>2. /\ p.mode = q.mode /\ p.run = q.run /\ p.corr = q.corr /\ p.queue = q.queue
        /\ p.item = q.item /\ p.someBad = q.someBad /\ p.pc = "finish" /\ p.version = q.version
    BY <1>1 DEF WorkerRow
  <2>. HIDE DEF p
  <2>. QED BY <2>1, <2>2, <1>e DEF Flow
<1>13. CASE Finish(w) /\ ~Raise(w)
  <2>. DEFINE v == q.version + 1
              p == [q EXCEPT !.pc = "record", !.version = v]
  <2>1. Become(w, p) /\ q.pc = "finish" BY <1>13 DEF Finish
  <2>. HIDE DEF v
  <2>2. /\ p.mode = q.mode /\ p.run = q.run /\ p.corr = q.corr /\ p.queue = q.queue
        /\ p.item = q.item /\ p.someBad = q.someBad /\ p.pc = "record"
    BY <1>1 DEF WorkerRow
  <2>. HIDE DEF p
  <2>. QED BY <2>1, <2>2, <1>13, <1>e DEF Flow
<1>14. CASE Record(w)
  <2>. DEFINE p == [q EXCEPT !.pc = "readItems"]
  <2>1. Become(w, p) /\ q.pc = "record" BY <1>14 DEF Record, Goto
  <2>2. /\ p.mode = q.mode /\ p.run = q.run /\ p.corr = q.corr /\ p.queue = q.queue
        /\ p.item = q.item /\ p.someBad = q.someBad /\ p.pc = "readItems"
    BY <1>1 DEF WorkerRow
  <2>. HIDE DEF p
  <2>. QED BY <2>1, <2>2, <1>e DEF Flow
<1>15. CASE ReadItems(w)
  <2>. DEFINE t == RunTarget(RunOf(w))
              p == [q EXCEPT !.pc = "readRun", !.target = t]
  <2>1. /\ Become(w, p) /\ q.pc \in {"readItems", "next"}
        /\ q.pc = "next" => q.mode = "run"
    BY <1>15 DEF ReadItems
  <2>. HIDE DEF t
  <2>2. /\ p.mode = q.mode /\ p.run = q.run /\ p.corr = q.corr /\ p.queue = q.queue
        /\ p.item = q.item /\ p.someBad = q.someBad /\ p.pc = "readRun" /\ p.target = t
    BY <1>1 DEF WorkerRow
  <2>. HIDE DEF p
  <2>3. <<q.pc, p.pc>> \in Flow BY <2>1, <2>2 DEF Flow
  <2>4. p.target = RunTarget(RunOf(w)) BY <2>2 DEF t
  <2>. QED BY <2>1, <2>2, <2>3, <2>4, <1>e
<1>16. ASSUME Become(w, AfterRefresh(w)), q.pc \in {"readRun", "writeRun"} PROVE RequestStep(w)
  <2>. DEFINE p == [q EXCEPT !.pc = "release"]
  <2>2. /\ p.mode = q.mode /\ p.run = q.run /\ p.corr = q.corr /\ p.queue = q.queue
        /\ p.item = q.item /\ p.someBad = q.someBad /\ p.pc = "release"
    BY <1>1 DEF WorkerRow
  <2>3. Become(w, p) \/ (Become(w, Idle) /\ q.item = 0) BY <1>16 DEF AfterRefresh
  <2>. HIDE DEF p
  <2>4. CASE Become(w, p)
    <3>1. <<q.pc, p.pc>> \in Flow BY <1>16, <2>2 DEF Flow
    <3>. QED BY <1>16, <2>2, <2>4, <3>1, <1>e
  <2>. QED BY <2>3, <2>4, <1>16, <1>d DEF Departs, Holding
<1>17. CASE ReadRun(w)
  <2>. DEFINE v == runs[RunOf(w)].version
              p == [q EXCEPT !.pc = "writeRun", !.runVersion = v]
  <2>1. q.pc = "readRun" /\ (Become(w, AfterRefresh(w)) \/ Become(w, p)) BY <1>17 DEF ReadRun
  <2>. HIDE DEF v
  <2>2. /\ p.mode = q.mode /\ p.run = q.run /\ p.corr = q.corr /\ p.queue = q.queue
        /\ p.item = q.item /\ p.someBad = q.someBad /\ p.pc = "writeRun" /\ p.target = q.target
    BY <1>1 DEF WorkerRow
  <2>. HIDE DEF p
  <2>3. CASE Become(w, p) BY <2>1, <2>2, <2>3, <1>e DEF Flow
  <2>. QED BY <2>1, <2>3, <1>16
<1>18. CASE WriteRun(w)
  <2>1. \/ Become(w, AfterRefresh(w))
        \/ Become(w, Idle) /\ q.item = 0
        \/ Raise(w)
    BY <1>18 DEF WriteRun
  <2>2. q.pc = "writeRun" BY <1>18 DEF WriteRun
  <2>. QED BY <2>1, <2>2, <1>16, <1>c, <1>d DEF Departs, Holding
<1>19. CASE Release(w)
  <2>. DEFINE p == [q EXCEPT !.pc = "count"]
  <2>1. /\ q.pc = "release"
        /\ \/ Become(w, p) \/ Become(w, Idle)
           \/ q.mode # "recovery" /\ Become(w, AtLoop(w))
    BY <1>19 DEF Release
  <2>2. /\ p.mode = q.mode /\ p.run = q.run /\ p.corr = q.corr /\ p.queue = q.queue
        /\ p.item = q.item /\ p.someBad = q.someBad /\ p.pc = "count"
    BY <1>1 DEF WorkerRow
  <2>. HIDE DEF p
  <2>3. CASE Become(w, p) BY <2>1, <2>2, <2>3, <1>e
  <2>. QED BY <2>1, <2>3, <1>19, <1>d, <1>f DEF Departs
<1>20. CASE Count(w)
  <2>. DEFINE p == [AtLoop(w) EXCEPT !.someOk = TRUE]
  <2>3. Departs(w) BY <1>20 DEF Count, Departs, Holding
  <2>1. CASE Row(w).status \in Settled
    <3>1. Become(w, p) /\ UNCHANGED items BY <1>20, <2>1 DEF Count, rows
    <3>2. /\ p.mode = q.mode /\ p.run = q.run /\ p.queue = q.queue /\ p.item = 0
          /\ p.corr = q.corr /\ p.pc = "next" /\ p.someBad = q.someBad
      BY <1>1 DEF AtLoop, WorkerRow
    <3>3. workers'[w] = p BY <1>a, <3>1
    <3>. HIDE DEF p
    <3>. QED BY <2>1, <2>3, <3>1, <3>2, <3>3 DEF RequestStep, SameRequest, LeavesItem
  <2>2. CASE Row(w).status \notin Settled BY <1>20, <2>2, <2>3, <1>g DEF Count
  <2>. QED BY <2>1, <2>2
<1>21. CASE FinishReceipt(w)
  BY <1>21, <1>d DEF FinishReceipt, Departs, Holding
<1>. QED
  BY <1>c, <1>2, <1>3, <1>4, <1>5, <1>6, <1>7, <1>8, <1>9, <1>10, <1>11, <1>12, <1>13,
     <1>14, <1>15, <1>17, <1>18, <1>19, <1>20, <1>21 DEF Step

\* Where the items of a request come from: a run works on the items it created,
\* a retry or recovery on items that were tried before.
WorkOrigin ==
    \A w \in Workers : \A i \in Work(w) :
        IF workers[w].mode = "run" THEN items[i].run = workers[w].run
        ELSE items[i].status # "pending"

OwnRuns ==
    \A v, w \in Workers :
        v # w /\ workers[v].mode = "run" /\ workers[w].mode = "run"
            => workers[v].run # workers[w].run

\* The version a request carries is that of its item.
HeldVersion(w) ==
    workers[w].pc \in {"start", "call", "reconcile", "finish"} =>
        workers[w].version = Row(w).version

WorkInv == WorkOrigin /\ OwnRuns /\ \A w \in Workers : HeldVersion(w)

LEMMA WorkIds ==
    ASSUME TypeInv, NEW w \in Workers, NEW i \in Work(w)
    PROVE  i \in 1..nItems
BY DEF TypeInv, TypeOK, ItemsOK, RequestsFit, Fits, Work

LEMMA StepWork ==
    ASSUME TypeInv, NEW w \in Workers, Step(w)
    PROVE  /\ \A v \in Workers \ {w} : Work(v)' = Work(v) /\ workers'[v] = workers[v]
           /\ Work(w)' \subseteq Work(w)
           /\ workers'[w] = Idle \/ SameRequest(w)
<1>1. \A v \in Workers \ {w} : workers'[v] = workers[v] BY StepFlow
<1>2. RequestStep(w) BY StepRequest
<1>3. CASE workers'[w] = Idle
  <2>1. Work(w)' = {} BY <1>3 DEF Work, Idle
  <2>. QED BY <1>1, <1>3, <2>1 DEF Work
<1>4. CASE SameRequest(w) /\ (TakesItem(w) \/ KeepsItem(w) \/ LeavesItem(w))
  <2>1. Work(w)' \subseteq Work(w)
    BY <1>4 DEF Work, TakesItem, KeepsItem, LeavesItem
  <2>. QED BY <1>1, <1>4, <2>1 DEF Work
<1>. QED BY <1>2, <1>3, <1>4 DEF RequestStep

\* Rows keep their run; nothing becomes pending again or leaves a settled status.
RowsAdvance ==
    /\ nItems' \in Nat /\ nItems <= nItems'
    /\ \A i \in 1..nItems :
         /\ items'[i].run = items[i].run
         /\ items'[i].status = "pending" => items[i].status = "pending"
         /\ items[i].status \in Settled => items'[i].status = items[i].status

LEMMA StepAdvance ==
    ASSUME TypeInv, ClaimInv, NEW w \in Workers, Step(w)
    PROVE  RowsAdvance
<1>1. nItems' = nItems /\ nItems \in Nat BY StepRows DEF TypeInv, TypeOK, ItemsOK
<1>2. ASSUME NEW i \in 1..nItems, items'[i] # items[i]
      PROVE  /\ items'[i].run = items[i].run
             /\ items'[i].status = "pending" => items[i].status = "pending"
             /\ items[i].status \in Settled => items'[i].status = items[i].status
  <2>1. PICK row : ItemMove(w, row) /\ items'[i] = row /\ i = workers[w].item
    BY <1>2, StepRows
  <2>2. Row(w) = items[i] /\ row.run = items[i].run BY <2>1 DEF ItemMove, Row
  <2>3. CASE Blocked(w) /\ row.status = "failed" /\ Row(w).status \in {"pending", "running"}
    BY <2>1, <2>2, <2>3 DEF Settled
  <2>4. CASE row.status = Row(w).status BY <2>1, <2>2, <2>4
  <2>5. CASE Start(w) /\ row.status \in {"running", "noop"}
    <3>1. Row(w).status \in {"pending", "failed"}
      BY <2>5 DEF Start, ClaimInv, HeldStatus
    <3>. QED BY <2>1, <2>2, <2>5, <3>1 DEF Settled
  <2>6. CASE <<Row(w).status, row.status>> \in ItemMachine
    BY <2>1, <2>2, <2>6 DEF ItemMachine, Settled
  <2>. QED BY <2>1, <2>3, <2>4, <2>5, <2>6 DEF ItemMove
<1>. QED BY <1>1, <1>2 DEF RowsAdvance

LEMMA ResolveAdvance ==
    ASSUME TypeInv, NEW r \in Records, Resolve(r)
    PROVE  RowsAdvance
<1>. DEFINE k == claims[r].item
<1>1. UNCHANGED nItems /\ nItems \in Nat BY DEF Resolve, TypeInv, TypeOK, ItemsOK
<1>2. PICK row \in ItemRow :
        /\ k \in 1..nItems /\ items' = [items EXCEPT ![k] = row]
        /\ row.run = items[k].run
        /\ \/ row = items[k]
           \/ /\ items[k].status \in {"failed", "running"}
              /\ row.status \in {"failed", "reconciled"}
  BY ResolveItem
<1>3. items \in [1..nItems -> ItemRow] BY DEF TypeInv, TypeOK, ItemsOK, ItemIds
<1>. HIDE DEF k
<1>. QED BY <1>1, <1>2, <1>3 DEF RowsAdvance, Settled

\* A request that found its item claimed fails it only in the run that created
\* it; whoever holds the item then is a retry of an item that was tried before,
\* so the two are never at the same row.
LEMMA OthersKeepRow ==
    ASSUME TypeInv, ClaimInv, WorkInv, NEW w \in Workers, Step(w),
           NEW v \in Workers \ {w}, Holding(v)
    PROVE  Row(v)' = Row(v)
<1>1. workers'[v] = workers[v] BY StepFlow
<1>2. workers[v].item \in 1..nItems /\ nItems \in Nat
  BY Exclusive DEF TypeInv, TypeOK, ItemsOK
<1>3. ASSUME items'[workers[v].item] # items[workers[v].item] PROVE FALSE
  <2>1. PICK row : /\ workers[v].item = workers[w].item
                   /\ workers[w].pc \in {"blocked", "start", "finish"}
                   /\ ItemMove(w, row)
    BY <1>2, <1>3, StepRows
  <2>2. ~Holding(w) BY <2>1, Exclusive
  <2>3. workers[w].pc = "blocked" BY <2>1, <2>2 DEF Holding
  <2>4. Row(w).version = 0 /\ workers[w].mode = "run"
    BY <2>1, <2>3 DEF ItemMove, Start, Finish
  <2>5. items[workers[v].item].status = "pending"
    BY <2>1, <2>4, <1>2 DEF ClaimInv, MovedItems, ItemIds, Row
  <2>6. workers[v].item \in Work(v) /\ workers[v].item \in Work(w)
    BY <1>2, <2>1 DEF Work
  <2>7. workers[v].mode = "run" /\ workers[v].run = workers[w].run
    BY <2>4, <2>5, <2>6 DEF WorkInv, WorkOrigin
  <2>. QED BY <2>4, <2>7 DEF WorkInv, OwnRuns
<1>. QED BY <1>1, <1>3 DEF Row

LEMMA StepVersion ==
    ASSUME TypeInv, ClaimInv, WorkInv, NEW w \in Workers, Step(w), NEW v \in Workers
    PROVE  HeldVersion(v)'
<1>. SUFFICES ASSUME workers'[v].pc \in {"start", "call", "reconcile", "finish"}
              PROVE  workers'[v].version = Row(v)'.version
  BY DEF HeldVersion
<1>1. CASE v # w
  <2>1. workers'[v] = workers[v] BY <1>1, StepFlow
  <2>2. Holding(v) BY <2>1 DEF Holding
  <2>. QED BY <1>1, <2>1, <2>2, OthersKeepRow DEF WorkInv, HeldVersion
<1>2. CASE v = w
  <2>1. KeepsItem(w)
    BY <1>2, StepRequest DEF RequestStep, TakesItem, LeavesItem, Idle
  <2>2. /\ workers'[w].item = workers[w].item
        /\ workers[w].pc \in {"check", "start", "call", "reconcile"}
    BY <1>2, <2>1 DEF KeepsItem, Flow
  <2>3. workers[w].item \in 1..nItems BY <2>2, RowType DEF AtItem
  <2>4. CASE workers[w].pc # "start"
    <3>1. items'[workers[w].item] = items[workers[w].item]
      BY <2>2, <2>3, <2>4, StepRows
    <3>2. Row(w)' = Row(w) BY <2>2, <3>1 DEF Row
    <3>3. CASE workers[w].pc = "check" BY <1>2, <2>1, <3>2, <3>3 DEF KeepsItem
    <3>4. CASE workers[w].pc \in {"call", "reconcile"}
      BY <1>2, <2>1, <3>2, <3>4 DEF KeepsItem, WorkInv, HeldVersion
    <3>. QED BY <2>2, <2>4, <3>3, <3>4
  <2>5. CASE workers[w].pc = "start"
    <3>1. Start(w) /\ ~Raise(w) BY <2>1, <2>5 DEF KeepsItem
    <3>2. workers'[w].pc = "call" BY <1>2, <2>1, <2>5 DEF KeepsItem, Flow
    <3>3. PICK row : ItemMove(w, row) BY <3>1, StepItems
    <3>. DEFINE ver == workers[w].version + 1
                q(pc) == [workers[w] EXCEPT !.pc = pc, !.version = ver]
    <3>4. \/ Become(w, q("call")) /\ row.version = ver
          \/ Become(w, q("readItems"))
      BY <3>1, <3>3, <2>5 DEF ItemMove, Blocked, Finish
    <3>. HIDE DEF ver
    <3>5. workers[w] \in WorkerRow BY DEF TypeInv, RequestsFit
    <3>6. \A pc : q(pc).pc = pc /\ q(pc).version = ver BY <3>5 DEF WorkerRow
    <3>7. \A pc : Become(w, q(pc)) => workers'[w] = q(pc) BY Others
    <3>. HIDE DEF q
    <3>8. row.version = ver /\ workers'[w].version = ver
      BY <3>2, <3>4, <3>6, <3>7
    <3>9. Row(w)' = row
      BY <2>2, <2>3, <3>3 DEF ItemMove, Row, TypeInv, TypeOK, ItemsOK, ItemIds
    <3>. QED BY <1>2, <3>8, <3>9
  <2>. QED BY <2>4, <2>5
<1>. QED BY <1>1, <1>2

\* The origin of work is kept by a step after which every request has at most
\* the work it had.
LEMMA OriginKept ==
    ASSUME TypeInv, WorkInv, RowsAdvance,
           \A w \in Workers :
               /\ Work(w)' \subseteq Work(w)
               /\ workers'[w] = Idle \/ SameRequest(w)
    PROVE  WorkOrigin' /\ OwnRuns'
<1>1. WorkOrigin'
  <2>1. ASSUME NEW w \in Workers, NEW i \in Work(w)'
        PROVE  IF workers'[w].mode = "run" THEN items'[i].run = workers'[w].run
               ELSE items'[i].status # "pending"
    <3>1. i \in Work(w) /\ i \in 1..nItems BY <2>1, WorkIds
    <3>2. SameRequest(w)
      <4>1. workers'[w] # Idle BY <2>1 DEF Work, Idle
      <4>. QED BY <4>1
    <3>. QED BY <3>1, <3>2 DEF WorkInv, WorkOrigin, SameRequest, RowsAdvance
  <2>. QED BY <2>1 DEF WorkOrigin
<1>2. OwnRuns'
  <2>1. \A w \in Workers : workers'[w].mode = "run" => SameRequest(w)
    BY DEF Idle
  <2>. QED BY <2>1 DEF OwnRuns, WorkInv, SameRequest
<1>. QED BY <1>1, <1>2

LEMMA SameRow ==
    ASSUME TypeInv, ClaimInv, NEW v \in Workers, workers'[v] = workers[v],
           HeldVersion(v),
           Holding(v) => items'[workers[v].item] = items[workers[v].item]
    PROVE  HeldVersion(v)'
BY DEF HeldVersion, Holding, Row

\* A request arrives with work of the right origin.
LEMMA ArrivalWork ==
    ASSUME TypeInv, ClaimInv, WorkInv, RowsAdvance, NEW w \in Workers,
           NEW mode, NEW run, NEW C, NEW S,
           Become(w, Arrived(mode, run, C, S)),
           \A i \in 1..nItems : items'[i] = items[i],
           0 \notin S,
           \A i \in S : IF mode = "run" THEN items'[i].run = run
                        ELSE items'[i].status # "pending",
           \A v \in Workers \ {w} : mode = "run" /\ workers[v].mode = "run" =>
                                    workers[v].run # run
    PROVE  WorkInv'
<1>. DEFINE q == Arrived(mode, run, C, S)
<1>1. q.pc = "next" /\ q.mode = mode /\ q.run = run /\ q.queue = S /\ q.item = 0
  BY DEF Arrived, Idle
<1>2. workers'[w] = q /\ \A v \in Workers \ {w} : workers'[v] = workers[v]
  BY Others
<1>. HIDE DEF q
<1>3. Work(w)' = S BY <1>1, <1>2 DEF Work
<1>4. WorkOrigin'
  <2>1. ASSUME NEW v \in Workers, v # w, NEW i \in Work(v)'
        PROVE  IF workers'[v].mode = "run" THEN items'[i].run = workers'[v].run
               ELSE items'[i].status # "pending"
    <3>1. workers'[v] = workers[v] /\ i \in Work(v) BY <1>2, <2>1 DEF Work
    <3>2. i \in 1..nItems BY <3>1, WorkIds
    <3>. QED BY <3>1, <3>2 DEF WorkInv, WorkOrigin
  <2>2. ASSUME NEW i \in Work(w)'
        PROVE  IF workers'[w].mode = "run" THEN items'[i].run = workers'[w].run
               ELSE items'[i].status # "pending"
    BY <1>1, <1>2, <1>3, <2>2
  <2>. QED BY <2>1, <2>2 DEF WorkOrigin
<1>5. OwnRuns' BY <1>1, <1>2 DEF WorkInv, OwnRuns
<1>6. ASSUME NEW v \in Workers PROVE HeldVersion(v)'
  <2>1. CASE v = w BY <1>1, <1>2, <2>1 DEF HeldVersion
  <2>2. CASE v # w
    <3>1. Holding(v) => workers[v].item \in 1..nItems BY Exclusive
    <3>. QED BY <1>2, <2>2, <3>1, SameRow DEF WorkInv
  <2>. QED BY <2>1, <2>2
<1>. QED BY <1>4, <1>5, <1>6 DEF WorkInv

LEMMA InitWork == Init => WorkInv
<1>. SUFFICES ASSUME Init PROVE WorkInv
  OBVIOUS
<1>1. ASSUME NEW w \in Workers
      PROVE  /\ workers[w].pc = "idle" /\ workers[w].mode = "none" /\ Work(w) = {}
  <2>1. workers[w] = Idle BY DEF Init
  <2>. QED BY <2>1 DEF Idle, Work
<1>. QED BY <1>1 DEF WorkInv, WorkOrigin, OwnRuns, HeldVersion

LEMMA NextWork == TypeInv /\ ClaimInv /\ WorkInv /\ [Next]_vars => WorkInv'
<1>. SUFFICES ASSUME TypeInv, ClaimInv, WorkInv, [Next]_vars PROVE WorkInv'
  OBVIOUS
<1>0. nItems \in Nat /\ nRuns \in Nat BY DEF TypeInv, TypeOK, ItemsOK, RunsOK
<1>1. CASE UNCHANGED <<items, workers>>
  BY <1>1 DEF WorkInv, WorkOrigin, OwnRuns, HeldVersion, Work, Row
<1>2. CASE UNCHANGED vars BY <1>1, <1>2 DEF vars, rows
<1>3. ASSUME NEW r \in Records, Edit(r) PROVE WorkInv'
  BY <1>1, <1>3 DEF Edit, rows
<1>4. ASSUME NEW r \in Records, Resolve(r) PROVE WorkInv'
  <2>1. UNCHANGED workers /\ RowsAdvance BY <1>4, ResolveAdvance DEF Resolve
  <2>2. WorkOrigin' /\ OwnRuns'
    <3>1. \A w \in Workers : Work(w)' = Work(w) /\ SameRequest(w)
      BY <2>1 DEF Work, SameRequest
    <3>. QED BY <2>1, <3>1, OriginKept
  <2>3. ASSUME NEW v \in Workers PROVE HeldVersion(v)'
    <3>1. ASSUME Holding(v) PROVE items'[workers[v].item] = items[workers[v].item]
      <4>1. PICK row : /\ claims[r].item \in 1..nItems
                       /\ r \in DOMAIN claims /\ claims[r].status = "ambiguous"
                       /\ items' = [items EXCEPT ![claims[r].item] = row]
        BY <1>4, ResolveItem
      <4>2. Rec(v) # r BY <3>1, <4>1, HeldClaim
      <4>3. items[claims[r].item].rec = r BY <4>1 DEF ClaimInv, ClaimsMatch
      <4>4. workers[v].item # claims[r].item BY <4>2, <4>3 DEF Rec, Row
      <4>5. workers[v].item \in 1..nItems BY <3>1, Exclusive
      <4>. QED BY <4>1, <4>4, <4>5 DEF TypeInv, TypeOK, ItemsOK, ItemIds
    <3>. QED BY <2>1, <3>1, SameRow DEF WorkInv
  <2>. QED BY <2>2, <2>3 DEF WorkInv
<1>5. ASSUME NEW S \in SUBSET Records, MakePreview(S) PROVE WorkInv'
  BY <1>1, <1>5 DEF MakePreview
<1>6. ASSUME NEW w \in Workers, ExecutePreview(w) PROVE WorkInv'
  <2>1. PICK n \in Nat :
             /\ nItems' = nItems + n
             /\ \A i \in 1..nItems : items'[i] = items[i]
             /\ \A i \in nItems + 1..nItems + n : items'[i].run = nRuns + 1
             /\ Become(w, Arrived("run", nRuns + 1, {}, nItems + 1..nItems + n))
    BY <1>6, NewRun
  <2>2. RowsAdvance BY <2>1, <1>0 DEF RowsAdvance
  <2>3. 0 \notin nItems + 1..nItems + n BY <1>0
  <2>4. \A v \in Workers : workers[v].mode = "run" => workers[v].run # nRuns + 1
    <3>1. \A v \in Workers : workers[v].mode = "run" => workers[v].run \in 1..nRuns
      BY DEF TypeInv, RequestsFit, Fits
    <3>. QED BY <3>1, <1>0
  <2>. DEFINE S    == nItems + 1..nItems + n
              mode == "run"
              run  == nRuns + 1
  <2>5. /\ \A i \in S : IF mode = "run" THEN items'[i].run = run
                         ELSE items'[i].status # "pending"
        /\ \A v \in Workers \ {w} : mode = "run" /\ workers[v].mode = "run" =>
                                     workers[v].run # run
    BY <2>1, <2>4
  <2>6. Become(w, Arrived(mode, run, {}, S)) /\ 0 \notin S BY <2>1, <2>3
  <2>. HIDE DEF S, mode, run
  <2>. QED BY <2>1, <2>2, <2>5, <2>6, ArrivalWork
<1>7. ASSUME NEW w \in Workers, Retry(w) \/ ConfirmRecovery(w) PROVE WorkInv'
  <2>1. UNCHANGED <<nItems, items>> BY <1>7 DEF Retry, ConfirmRecovery, rows
  <2>2. RowsAdvance BY <2>1, <1>0 DEF RowsAdvance
  <2>3. PICK mode \in {"retry", "recovery"}, C \in SUBSET Correlations,
            S \in SUBSET LatestFailed :
          Become(w, Arrived(mode, 0, C, S))
    <3>1. CASE Retry(w)
      <4>1. PICK i \in LatestFailed : Become(w, Arrived("retry", 0, {}, {i}))
        BY <3>1 DEF Retry
      <4>2. {i} \in SUBSET LatestFailed OBVIOUS
      <4>. QED BY <4>1, <4>2
    <3>2. CASE ConfirmRecovery(w)
      <4>1. PICK c \in Correlations, S \in SUBSET LatestFailed :
              Become(w, Arrived("recovery", 0, {c}, S))
        BY <3>2 DEF ConfirmRecovery
      <4>. QED BY <4>1
    <3>. QED BY <1>7, <3>1, <3>2
  <2>4. 0 \notin S /\ \A i \in S : items'[i].status # "pending"
    BY <2>1, <1>0 DEF LatestFailed, ItemIds
  <2>. QED BY <2>1, <2>2, <2>3, <2>4, ArrivalWork
<1>8. ASSUME NEW w \in Workers, Step(w) PROVE WorkInv'
  <2>1. WorkOrigin' /\ OwnRuns'
    <3>1. \A v \in Workers : /\ Work(v)' \subseteq Work(v)
                             /\ workers'[v] = Idle \/ SameRequest(v)
      BY <1>8, StepWork DEF SameRequest
    <3>. QED BY <1>8, <3>1, StepAdvance, OriginKept
  <2>. QED BY <1>8, <2>1, StepVersion DEF WorkInv
<1>9. ASSUME NEW w \in Workers, Crash(w) PROVE WorkInv'
  <2>1. UNCHANGED <<nItems, items>> /\ Become(w, Idle) BY <1>9 DEF Crash, rows
  <2>2. workers'[w] = Idle /\ \A v \in Workers \ {w} : workers'[v] = workers[v]
    BY <2>1, Others
  <2>3. RowsAdvance BY <2>1, <1>0 DEF RowsAdvance
  <2>4. WorkOrigin' /\ OwnRuns'
    <3>1. \A v \in Workers : /\ Work(v)' \subseteq Work(v)
                             /\ workers'[v] = Idle \/ SameRequest(v)
      BY <2>2 DEF Work, Idle, SameRequest
    <3>. QED BY <2>3, <3>1, OriginKept
  <2>5. ASSUME NEW v \in Workers PROVE HeldVersion(v)'
    <3>1. CASE v = w BY <2>2, <3>1 DEF HeldVersion, Idle
    <3>2. CASE v # w BY <2>1, <2>2, <3>2, SameRow DEF WorkInv
    <3>. QED BY <3>1, <3>2
  <2>. QED BY <2>4, <2>5 DEF WorkInv
<1>. QED BY <1>2, <1>3, <1>4, <1>5, <1>6, <1>7, <1>8, <1>9 DEF Next

\* Requests work on items of their own runs and records, and the version that one
\* carries is that of the item it holds; inductive with TypeInv and ClaimInv.
THEOREM WorkInvariant == Spec => [](TypeInv /\ ClaimInv /\ WorkInv)
BY InitType, InitClaims, InitWork, NextType, NextClaims, NextWork, PTL DEF Spec

\* From the check of an item to its last transition nobody else moves it: the
\* request that holds the claim sees the status it left and carries the stored
\* version, so none of its commands is refused as outdated.
THEOREM HeldItemsAreFresh == Spec => []HeldItemIsFresh
<1>1. ClaimInv /\ WorkInv => HeldItemIsFresh
  BY DEF ClaimInv, WorkInv, HeldItemIsFresh, HeldStatus, HeldVersion
<1>. QED BY <1>1, WorkInvariant, PTL

-----------------------------------------------------------------------------
(* Outcomes: the statuses of runs and recovery receipts, which are computed *)
(* from item statuses read in earlier steps.  Settled items stay settled,   *)
(* so what a request has read is still true when it writes.                 *)

AllSettled(S) == \A i \in S : items[i].status \in Settled

ItemsOfRun(n) == {i \in ItemIds : items[i].run = n}

\* Who is about to write SUCCEEDED to a run has seen all of its items settled.
TargetIsEarned(w) ==
    workers[w].pc \in {"readRun", "writeRun"} /\ workers[w].target = "succeeded" =>
        AllSettled(ItemsOfRun(RunOf(w)))

\* What a recovery has left behind is settled, unless it has seen a failure or
\* was stopped by an exception.
ReceiptOpen(w) ==
    /\ workers[w].corr \subseteq DOMAIN receipts
    /\ workers[w].mode # "recovery" => workers[w].corr = {}
    /\ workers[w].pc = "receipt" => workers[w].outcome = "ambiguous"
    /\ \A c \in workers[w].corr :
         ~workers[w].someBad /\ workers[w].pc # "receipt" =>
            AllSettled(receipts[c].targets \ Work(w))

OutcomeInv ==
    /\ RunSuccessIsEarned
    /\ ReceiptTellsTheTruth
    /\ \A w \in Workers : TargetIsEarned(w) /\ ReceiptOpen(w)

LEMMA SettledKept ==
    ASSUME RowsAdvance, NEW S, S \subseteq 1..nItems, AllSettled(S)
    PROVE  \A i \in S : items'[i].status \in Settled
BY DEF RowsAdvance, AllSettled

\* New rows belong to new runs.
NewRowsNewRuns ==
    \A i \in 1..nItems' : i \notin 1..nItems => items'[i].run \notin 1..nRuns

LEMMA RunItemsKept ==
    ASSUME TypeInv, RowsAdvance, NewRowsNewRuns, NEW n \in 1..nRuns
    PROVE  ItemsOfRun(n)' = ItemsOfRun(n) /\ ItemsOfRun(n) \subseteq 1..nItems
<1>1. nItems \in Nat BY DEF TypeInv, TypeOK, ItemsOK
<1>. QED BY <1>1 DEF ItemsOfRun, ItemIds, RowsAdvance, NewRowsNewRuns

LEMMA RunSuccessKept ==
    ASSUME TypeInv, OutcomeInv, RowsAdvance, NewRowsNewRuns,
           \A n \in 1..nRuns' : runs'[n].status = "succeeded" =>
               n \in 1..nRuns /\ AllSettled(ItemsOfRun(n))
    PROVE  RunSuccessIsEarned'
<1>1. ASSUME NEW n \in 1..nRuns', runs'[n].status = "succeeded",
             NEW i \in 1..nItems', items'[i].run = n
      PROVE  items'[i].status \in Settled
  <2>1. n \in 1..nRuns /\ AllSettled(ItemsOfRun(n)) BY <1>1
  <2>2. i \in ItemsOfRun(n)' BY <1>1 DEF ItemsOfRun, ItemIds
  <2>3. ItemsOfRun(n)' = ItemsOfRun(n) /\ ItemsOfRun(n) \subseteq 1..nItems
    BY <2>1, RunItemsKept
  <2>4. AllSettled(ItemsOfRun(n)) BY <2>1
  <2>. DEFINE S == ItemsOfRun(n)
  <2>. HIDE DEF S
  <2>5. \A j \in S : items'[j].status \in Settled
    BY <2>3, <2>4, SettledKept DEF S
  <2>. QED BY <2>2, <2>3, <2>5 DEF S
<1>. QED BY <1>1 DEF RunSuccessIsEarned, RunIds, ItemIds

\* The runs whose success was earned before the step.
LEMMA EarnedBefore ==
    ASSUME TypeInv, OutcomeInv, NEW n \in 1..nRuns, runs[n].status = "succeeded"
    PROVE  AllSettled(ItemsOfRun(n))
BY DEF OutcomeInv, RunSuccessIsEarned, RunIds, ItemIds, AllSettled, ItemsOfRun

LEMMA RunOfType ==
    ASSUME TypeInv, NEW v \in Workers, workers[v].pc \in {"readRun", "writeRun"}
    PROVE  RunOf(v) \in 1..nRuns
<1>1. /\ Fits(workers[v], nItems, nRuns) /\ nItems \in Nat
      /\ \A i \in 1..nItems : items[i].run \in 1..nRuns
  BY DEF TypeInv, TypeOK, ItemsOK, RequestsFit, ItemIds, RunIds
<1>2. workers[v].item # 0 => workers[v].item \in 1..nItems BY <1>1 DEF Fits
<1>. QED BY <1>1, <1>2 DEF Fits, RunOf, Row

LEMMA TargetKept ==
    ASSUME TypeInv, OutcomeInv, RowsAdvance, NewRowsNewRuns, NEW v \in Workers,
           workers'[v].item = workers[v].item, workers'[v].run = workers[v].run,
           workers[v].item \in 0..nItems,
           RunOf(v) \in 1..nRuns, AllSettled(ItemsOfRun(RunOf(v)))
    PROVE  AllSettled(ItemsOfRun(RunOf(v)))'
<1>1. RunOf(v)' = RunOf(v)
  <2>1. workers[v].item # 0 => items'[workers[v].item].run = items[workers[v].item].run
    BY DEF RowsAdvance, TypeInv, TypeOK, ItemsOK
  <2>. QED BY <2>1 DEF RunOf, Row
<1>. DEFINE n == RunOf(v)
            S == ItemsOfRun(n)
<1>2. S' = S /\ S \subseteq 1..nItems
  <2>1. \A m \in 1..nRuns : ItemsOfRun(m)' = ItemsOfRun(m) /\ ItemsOfRun(m) \subseteq 1..nItems
    BY RunItemsKept
  <2>2. ItemsOfRun(n)' = {i \in ItemIds' : items'[i].run = n'} BY DEF ItemsOfRun
  <2>3. ASSUME NEW m, m = n PROVE ItemsOfRun(m)' = ItemsOfRun(n)'
    BY <1>1, <2>3 DEF ItemsOfRun
  <2>. QED BY <2>1, <2>3
<1>3. AllSettled(S) OBVIOUS
<1>. HIDE DEF S
<1>4. \A i \in S : items'[i].status \in Settled BY <1>2, <1>3, SettledKept
<1>. QED BY <1>2, <1>4 DEF AllSettled, S

LEMMA TargetsKept ==
    ASSUME TypeInv, OutcomeInv, RowsAdvance, NewRowsNewRuns, NEW v \in Workers,
           workers'[v] = workers[v]
    PROVE  TargetIsEarned(v)'
<1>. SUFFICES ASSUME workers[v].pc \in {"readRun", "writeRun"},
                     workers[v].target = "succeeded"
              PROVE  AllSettled(ItemsOfRun(RunOf(v)))'
  BY DEF TargetIsEarned
<1>1. RunOf(v) \in 1..nRuns BY RunOfType
<1>2. workers[v].item \in 0..nItems BY DEF TypeInv, RequestsFit, Fits
<1>3. AllSettled(ItemsOfRun(RunOf(v))) BY DEF OutcomeInv, TargetIsEarned
<1>. QED BY <1>1, <1>2, <1>3, TargetKept

\* Receipts keep their targets.
ReceiptsStay ==
    /\ DOMAIN receipts \subseteq DOMAIN receipts'
    /\ \A c \in DOMAIN receipts : receipts'[c].targets = receipts[c].targets

LEMMA TargetIds ==
    ASSUME TypeInv, NEW c \in DOMAIN receipts
    PROVE  receipts[c].targets \subseteq 1..nItems
BY DEF TypeInv, TypeOK, ReceiptsOK, ItemIds

LEMMA TruthKept ==
    ASSUME TypeInv, OutcomeInv, RowsAdvance, ReceiptsStay,
           \A c \in DOMAIN receipts' : receipts'[c].status = "succeeded" =>
               /\ c \in DOMAIN receipts
               /\ AllSettled(receipts[c].targets)
    PROVE  ReceiptTellsTheTruth'
<1>1. ASSUME NEW c \in DOMAIN receipts', receipts'[c].status = "succeeded",
             NEW i \in receipts'[c].targets
      PROVE  items'[i].status \in Settled
  <2>. DEFINE S == receipts[c].targets
  <2>1. c \in DOMAIN receipts /\ AllSettled(S) BY <1>1
  <2>2. i \in S /\ S \subseteq 1..nItems BY <1>1, <2>1, TargetIds DEF ReceiptsStay
  <2>. HIDE DEF S
  <2>. QED BY <2>1, <2>2, SettledKept
<1>. QED BY <1>1 DEF ReceiptTellsTheTruth

LEMMA TruthBefore ==
    ASSUME OutcomeInv, NEW c \in DOMAIN receipts, receipts[c].status = "succeeded"
    PROVE  AllSettled(receipts[c].targets)
BY DEF OutcomeInv, ReceiptTellsTheTruth, AllSettled

LEMMA OpenKept ==
    ASSUME TypeInv, OutcomeInv, RowsAdvance, ReceiptsStay, NEW v \in Workers,
           workers'[v] = workers[v]
    PROVE  ReceiptOpen(v)'
<1>1. ReceiptOpen(v) BY DEF OutcomeInv
<1>2. Work(v)' = Work(v) BY DEF Work
<1>3. ASSUME NEW c \in workers[v].corr, ~workers[v].someBad, workers[v].pc # "receipt",
             NEW i \in receipts'[c].targets \ Work(v)
      PROVE  items'[i].status \in Settled
  <2>. DEFINE S == receipts[c].targets \ Work(v)
  <2>1. c \in DOMAIN receipts /\ AllSettled(S) BY <1>1, <1>3 DEF ReceiptOpen
  <2>2. i \in S /\ S \subseteq 1..nItems BY <1>3, <2>1, TargetIds DEF ReceiptsStay
  <2>. HIDE DEF S
  <2>. QED BY <2>1, <2>2, SettledKept
<1>. QED BY <1>1, <1>2, <1>3 DEF ReceiptOpen, ReceiptsStay, AllSettled

LEMMA IdleOutcome ==
    ASSUME NEW v \in Workers, workers'[v] = Idle
    PROVE  TargetIsEarned(v)' /\ ReceiptOpen(v)'
BY DEF Idle, TargetIsEarned, ReceiptOpen

\* The status of a run is SUCCEEDED only where all items are settled.
LEMMA TargetEarned ==
    ASSUME TypeInv, NEW n \in 1..nRuns, RunTarget(n) = "succeeded"
    PROVE  AllSettled(ItemsOfRun(n))
<1>1. ASSUME NEW i \in ItemsOfRun(n) PROVE items[i].status \in Settled
  <2>1. items[i].status \in Statuses(n) BY DEF Statuses, ItemsOfRun, ItemIds
  <2>2. items[i].status \in ItemStatuses
    BY DEF ItemsOfRun, TypeInv, TypeOK, ItemsOK, ItemRow
  <2>3. items[i].status \notin {"pending", "running", "failed"} BY <2>1 DEF RunTarget
  <2>. QED BY <2>2, <2>3 DEF ItemStatuses, Settled
<1>. QED BY <1>1 DEF AllSettled

LEMMA StepTarget ==
    ASSUME TypeInv, ClaimInv, OutcomeInv, NEW w \in Workers, Step(w)
    PROVE  TargetIsEarned(w)'
<1>. SUFFICES ASSUME workers'[w].pc \in {"readRun", "writeRun"},
                     workers'[w].target = "succeeded"
              PROVE  AllSettled(ItemsOfRun(RunOf(w)))'
  BY DEF TargetIsEarned
<1>1. SameRequest(w) /\ KeepsItem(w)
  BY StepRequest DEF RequestStep, TakesItem, LeavesItem, Idle
<1>2. /\ workers'[w].item = workers[w].item /\ workers'[w].run = workers[w].run
      /\ workers[w].item \in 0..nItems
  BY <1>1 DEF SameRequest, KeepsItem, TypeInv, RequestsFit, Fits
<1>3. /\ Fits(workers[w], nItems, nRuns) /\ nItems \in Nat
      /\ \A i \in 1..nItems : items[i].run \in 1..nRuns
  BY DEF TypeInv, TypeOK, ItemsOK, RequestsFit, ItemIds, RunIds
<1>4. RunOf(w) \in 1..nRuns /\ AllSettled(ItemsOfRun(RunOf(w)))
  <2>1. CASE workers'[w].pc = "readRun"
    <3>1. workers'[w].target = RunTarget(RunOf(w)) BY <1>1, <2>1 DEF KeepsItem
    <3>2. workers[w].pc \in {"readItems", "next"} BY <1>1, <2>1 DEF KeepsItem, Flow
    <3>3. RunOf(w) \in 1..nRuns
      <4>1. CASE workers[w].item # 0
        <5>1. workers[w].item \in 1..nItems BY <1>2, <1>3, <4>1
        <5>. QED BY <4>1, <5>1, <1>3 DEF RunOf, Row
      <4>2. CASE workers[w].item = 0
        <5>1. workers[w].pc = "next" BY <3>2, <4>2, <1>3 DEF Fits, AtItem
        <5>2. workers[w].mode = "run"
          BY <5>1, <1>1 DEF KeepsItem
        <5>. QED BY <4>2, <5>2, <1>3 DEF Fits, RunOf
      <4>. QED BY <4>1, <4>2
    <3>. QED BY <3>1, <3>3, TargetEarned
  <2>2. CASE workers'[w].pc = "writeRun"
    <3>1. workers[w].pc = "readRun" /\ workers[w].target = "succeeded"
      BY <1>1, <2>2 DEF KeepsItem, Flow
    <3>. QED BY <3>1, RunOfType DEF OutcomeInv, TargetIsEarned
  <2>. QED BY <2>1, <2>2
<1>5. RowsAdvance /\ NewRowsNewRuns BY StepAdvance, StepFrame DEF NewRowsNewRuns
<1>. QED BY <1>2, <1>4, <1>5, TargetKept

LEMMA StepRunSuccess ==
    ASSUME TypeInv, ClaimInv, OutcomeInv, NEW w \in Workers, Step(w)
    PROVE  RunSuccessIsEarned'
<1>1. RowsAdvance /\ NewRowsNewRuns /\ nRuns' = nRuns
  BY StepAdvance, StepFrame DEF NewRowsNewRuns
<1>2. ASSUME NEW n \in 1..nRuns', runs'[n].status = "succeeded"
      PROVE  AllSettled(ItemsOfRun(n))
  <2>1. CASE runs'[n] = runs[n] BY <1>1, <1>2, <2>1, EarnedBefore
  <2>2. CASE runs'[n] # runs[n]
    <3>1. WriteRun(w) BY <2>2, StepFrames
    <3>2. workers[w].pc = "writeRun" BY <3>1 DEF WriteRun
    <3>3. runs' = [runs EXCEPT ![RunOf(w)] = MovedRun(w)] BY <3>1, <2>2 DEF WriteRun
    <3>4. runs \in [1..nRuns -> RunRow] BY DEF TypeInv, TypeOK, RunsOK, RunIds
    <3>5. n = RunOf(w) /\ runs'[n] = MovedRun(w) BY <1>1, <2>2, <3>3, <3>4
    <3>. DEFINE row == [runs[RunOf(w)] EXCEPT !.keys = @ \cup {RunKey(w)}]
                ver == row.version + 1
    <3>6. row \in [{"status", "version", "keys"} -> UNION {RunStatuses, Nat, SUBSET ((RunStatuses \X Nat) \cup {RunKey(w)})}]
      BY <3>4, <3>5, <1>1 DEF RunRow
    <3>7. MovedRun(w).status = workers[w].target
      <4>1. MovedRun(w) = [row EXCEPT !.status = workers[w].target, !.version = ver]
        BY DEF MovedRun, Applied
      <4>2. "status" \in DOMAIN row BY <3>6
      <4>. HIDE DEF row, ver
      <4>. QED BY <4>1, <4>2
    <3>8. workers[w].target = "succeeded" BY <1>2, <3>5, <3>7
    <3>. QED BY <3>2, <3>5, <3>8 DEF OutcomeInv, TargetIsEarned
  <2>. QED BY <2>1, <2>2
<1>. QED BY <1>1, <1>2, RunSuccessKept

LEMMA StepReceipts ==
    ASSUME TypeInv, NEW w \in Workers, Step(w)
    PROVE  /\ ReceiptsStay
           /\ DOMAIN receipts' = DOMAIN receipts
           /\ \A c \in DOMAIN receipts : receipts'[c] # receipts[c] =>
                /\ FinishReceipt(w) /\ c \in workers[w].corr
                /\ receipts'[c].status = ReceiptStatus(w)
<1>1. CASE UNCHANGED receipts BY <1>1 DEF ReceiptsStay
<1>2. CASE FinishReceipt(w)
  <2>. DEFINE st == ReceiptStatus(w)
  <2>1. receipts' = [c \in DOMAIN receipts |->
             IF c \in workers[w].corr THEN [receipts[c] EXCEPT !.status = st]
             ELSE receipts[c]]
    BY <1>2 DEF FinishReceipt
  <2>2. \A c \in DOMAIN receipts : receipts[c] \in ReceiptRow
    BY DEF TypeInv, TypeOK, ReceiptsOK
  <2>. HIDE DEF st
  <2>3. ASSUME NEW c \in DOMAIN receipts
        PROVE  /\ [receipts[c] EXCEPT !.status = st].status = st
               /\ [receipts[c] EXCEPT !.status = st].targets = receipts[c].targets
    BY <2>2 DEF ReceiptRow
  <2>4. /\ DOMAIN receipts' = DOMAIN receipts
        /\ \A c \in DOMAIN receipts :
             /\ receipts'[c].targets = receipts[c].targets
             /\ receipts'[c] # receipts[c] =>
                  c \in workers[w].corr /\ receipts'[c].status = st
    BY <2>1, <2>3
  <2>. QED BY <1>2, <2>4 DEF ReceiptsStay, st
<1>. QED BY <1>1, <1>2, StepFrames

LEMMA StepTruth ==
    ASSUME TypeInv, ClaimInv, OutcomeInv, NEW w \in Workers, Step(w)
    PROVE  ReceiptTellsTheTruth'
<1>1. RowsAdvance /\ ReceiptsStay /\ DOMAIN receipts' = DOMAIN receipts
  BY StepAdvance, StepReceipts
<1>2. ASSUME NEW c \in DOMAIN receipts', receipts'[c].status = "succeeded"
      PROVE  AllSettled(receipts[c].targets)
  <2>1. CASE receipts'[c] = receipts[c] BY <1>1, <1>2, <2>1, TruthBefore
  <2>2. CASE receipts'[c] # receipts[c]
    <3>1. /\ FinishReceipt(w) /\ c \in workers[w].corr
          /\ ReceiptStatus(w) = "succeeded"
      BY <1>1, <1>2, <2>2, StepReceipts
    <3>2. workers[w].outcome # "ambiguous" /\ ~workers[w].someBad
      BY <3>1 DEF ReceiptStatus
    <3>3. workers[w].pc = "next" /\ workers[w].queue = {}
      BY <3>1, <3>2 DEF FinishReceipt, OutcomeInv, ReceiptOpen
    <3>4. Work(w) = {} BY <3>3 DEF TypeInv, RequestsFit, Fits, Work
    <3>5. AllSettled(receipts[c].targets \ Work(w))
      BY <3>1, <3>2, <3>3 DEF OutcomeInv, ReceiptOpen
    <3>. QED BY <3>4, <3>5 DEF AllSettled
  <2>. QED BY <2>1, <2>2
<1>. QED BY <1>1, <1>2, TruthKept

LEMMA ReceiptEnds ==
    ASSUME TypeInv, NEW w \in Workers, Step(w), workers[w].pc = "receipt"
    PROVE  workers'[w] = Idle
<1>1. FinishReceipt(w)
  BY DEF Step, Claim, Blocked, Check, ClientFails, Start, Accepted, AnsweredDuplicate,
       Rejected, ServerError, ConnectionBreaks, Reconcile, Finish, Record, ReadItems,
       ReadRun, WriteRun, Release, Count
<1>. QED BY <1>1, Others DEF FinishReceipt

LEMMA StepOpen ==
    ASSUME TypeInv, ClaimInv, OutcomeInv, NEW w \in Workers, Step(w)
    PROVE  ReceiptOpen(w)'
<1>1. RowsAdvance /\ ReceiptsStay BY StepAdvance, StepReceipts
<1>2. ReceiptOpen(w) /\ Fits(workers[w], nItems, nRuns)
  BY DEF OutcomeInv, TypeInv, RequestsFit
<1>3. CASE workers'[w] = Idle BY <1>3, IdleOutcome
<1>4. CASE /\ SameRequest(w) /\ (TakesItem(w) \/ KeepsItem(w) \/ LeavesItem(w))
           /\ workers'[w] # Idle
  <2>1. /\ workers'[w].corr = workers[w].corr /\ workers'[w].mode = workers[w].mode
        /\ workers[w].corr \subseteq DOMAIN receipts
    BY <1>2, <1>4 DEF SameRequest, ReceiptOpen
  <2>2. workers'[w].pc = "receipt" => workers'[w].outcome = "ambiguous"
    BY <1>4 DEF TakesItem, KeepsItem, LeavesItem, Flow
  <2>3. ASSUME NEW c \in workers[w].corr, ~workers'[w].someBad,
               workers'[w].pc # "receipt",
               NEW i \in receipts'[c].targets \ Work(w)'
        PROVE  items'[i].status \in Settled
    <3>. DEFINE S == receipts[c].targets \ Work(w)
    <3>1. c \in DOMAIN receipts /\ receipts'[c].targets = receipts[c].targets
      BY <1>1, <2>1 DEF ReceiptsStay
    <3>2. ~workers[w].someBad /\ workers[w].pc # "receipt"
      <4>1. CASE TakesItem(w) BY <2>3, <4>1 DEF TakesItem
      <4>2. CASE KeepsItem(w) BY <2>3, <4>2 DEF KeepsItem, Flow
      <4>3. CASE LeavesItem(w)
        <5>1. workers[w].mode = "recovery" BY <1>2, <2>3 DEF ReceiptOpen
        <5>2. workers[w].pc # "receipt" BY <1>4, ReceiptEnds
        <5>. QED BY <2>3, <4>3, <5>1, <5>2 DEF LeavesItem
      <4>. QED BY <1>4, <4>1, <4>2, <4>3
    <3>3. AllSettled(S) BY <1>2, <3>2 DEF ReceiptOpen
    <3>4. S \subseteq 1..nItems BY <3>1, TargetIds
    <3>5. i \in S \/ (i = workers[w].item /\ LeavesItem(w))
      <4>1. i \in 1..nItems /\ nItems \in Nat /\ i \in receipts[c].targets
        BY <2>3, <3>1, TargetIds DEF TypeInv, TypeOK, ItemsOK
      <4>2. i # 0 BY <4>1
      <4>3. CASE TakesItem(w)
        <5>1. workers[w].item = 0 BY <1>2, <4>3 DEF TakesItem, Fits
        <5>. QED BY <2>3, <4>1, <4>2, <4>3, <5>1 DEF TakesItem, Work
      <4>4. CASE KeepsItem(w) BY <2>3, <4>1, <4>4 DEF KeepsItem, Work
      <4>5. CASE LeavesItem(w) BY <2>3, <4>1, <4>5 DEF LeavesItem, Work
      <4>. QED BY <1>4, <4>3, <4>4, <4>5
    <3>6. CASE i \in S
      <4>. HIDE DEF S
      <4>. QED BY <1>1, <3>3, <3>4, <3>6, SettledKept
    <3>7. CASE i = workers[w].item /\ LeavesItem(w) /\ i \notin S
      <4>1. Row(w).status \in Settled /\ UNCHANGED items
        BY <1>2, <2>1, <2>3, <3>7 DEF LeavesItem, ReceiptOpen
      <4>. QED BY <3>7, <4>1 DEF Row
    <3>. QED BY <3>5, <3>6, <3>7
  <2>4. \A c \in workers'[w].corr :
           ~workers'[w].someBad /\ workers'[w].pc # "receipt" =>
              AllSettled(receipts[c].targets \ Work(w))'
    BY <2>1, <2>3 DEF AllSettled
  <2>. QED BY <1>1, <1>2, <2>1, <2>2, <2>4 DEF ReceiptOpen, ReceiptsStay
<1>. QED BY <1>3, <1>4, StepRequest DEF RequestStep

LEMMA InitOutcome == Init => OutcomeInv
<1>. SUFFICES ASSUME Init PROVE OutcomeInv
  OBVIOUS
<1>1. nRuns = 0 /\ receipts = <<>> BY DEF Init
<1>2. RunIds = {} /\ DOMAIN receipts = {} BY <1>1 DEF RunIds
<1>3. ASSUME NEW w \in Workers PROVE TargetIsEarned(w) /\ ReceiptOpen(w)
  <2>1. workers[w] = Idle BY DEF Init
  <2>. QED BY <2>1 DEF Idle, TargetIsEarned, ReceiptOpen
<1>. QED BY <1>2, <1>3 DEF OutcomeInv, RunSuccessIsEarned, ReceiptTellsTheTruth

\* A step that leaves receipts and the statuses of runs alone and changes the
\* request of one worker at most.
LEMMA OutcomeKept ==
    ASSUME TypeInv, OutcomeInv, RowsAdvance, NewRowsNewRuns, UNCHANGED receipts,
           \A n \in 1..nRuns' : runs'[n].status = "succeeded" =>
               n \in 1..nRuns /\ runs[n].status = "succeeded",
           \A v \in Workers :
               workers'[v] # workers[v] => TargetIsEarned(v)' /\ ReceiptOpen(v)'
    PROVE  OutcomeInv'
<1>1. RunSuccessIsEarned'
  <2>1. \A n \in 1..nRuns' : runs'[n].status = "succeeded" =>
               n \in 1..nRuns /\ AllSettled(ItemsOfRun(n))
    BY EarnedBefore
  <2>. QED BY <2>1, RunSuccessKept
<1>2. ReceiptsStay BY DEF ReceiptsStay
<1>3. ReceiptTellsTheTruth' BY <1>2, TruthBefore, TruthKept
<1>4. ASSUME NEW v \in Workers PROVE TargetIsEarned(v)' /\ ReceiptOpen(v)'
  BY <1>2, TargetsKept, OpenKept
<1>. QED BY <1>1, <1>3, <1>4 DEF OutcomeInv

LEMMA NextOutcome == TypeInv /\ ClaimInv /\ OutcomeInv /\ [Next]_vars => OutcomeInv'
<1>. SUFFICES ASSUME TypeInv, ClaimInv, OutcomeInv, [Next]_vars PROVE OutcomeInv'
  OBVIOUS
<1>0. nItems \in Nat /\ nRuns \in Nat BY DEF TypeInv, TypeOK, ItemsOK, RunsOK
<1>a. UNCHANGED nItems => NewRowsNewRuns BY DEF NewRowsNewRuns
<1>b. UNCHANGED <<nItems, items>> => RowsAdvance BY <1>0 DEF RowsAdvance
<1>1. CASE UNCHANGED <<nRuns, runs, nItems, items, receipts, workers>>
  BY <1>1, <1>a, <1>b, OutcomeKept
<1>2. CASE UNCHANGED vars BY <1>1, <1>2 DEF vars, rows
<1>3. ASSUME NEW r \in Records, Edit(r) PROVE OutcomeInv'
  BY <1>1, <1>3 DEF Edit, rows
<1>4. ASSUME NEW r \in Records, Resolve(r) PROVE OutcomeInv'
  BY <1>4, <1>a, ResolveAdvance, OutcomeKept DEF Resolve
<1>5. ASSUME NEW S \in SUBSET Records, MakePreview(S) PROVE OutcomeInv'
  BY <1>1, <1>5 DEF MakePreview
<1>6. ASSUME NEW w \in Workers, ExecutePreview(w) PROVE OutcomeInv'
  <2>. DEFINE new == [status |-> "running", version |-> 1, keys |-> {}]
  <2>1. PICK n \in Nat :
             /\ nItems' = nItems + n /\ nRuns' = nRuns + 1
             /\ \A i \in 1..nItems : items'[i] = items[i]
             /\ \A i \in nItems + 1..nItems + n : items'[i].run = nRuns + 1
             /\ runs' = Set(runs, nRuns + 1, new)
             /\ Become(w, Arrived("run", nRuns + 1, {}, nItems + 1..nItems + n))
             /\ UNCHANGED receipts
    BY <1>6, NewRun
  <2>2. RowsAdvance /\ NewRowsNewRuns BY <2>1, <1>0 DEF RowsAdvance, NewRowsNewRuns
  <2>3. \A m \in 1..nRuns' : runs'[m].status = "succeeded" =>
               m \in 1..nRuns /\ runs[m].status = "succeeded"
    <3>1. new.status # "succeeded" OBVIOUS
    <3>2. runs'[nRuns + 1] = new /\ \A m \in 1..nRuns : runs'[m] = runs[m]
      BY <2>1, <1>0 DEF Set, TypeInv, TypeOK, RunsOK, RunIds
    <3>. HIDE DEF new
    <3>. QED BY <3>1, <3>2, <2>1, <1>0
  <2>4. ASSUME NEW v \in Workers, workers'[v] # workers[v]
        PROVE TargetIsEarned(v)' /\ ReceiptOpen(v)'
    <3>. DEFINE q == Arrived("run", nRuns + 1, {}, nItems + 1..nItems + n)
    <3>1. q.pc = "next" /\ q.corr = {} BY DEF Arrived, Idle
    <3>. HIDE DEF q
    <3>2. workers'[v] = q BY <2>1, <2>4, Others DEF q
    <3>. QED BY <3>1, <3>2 DEF TargetIsEarned, ReceiptOpen
  <2>. QED BY <2>1, <2>2, <2>3, <2>4, OutcomeKept
<1>7. ASSUME NEW w \in Workers, Retry(w) PROVE OutcomeInv'
  <2>1. UNCHANGED <<nRuns, runs, nItems, items, receipts>> BY <1>7 DEF Retry, rows
  <2>2. PICK i : Become(w, Arrived("retry", 0, {}, {i})) BY <1>7 DEF Retry
  <2>3. ASSUME NEW v \in Workers, workers'[v] # workers[v]
        PROVE TargetIsEarned(v)' /\ ReceiptOpen(v)'
    <3>. DEFINE q == Arrived("retry", 0, {}, {i})
    <3>1. q.pc = "next" /\ q.corr = {} BY DEF Arrived, Idle
    <3>. HIDE DEF q
    <3>2. workers'[v] = q BY <2>2, <2>3, Others DEF q
    <3>. QED BY <3>1, <3>2 DEF TargetIsEarned, ReceiptOpen
  <2>. QED BY <2>1, <2>3, <1>a, <1>b, OutcomeKept
<1>8. ASSUME NEW w \in Workers, ConfirmRecovery(w) PROVE OutcomeInv'
  <2>1. UNCHANGED <<nRuns, runs, nItems, items>> BY <1>8 DEF ConfirmRecovery, rows
  <2>2. PICK c \in Correlations \ DOMAIN receipts, S \in SUBSET LatestFailed :
          /\ receipts' = Set(receipts, c, [status |-> "pending", targets |-> S])
          /\ Become(w, Arrived("recovery", 0, {c}, S))
    BY <1>8 DEF ConfirmRecovery
  <2>. DEFINE q == Arrived("recovery", 0, {c}, S)
              row == [status |-> "pending", targets |-> S]
  <2>3. /\ q.pc = "next" /\ q.corr = {c} /\ q.queue = S /\ q.item = 0
        /\ q.mode = "recovery"
    BY DEF Arrived, Idle
  <2>4. row.targets = S /\ row.status # "succeeded" OBVIOUS
  <2>. HIDE DEF q, row
  <2>5. workers'[w] = q /\ \A v \in Workers \ {w} : workers'[v] = workers[v]
    BY <2>2, Others DEF q
  <2>6. /\ DOMAIN receipts' = DOMAIN receipts \cup {c} /\ receipts'[c] = row
        /\ \A d \in DOMAIN receipts : receipts'[d] = receipts[d]
    BY <2>2 DEF Set, row
  <2>7. ReceiptsStay /\ RowsAdvance /\ NewRowsNewRuns
    BY <2>1, <2>6, <1>a, <1>b DEF ReceiptsStay
  <2>8. RunSuccessIsEarned' BY <2>1, <2>7, EarnedBefore, RunSuccessKept
  <2>9. ReceiptTellsTheTruth'
    <3>1. \A d \in DOMAIN receipts' : receipts'[d].status = "succeeded" =>
               d \in DOMAIN receipts /\ AllSettled(receipts[d].targets)
      BY <2>4, <2>6, TruthBefore
    <3>. QED BY <2>7, <3>1, TruthKept
  <2>10. ASSUME NEW v \in Workers PROVE TargetIsEarned(v)' /\ ReceiptOpen(v)'
    <3>1. CASE v # w BY <2>5, <2>7, <3>1, TargetsKept, OpenKept
    <3>2. CASE v = w
      <4>1. TargetIsEarned(v)' BY <2>3, <2>5, <3>2 DEF TargetIsEarned
      <4>2. Work(v)' = S BY <2>3, <2>5, <3>2 DEF Work
      <4>3. ReceiptOpen(v)'
        BY <2>3, <2>4, <2>5, <2>6, <3>2, <4>2 DEF ReceiptOpen, AllSettled
      <4>. QED BY <4>1, <4>3
    <3>. QED BY <3>1, <3>2
  <2>. QED BY <2>8, <2>9, <2>10 DEF OutcomeInv
<1>9. ASSUME NEW w \in Workers, Step(w) PROVE OutcomeInv'
  <2>1. /\ RowsAdvance /\ NewRowsNewRuns /\ ReceiptsStay
        /\ \A v \in Workers \ {w} : workers'[v] = workers[v]
    BY <1>9, <1>a, StepAdvance, StepFrame, StepReceipts, StepFlow
  <2>2. ASSUME NEW v \in Workers PROVE TargetIsEarned(v)' /\ ReceiptOpen(v)'
    <3>1. CASE v = w BY <1>9, <3>1, StepTarget, StepOpen
    <3>2. CASE v # w BY <2>1, <3>2, TargetsKept, OpenKept
    <3>. QED BY <3>1, <3>2
  <2>. QED BY <1>9, <2>2, StepRunSuccess, StepTruth DEF OutcomeInv
<1>10. ASSUME NEW w \in Workers, Crash(w) PROVE OutcomeInv'
  <2>1. UNCHANGED <<nRuns, runs, nItems, items, receipts>> /\ Become(w, Idle)
    BY <1>10 DEF Crash, rows
  <2>2. \A v \in Workers : workers'[v] # workers[v] => workers'[v] = Idle
    BY <2>1, Others
  <2>. QED BY <2>1, <2>2, <1>a, <1>b, IdleOutcome, OutcomeKept
<1>. QED
  BY <1>2, <1>3, <1>4, <1>5, <1>6, <1>7, <1>8, <1>9, <1>10 DEF Next

\* What a request has counted as settled is settled still, so the outcome it is
\* about to write is earned; inductive with TypeInv and ClaimInv.
THEOREM OutcomeInvariant == Spec => [](TypeInv /\ ClaimInv /\ OutcomeInv)
BY InitType, InitClaims, InitOutcome, NextType, NextClaims, NextOutcome, PTL DEF Spec

\* A run is marked SUCCEEDED only while every item of it is settled, although
\* the decision was taken on statuses read without a lock some steps before.
THEOREM RunSuccessEarned == Spec => []RunSuccessIsEarned
<1>1. OutcomeInv => RunSuccessIsEarned BY DEF OutcomeInv
<1>. QED BY <1>1, OutcomeInvariant, PTL

\* A recovery receipt that says SUCCEEDED names only settled items, whatever
\* other requests did to them after their claims were released.
THEOREM ReceiptsTellTheTruth == Spec => []ReceiptTellsTheTruth
<1>1. OutcomeInv => ReceiptTellsTheTruth BY DEF OutcomeInv
<1>. QED BY <1>1, OutcomeInvariant, PTL

-----------------------------------------------------------------------------
(* The engine implements RecordWriteProtocol: every step is, for each       *)
(* record, a move of the protocol or a stutter.                             *)

\* The owner of a claim is a request that is still inside it.
OwnedClaims ==
    \A r \in DOMAIN claims :
        /\ claims[r].owner # NoWorker =>
             Holding(claims[r].owner) /\ Rec(claims[r].owner) = r
        /\ claims[r].status = "ambiguous" => claims[r].owner = NoWorker

LEMMA OwnerType ==
    ASSUME TypeInv, NEW r \in DOMAIN claims
    PROVE  /\ r \in Records
           /\ claims[r].owner \in Workers \cup {NoWorker}
           /\ claims[r].item \in 1..nItems
           /\ claims[r].status \in {"in_progress", "ambiguous"}
BY DEF TypeInv, TypeOK, ClaimsOK, ClaimRow, ItemIds

LEMMA RaisedClaim ==
    ASSUME TypeInv, NEW w \in Workers, Raise(w), Rec(w) \in DOMAIN claims
    PROVE  /\ DOMAIN claims' = DOMAIN claims
           /\ claims'[Rec(w)].owner = NoWorker
           /\ claims'[Rec(w)].status = "ambiguous"
           /\ claims'[Rec(w)].item = claims[Rec(w)].item
           /\ \A s \in DOMAIN claims \ {Rec(w)} : claims'[s] = claims[s]
<1>. DEFINE r   == Rec(w)
            row == [claims[r] EXCEPT !.status = "ambiguous", !.owner = NoWorker]
<1>1. claims[r] \in ClaimRow BY DEF TypeInv, TypeOK, ClaimsOK
<1>2. row.owner = NoWorker /\ row.status = "ambiguous" /\ row.item = claims[r].item
  BY <1>1 DEF ClaimRow
<1>3. claims' = [claims EXCEPT ![r] = row] BY DEF Raise
<1>. HIDE DEF row, r
<1>4. claims'[r] = row BY <1>3 DEF r
<1>. QED BY <1>2, <1>3, <1>4 DEF r

\* A request that keeps its item keeps its claim, and stays inside it.
LEMMA KeepsHolding ==
    ASSUME TypeInv, ClaimInv, NEW w \in Workers, Step(w), Holding(w), ~Departs(w)
    PROVE  /\ Holding(w)' /\ Rec(w)' = Rec(w) /\ UNCHANGED claims
           /\ workers'[w].item = workers[w].item
           /\ <<workers[w].pc, workers'[w].pc>> \in Flow
<1>1. workers[w].item \in 1..nItems /\ nItems \in Nat /\ workers[w].pc \in HoldingPcs
  BY Exclusive DEF TypeInv, TypeOK, ItemsOK
<1>2. KeepsItem(w)
  BY <1>1, StepRequest DEF RequestStep, TakesItem, HoldingPcs
<1>3. workers'[w].item = workers[w].item BY <1>2 DEF KeepsItem
<1>4. workers[w].pc # "release"
  <2>1. workers[w].pc = "release" => Release(w)
    BY DEF Step, Claim, Blocked, Check, ClientFails, Start, Accepted, AnsweredDuplicate,
       Rejected, ServerError, ConnectionBreaks, Reconcile, Finish, Record, ReadItems,
       ReadRun, WriteRun, Count, FinishReceipt
  <2>. QED BY <2>1 DEF Departs
<1>5. <<workers[w].pc, workers'[w].pc>> \in Flow BY <1>2, <1>4 DEF KeepsItem
<1>6. workers'[w].pc \in HoldingPcs \ {"check"} BY <1>1, <1>5 DEF Flow, HoldingPcs
<1>7. Holding(w)' BY <1>1, <1>3, <1>6 DEF Holding, HoldingPcs
<1>8. workers'[w].pc \notin Parked BY <1>6 DEF HoldingPcs, Parked
<1>9. UNCHANGED claims
  BY <1>1, <1>8, StepFlow DEF TakesClaim, Follows, HoldingPcs
<1>10. Rec(w)' = Rec(w) BY <1>1, <1>3, StepRows DEF Rec, Row
<1>. QED BY <1>3, <1>5, <1>7, <1>9, <1>10

LEMMA StepOwned ==
    ASSUME TypeInv, ClaimInv, OwnedClaims, NEW w \in Workers, Step(w)
    PROVE  OwnedClaims'
<1>0. NoWorker \notin Workers BY WorkersAssumption
<1>. SUFFICES ASSUME NEW r \in DOMAIN claims'
              PROVE  /\ \A u \in Workers : claims'[r].owner = u =>
                          Holding(u)' /\ Rec(u)' = r
                     /\ claims'[r].status = "ambiguous" => claims'[r].owner = NoWorker
  <2>1. \A s \in DOMAIN claims' :
          claims'[s].owner # NoWorker => claims'[s].owner \in Workers
    BY StepTables DEF TypeOK, ClaimsOK, ClaimRow
  <2>. QED BY <2>1 DEF OwnedClaims, Holding, Rec, Row
<1>a. ASSUME r \in DOMAIN claims, claims'[r] = claims[r], claims[r].owner # w
      PROVE  /\ \A u \in Workers : claims'[r].owner = u => Holding(u)' /\ Rec(u)' = r
             /\ claims'[r].status = "ambiguous" => claims'[r].owner = NoWorker
  <2>1. ASSUME NEW u \in Workers, claims'[r].owner = u PROVE Holding(u)' /\ Rec(u)' = r
    <3>1. u # w /\ Holding(u) /\ Rec(u) = r
      BY <1>0, <1>a, <2>1 DEF OwnedClaims
    <3>2. Rec(u)' = Rec(u) /\ workers'[u] = workers[u] BY <3>1, OthersKeepClaims
    <3>. QED BY <3>1, <3>2 DEF Holding
  <2>. QED BY <1>a, <2>1 DEF OwnedClaims
<1>1. CASE UNCHANGED claims
  <2>1. CASE claims[r].owner # w BY <1>1, <1>a, <2>1
  <2>2. CASE claims[r].owner = w
    <3>1. Holding(w) /\ Rec(w) = r /\ claims[r].status # "ambiguous"
      BY <1>0, <1>1, <2>2 DEF OwnedClaims
    <3>2. ~Departs(w)
      <4>1. ~Raise(w)
        <5>1. Raise(w) => claims'[r].owner = NoWorker
          BY <1>1, <3>1, RaisedClaim
        <5>. QED BY <1>0, <1>1, <2>2, <5>1
      <4>2. ~Release(w) /\ ~(Check(w) /\ ~Eligible(workers[w].item))
        BY <1>1, <3>1 DEF Release, Check, Drop
      <4>. QED BY <3>1, <4>1, <4>2 DEF Departs
    <3>3. Holding(w)' /\ Rec(w)' = r BY <3>1, <3>2, KeepsHolding
    <3>. QED BY <1>1, <2>2, <3>1, <3>3
  <2>. QED BY <2>1, <2>2
<1>2. CASE TakesClaim(w)
  <2>1. PICK i \in workers[w].queue :
          /\ claims' = Set(claims, items[i].rec,
                        [item |-> i, status |-> "in_progress", owner |-> w])
          /\ Become(w, [[workers[w] EXCEPT !.item = i, !.queue = @ \ {i}]
                        EXCEPT !.pc = "check"])
          /\ UNCHANGED items
    BY <1>2 DEF TakesClaim
  <2>2. CASE r = items[i].rec
    <3>. DEFINE row == [item |-> i, status |-> "in_progress", owner |-> w]
    <3>1. claims'[r] = row BY <2>1, <2>2 DEF Set
    <3>2. row.owner = w /\ row.status = "in_progress" OBVIOUS
    <3>. HIDE DEF row
    <3>3. claims'[r].owner = w /\ claims'[r].status = "in_progress" BY <3>1, <3>2
    <3>4. workers[w] \in WorkerRow BY DEF TypeInv, RequestsFit
    <3>5. workers'[w] = [[workers[w] EXCEPT !.item = i, !.queue = @ \ {i}] EXCEPT !.pc = "check"]
      BY <2>1, Others
    <3>6. workers'[w].item = i /\ workers'[w].pc = "check" BY <3>4, <3>5 DEF WorkerRow
    <3>7. Holding(w)' /\ Rec(w)' = r BY <2>1, <2>2, <3>6 DEF Holding, Rec, Row
    <3>. QED BY <3>3, <3>7
  <2>3. CASE r # items[i].rec
    <3>1. r \in DOMAIN claims /\ claims'[r] = claims[r] BY <2>1, <2>3 DEF Set
    <3>2. claims[r].owner # w
      BY <1>0, <1>2, <3>1 DEF OwnedClaims, TakesClaim, Holding
    <3>. QED BY <3>1, <3>2, <1>a
  <2>. QED BY <2>2, <2>3
<1>3. CASE (Check(w) \/ Release(w)) /\ claims' = Drop(claims, Rec(w))
  <2>1. r \in DOMAIN claims /\ claims'[r] = claims[r] /\ r # Rec(w) BY <1>3 DEF Drop
  <2>2. claims[r].owner # w BY <1>0, <2>1 DEF OwnedClaims
  <2>. QED BY <2>1, <2>2, <1>a
<1>4. CASE Raise(w)
  <2>1. CASE r # Rec(w)
    <3>1. r \in DOMAIN claims /\ claims'[r] = claims[r] BY <1>4, <2>1 DEF Raise
    <3>2. claims[r].owner # w BY <1>0, <2>1, <3>1 DEF OwnedClaims
    <3>. QED BY <3>1, <3>2, <1>a
  <2>2. CASE r = Rec(w)
    <3>1. r \in DOMAIN claims BY <1>4 DEF Raise
    <3>. QED BY <1>0, <1>4, <2>2, <3>1, RaisedClaim
  <2>. QED BY <2>1, <2>2
<1>. QED BY <1>1, <1>2, <1>3, <1>4, StepClaims

LEMMA InitOwned == Init => OwnedClaims
BY DEF Init, OwnedClaims

\* Claims and the requests inside them stay as they are.
LEMMA OwnersKept ==
    ASSUME TypeInv, OwnedClaims, UNCHANGED claims,
           \A v \in Workers : Holding(v) =>
               workers'[v] = workers[v] /\ items'[workers[v].item].rec = items[workers[v].item].rec
    PROVE  OwnedClaims'
<1>. SUFFICES ASSUME NEW r \in DOMAIN claims, claims[r].owner # NoWorker
              PROVE  Holding(claims[r].owner)' /\ Rec(claims[r].owner)' = r
  BY DEF OwnedClaims
<1>1. claims[r].owner \in Workers BY OwnerType
<1>2. Holding(claims[r].owner) /\ Rec(claims[r].owner) = r BY DEF OwnedClaims
<1>. QED BY <1>1, <1>2 DEF Holding, Rec, Row

\* The owners of the next state, one by one.
LEMMA OwnedFrom ==
    ASSUME \A r \in DOMAIN claims' : claims'[r].owner # NoWorker =>
               /\ claims'[r].owner \in Workers
               /\ \A u \in Workers : claims'[r].owner = u =>
                      Holding(u)' /\ Rec(u)' = r,
           \A r \in DOMAIN claims' :
               claims'[r].status = "ambiguous" => claims'[r].owner = NoWorker
    PROVE  OwnedClaims'
BY DEF OwnedClaims, Holding, Rec, Row

LEMMA NextOwned == TypeInv /\ ClaimInv /\ OwnedClaims /\ [Next]_vars => OwnedClaims'
<1>. SUFFICES ASSUME TypeInv, ClaimInv, OwnedClaims, [Next]_vars PROVE OwnedClaims'
  OBVIOUS
<1>0. NoWorker \notin Workers BY WorkersAssumption
<1>1. CASE UNCHANGED <<items, claims, workers>> BY <1>1, OwnersKept
<1>2. CASE UNCHANGED vars BY <1>1, <1>2 DEF vars, rows
<1>3. ASSUME NEW r \in Records, Edit(r) PROVE OwnedClaims'
  BY <1>1, <1>3 DEF Edit, rows
<1>4. ASSUME NEW r \in Records, Resolve(r) PROVE OwnedClaims'
  <2>1. UNCHANGED workers /\ claims' = Drop(claims, r) BY <1>4 DEF Resolve
  <2>2. \A i \in 1..nItems : items'[i].rec = items[i].rec
    <3>1. PICK row : /\ items' = [items EXCEPT ![claims[r].item] = row]
                     /\ row.rec = items[claims[r].item].rec
                     /\ claims[r].item \in 1..nItems
      BY <1>4, ResolveItem
    <3>. QED BY <3>1 DEF TypeInv, TypeOK, ItemsOK, ItemIds
  <2>3. ASSUME NEW s \in DOMAIN claims'
        PROVE  /\ s \in DOMAIN claims /\ claims'[s] = claims[s]
    BY <2>1 DEF Drop
  <2>4. ASSUME NEW s \in DOMAIN claims', claims'[s].owner # NoWorker
        PROVE  /\ claims'[s].owner \in Workers
               /\ \A u \in Workers : claims'[s].owner = u => Holding(u)' /\ Rec(u)' = s
    <3>1. claims[s].owner \in Workers BY <2>3, <2>4, OwnerType
    <3>2. ASSUME NEW u \in Workers, claims[s].owner = u
          PROVE  Holding(u)' /\ Rec(u)' = s
      <4>1. Holding(u) /\ Rec(u) = s BY <2>3, <2>4, <3>2 DEF OwnedClaims
      <4>2. workers[u].item \in 1..nItems BY <4>1, Exclusive
      <4>. QED BY <2>1, <2>2, <4>1, <4>2 DEF Holding, Rec, Row
    <3>. QED BY <2>3, <3>1, <3>2
  <2>5. \A s \in DOMAIN claims' : claims'[s].status = "ambiguous" => claims'[s].owner = NoWorker
    BY <2>3 DEF OwnedClaims
  <2>. QED BY <2>4, <2>5, OwnedFrom
<1>5. ASSUME NEW S \in SUBSET Records, MakePreview(S) PROVE OwnedClaims'
  BY <1>1, <1>5 DEF MakePreview
<1>6. ASSUME NEW w \in Workers, ExecutePreview(w) \/ Retry(w) \/ ConfirmRecovery(w)
      PROVE OwnedClaims'
  <2>1. /\ UNCHANGED claims /\ workers[w] = Idle
        /\ \A i \in 1..nItems : items'[i] = items[i]
        /\ \E q : Become(w, q)
    BY <1>6, NewRun DEF Retry, ConfirmRecovery, rows
  <2>2. ~Holding(w) BY <2>1 DEF Idle, Holding
  <2>3. ASSUME NEW v \in Workers, Holding(v)
        PROVE  workers'[v] = workers[v] /\ items'[workers[v].item] = items[workers[v].item]
    BY <2>1, <2>2, <2>3, Others, Exclusive
  <2>. QED BY <2>1, <2>3, OwnersKept
<1>7. ASSUME NEW w \in Workers, Step(w) PROVE OwnedClaims'
  BY <1>7, StepOwned
<1>8. ASSUME NEW w \in Workers, Crash(w) PROVE OwnedClaims'
  <2>1. /\ UNCHANGED items /\ Become(w, Idle)
        /\ claims' = [r \in DOMAIN claims |->
             IF claims[r].owner = w THEN [claims[r] EXCEPT !.owner = NoWorker]
             ELSE claims[r]]
    BY <1>8 DEF Crash, rows
  <2>2. \A v \in Workers \ {w} : workers'[v] = workers[v] BY <2>1, Others
  <2>3. \A r \in DOMAIN claims : claims[r] \in ClaimRow BY DEF TypeInv, TypeOK, ClaimsOK
  <2>4. ASSUME NEW r \in DOMAIN claims
        PROVE  /\ claims'[r].status = claims[r].status
               /\ claims'[r].owner = IF claims[r].owner = w THEN NoWorker ELSE claims[r].owner
    BY <2>1, <2>3 DEF ClaimRow
  <2>5. ASSUME NEW r \in DOMAIN claims', claims'[r].owner # NoWorker
        PROVE  /\ claims'[r].owner \in Workers
               /\ \A u \in Workers : claims'[r].owner = u => Holding(u)' /\ Rec(u)' = r
    <3>0. r \in DOMAIN claims BY <2>1
    <3>1. claims[r].owner \in Workers \ {w} /\ claims'[r].owner = claims[r].owner
      BY <2>4, <2>5, <3>0, OwnerType
    <3>2. ASSUME NEW u \in Workers, claims[r].owner = u
          PROVE  Holding(u)' /\ Rec(u)' = r
      <4>1. Holding(u) /\ Rec(u) = r BY <2>5, <3>0, <3>1, <3>2 DEF OwnedClaims
      <4>. QED BY <2>1, <2>2, <3>1, <3>2, <4>1 DEF Holding, Rec, Row
    <3>. QED BY <3>1, <3>2
  <2>6. \A r \in DOMAIN claims' : claims'[r].status = "ambiguous" => claims'[r].owner = NoWorker
    BY <2>1, <2>4 DEF OwnedClaims
  <2>. QED BY <2>5, <2>6, OwnedFrom
<1>. QED BY <1>2, <1>3, <1>4, <1>5, <1>6, <1>7, <1>8 DEF Next

\* The phase of a held turn, by the program counter of its owner.
PhaseAt(pc) ==
    IF pc \in {"check", "start"} THEN "taken"
    ELSE IF pc = "call" THEN "sending" ELSE "closing"

LEMMA HeldPhase ==
    ASSUME ClaimInv, NEW w \in Workers, Holding(w)
    PROVE  /\ TurnPhase(Rec(w)) = PhaseAt(workers[w].pc)
           /\ TurnHolder(Rec(w)) = workers[w].item
<1>1. /\ Rec(w) \in DOMAIN claims
      /\ claims[Rec(w)].item = workers[w].item
      /\ claims[Rec(w)].status = "in_progress" /\ claims[Rec(w)].owner = w
  BY HeldClaim
<1>. QED BY <1>1, WorkersAssumption DEF TurnPhase, TurnHolder, PhaseAt

\* What the protocol sees of a record.
SameTurn(r) ==
    /\ TurnPhase(r)' = TurnPhase(r) /\ TurnHolder(r)' = TurnHolder(r)
    /\ LastSent(r)' = LastSent(r) /\ remote'[r] = remote[r]

\* Sends are recorded in the items' attempt counts.
SameSent(r) == SentItems(r)' = SentItems(r)

LEMMA SentKept ==
    ASSUME NEW r \in Records, SameSent(r)
    PROVE  LastSent(r)' = LastSent(r)
BY DEF LastSent, SameSent

\* The claim of the record, and its owner, are as before.
LEMMA PhaseKept ==
    ASSUME TypeInv, NEW r \in Records,
           r \in DOMAIN claims' <=> r \in DOMAIN claims,
           r \in DOMAIN claims => claims'[r] = claims[r],
           r \in DOMAIN claims /\ claims[r].owner # NoWorker =>
               PhaseAt(workers'[claims[r].owner].pc) = PhaseAt(workers[claims[r].owner].pc)
    PROVE  TurnPhase(r)' = TurnPhase(r) /\ TurnHolder(r)' = TurnHolder(r)
BY DEF TurnPhase, TurnHolder, PhaseAt

SameElsewhere(r) == \A s \in Records \ {r} : SameTurn(s)

\* The protocol's actions, as seen at one record.
LEMMA TurnMoves ==
    ASSUME NEW r \in Records, SameElsewhere(r),
           remote \in [Records -> Seq(Payloads)], remote' \in [Records -> Seq(Payloads)]
    PROVE  /\ /\ TurnPhase(r) = "free" /\ TurnPhase(r)' = "taken"
              /\ TurnHolder(r)' \in Nat \ {0}
              /\ LastSent(r)' = LastSent(r) /\ remote'[r] = remote[r]
              => Turns!Take(r)
           /\ /\ TurnPhase(r) = "taken" /\ TurnPhase(r)' = "sending"
              /\ TurnHolder(r)' = TurnHolder(r)
              /\ LastSent(r) <= TurnHolder(r) /\ LastSent(r)' = TurnHolder(r)
              /\ remote'[r] = remote[r]
              => Turns!Send(r)
           /\ /\ TurnPhase(r) = "sending"
              /\ TurnPhase(r)' \in {"sending", "closing", "doubtful"}
              /\ TurnHolder(r)' = TurnHolder(r) /\ LastSent(r)' = LastSent(r)
              => Turns!Write(r)
           /\ /\ TurnPhase(r) \in {"taken", "sending"} /\ TurnPhase(r)' = "closing"
              /\ TurnHolder(r)' = TurnHolder(r) /\ LastSent(r)' = LastSent(r)
              /\ remote'[r] = remote[r]
              => Turns!Close(r)
           /\ /\ TurnPhase(r) \in {"taken", "sending", "closing"}
              /\ TurnPhase(r)' = "doubtful"
              /\ TurnHolder(r)' = TurnHolder(r) /\ LastSent(r)' = LastSent(r)
              /\ remote'[r] = remote[r]
              => Turns!Doubt(r)
           /\ /\ TurnPhase(r) \in {"taken", "sending", "closing"}
              /\ TurnPhase(r)' = "orphaned"
              /\ TurnHolder(r)' = TurnHolder(r) /\ LastSent(r)' = LastSent(r)
              /\ remote'[r] = remote[r]
              => Turns!Orphan(r)
           /\ /\ TurnPhase(r) \in {"taken", "closing", "doubtful"}
              /\ TurnPhase(r)' = "free" /\ TurnHolder(r)' = 0
              /\ LastSent(r)' = LastSent(r) /\ remote'[r] = remote[r]
              => Turns!Free(r)
<1>. DEFINE phase    == [s \in Records |-> TurnPhase(s)]
            holder   == [s \in Records |-> TurnHolder(s)]
            lastSent == [s \in Records |-> LastSent(s)]
<1>1. /\ phase' = [phase EXCEPT ![r] = TurnPhase(r)']
      /\ holder' = [holder EXCEPT ![r] = TurnHolder(r)']
      /\ lastSent' = [lastSent EXCEPT ![r] = LastSent(r)']
      /\ remote' = [remote EXCEPT ![r] = remote'[r]]
      /\ phase[r] = TurnPhase(r) /\ holder[r] = TurnHolder(r)
      /\ holder'[r] = TurnHolder(r)' /\ lastSent[r] = LastSent(r)
      /\ remote'[r] \in Seq(Payloads)
  BY DEF SameElsewhere, SameTurn
<1>2. /\ TurnHolder(r)' = TurnHolder(r) => holder' = holder
      /\ LastSent(r)' = LastSent(r) => lastSent' = lastSent
      /\ remote'[r] = remote[r] => remote' = remote
  BY <1>1
<1>. QED
  BY <1>1, <1>2 DEF Turns!Take, Turns!Send, Turns!Write, Turns!Close, Turns!Doubt,
     Turns!Orphan, Turns!Free, Turns!Move

LEMMA Greatest ==
    ASSUME NEW n \in Nat, NEW S \in SUBSET (1..n), S # {}
    PROVE  LET m == CHOOSE i \in S : \A j \in S : j <= i
           IN  m \in S /\ \A j \in S : j <= m
<1>. DEFINE Below == {n - j : j \in S}
<1>1. Below \in SUBSET Nat /\ Below # {}
  <2>1. \A j \in S : n - j \in Nat OBVIOUS
  <2>2. PICK j \in S : TRUE OBVIOUS
  <2>3. n - j \in Below BY <2>2
  <2>. QED BY <2>1, <2>3
<1>2. PICK b \in Below : \A c \in Below : <<c, b>> \notin OpToRel(<, Nat)
  BY <1>1, NatLessThanWellFounded, WFMin
<1>3. \A c \in Below : b <= c
  <2>. HIDE DEF Below
  <2>1. \A c \in Below : c \in Nat /\ b \in Nat BY <1>1
  <2>2. \A c \in Below : ~(c < b) BY <1>2, <2>1, Zenon DEF OpToRel
  <2>. QED BY <2>1, <2>2
<1>4. PICK i \in S : b = n - i BY <1>2
<1>5. ASSUME NEW j \in S PROVE j <= i
  <2>1. n - j \in Below OBVIOUS
  <2>2. b <= n - j BY <1>3, <2>1
  <2>. QED BY <1>4, <2>2
<1>. QED BY <1>5

LEMMA SentIds ==
    ASSUME TypeInv, NEW r \in Records
    PROVE  SentItems(r) \in SUBSET (1..nItems) /\ nItems \in Nat
BY DEF SentItems, ItemIds, TypeInv, TypeOK, ItemsOK

\* What starting an item does to its attempts: it is sent, or closed without I/O.
LEMMA StartMoves ==
    ASSUME TypeInv, ClaimInv, WorkInv, NEW w \in Workers, Start(w)
    PROVE  /\ ~Raise(w) /\ workers'[w].pc = "call" => items'[workers[w].item].attempts > 0
           /\ Raise(w) \/ workers'[w].pc # "call" =>
                items'[workers[w].item].attempts = items[workers[w].item].attempts
<1>. DEFINE noop   == Row(w).action = "noop"
            sent   == [Row(w) EXCEPT !.attempts = @ + 1]
            p(pc)  == [workers[w] EXCEPT !.pc = pc, !.version = @ + 1]
<1>1. /\ workers[w].pc = "start" /\ Holding(w)
      /\ Row(w).status \in {"pending", "failed"} /\ workers[w].version = Row(w).version
  BY DEF Start, Holding, ClaimInv, HeldStatus, WorkInv, HeldVersion
<1>2. /\ workers[w].item \in 1..nItems /\ items \in [1..nItems -> ItemRow]
      /\ Row(w) \in ItemRow
  BY <1>1, Exclusive DEF TypeInv, TypeOK, ItemsOK, ItemIds, Row
<1>3. CASE noop
  <2>1. items' \in { [items EXCEPT ![workers[w].item] = Applied(Row(w), "noop")],
                     [items EXCEPT ![workers[w].item] = Row(w)] }
    BY <1>3 DEF Start
  <2>2. Applied(Row(w), "noop").attempts = Row(w).attempts
    BY <1>2 DEF Applied, ItemRow
  <2>3. items'[workers[w].item].attempts = items[workers[w].item].attempts
    BY <1>2, <2>1, <2>2 DEF Row
  <2>4. ~Raise(w) => workers'[w].pc # "call"
    <3>1. ~Raise(w) => Become(w, p("readItems")) BY <1>3 DEF Start
    <3>2. p("readItems").pc = "readItems" BY DEF TypeInv, RequestsFit, WorkerRow
    <3>. QED BY <3>1, <3>2, Others
  <2>. QED BY <2>3, <2>4
<1>4. CASE ~noop
  <2>1. Accepts(ItemMachine, Row(w), "running", workers[w].version)
    BY <1>1 DEF Accepts, ItemMachine
  <2>2. /\ items' = [items EXCEPT ![workers[w].item] = Applied(sent, "running")]
        /\ Become(w, p("call")) /\ UNCHANGED claims
    BY <1>4, <2>1 DEF Start
  <2>3. Applied(sent, "running").attempts = Row(w).attempts + 1
    BY <1>2 DEF Applied, ItemRow
  <2>4. items'[workers[w].item].attempts > 0
    BY <1>2, <2>2, <2>3 DEF ItemRow
  <2>5. p("call").pc = "call" BY DEF TypeInv, RequestsFit, WorkerRow
  <2>6. workers'[w].pc = "call" BY <2>2, <2>5, Others
  <2>7. ~Raise(w) BY <1>1, <2>2, HeldClaim, RaisedClaim
  <2>. QED BY <2>4, <2>6, <2>7
<1>. QED BY <1>3, <1>4

\* A step sends at most the item that its request starts.
LEMMA StepSent ==
    ASSUME TypeInv, ClaimInv, WorkInv, NEW w \in Workers, Step(w)
    PROVE  IF workers[w].pc = "start" /\ ~Raise(w) /\ workers'[w].pc = "call"
           THEN /\ \A s \in Records \ {Rec(w)} : SameSent(s)
                /\ \A s \in Records : s = Rec(w) =>
                     SentItems(s)' = SentItems(s) \cup {workers[w].item}
           ELSE \A s \in Records : SameSent(s)
<1>1. /\ nItems' = nItems
      /\ \A i \in 1..nItems : items'[i].rec = items[i].rec
      /\ \A i \in 1..nItems : items'[i] # items[i] =>
           /\ i = workers[w].item
           /\ workers[w].pc \in {"blocked", "start", "finish"}
           /\ \E row : ItemMove(w, row) /\ items'[i] = row
  BY StepRows
<1>2. \A i \in 1..nItems : i # workers[w].item => items'[i] = items[i] BY <1>1
<1>3. CASE workers[w].pc = "start" /\ ~Raise(w) /\ workers'[w].pc = "call"
  <2>1. Start(w)
    BY <1>3, StepPcs DEF ClientFails
  <2>2. items'[workers[w].item].attempts > 0 BY <1>3, <2>1, StartMoves
  <2>3. workers[w].item \in 1..nItems BY <1>3, Exclusive DEF Holding
  <2>4. ASSUME NEW s \in Records \ {Rec(w)} PROVE SameSent(s)
    BY <1>1, <1>2, <2>3 DEF SameSent, SentItems, ItemIds, Rec, Row
  <2>5. ASSUME NEW s \in Records, s = Rec(w)
        PROVE  SentItems(s)' = SentItems(s) \cup {workers[w].item}
    BY <1>1, <1>2, <2>2, <2>3, <2>5 DEF SentItems, ItemIds, Rec, Row
  <2>. QED BY <1>3, <2>4, <2>5
<1>4. CASE ~(workers[w].pc = "start" /\ ~Raise(w) /\ workers'[w].pc = "call")
  <2>1. ASSUME NEW i \in 1..nItems PROVE items'[i].attempts = items[i].attempts
    <3>1. CASE workers[w].pc = "start" /\ i = workers[w].item
      <4>1. Start(w) => items'[i].attempts = items[i].attempts
        BY <1>4, <3>1, StartMoves
      <4>2. ClientFails(w) => items'[i] = items[i] BY DEF ClientFails, rows
      <4>. QED BY <3>1, <4>1, <4>2, StepPcs
    <3>2. CASE items'[i] # items[i] /\ workers[w].pc # "start"
      <4>1. PICK row : ItemMove(w, row) /\ items'[i] = row /\ i = workers[w].item
        BY <1>1, <3>2
      <4>. QED BY <3>2, <4>1 DEF ItemMove, Start, Row
    <3>. QED BY <1>2, <3>1, <3>2
  <2>. QED BY <1>1, <1>4, <2>1 DEF SameSent, SentItems, ItemIds
<1>. QED BY <1>3, <1>4

\* A write to Accelevents is a write of the request's record, by a request that
\* is sending.
LEMMA StepRemote ==
    ASSUME TypeInv, NEW w \in Workers, Step(w), ~UNCHANGED remote
    PROVE  /\ workers[w].pc = "call"
           /\ \A s \in Records \ {Rec(w)} : remote'[s] = remote[s]
<1>1. remote \in [Records -> Seq(Payloads)] BY DEF TypeInv, TypeOK, SourcesOK
<1>2. workers[w].pc = "call" /\ remote' = Written(w)
  BY StepFrames DEF Accepted, ServerError, ConnectionBreaks
<1>. QED BY <1>1, <1>2 DEF Written

ProtocolMove(r) ==
    \/ Turns!Take(r) \/ Turns!Send(r) \/ Turns!Write(r) \/ Turns!Close(r)
    \/ Turns!Doubt(r) \/ Turns!Orphan(r) \/ Turns!Free(r)

\* A move of the protocol at some record, or nothing it can see.
ProtocolStep == (\E r \in Records : ProtocolMove(r)) \/ \A s \in Records : SameTurn(s)

RefInv == TypeInv /\ ClaimInv /\ WorkInv /\ OwnedClaims

\* The record of another request, or of none, stands still.
LEMMA OtherTurn ==
    ASSUME TypeInv, NEW w \in Workers, NEW s \in Records,
           \A v \in Workers \ {w} : workers'[v] = workers[v],
           s \in DOMAIN claims' <=> s \in DOMAIN claims,
           s \in DOMAIN claims => claims'[s] = claims[s] /\ claims[s].owner # w,
           SameSent(s), remote'[s] = remote[s]
    PROVE  SameTurn(s)
<1>1. s \in DOMAIN claims /\ claims[s].owner # NoWorker =>
        workers'[claims[s].owner] = workers[claims[s].owner]
  BY OwnerType
<1>. QED BY <1>1, PhaseKept, SentKept DEF SameTurn

\* A request outside its claim moves at most the record it takes.
LEMMA TurnOutside ==
    ASSUME RefInv, TypeInv', NEW w \in Workers, Step(w), ~Holding(w)
    PROVE  ProtocolStep
<1>0. /\ \A v \in Workers \ {w} : workers'[v] = workers[v]
      /\ UNCHANGED remote /\ \A s \in Records : SameSent(s)
      /\ NoWorker \notin Workers
  BY StepFlow, StepRemote, StepSent, WorkersAssumption DEF RefInv, Holding
<1>1. \A s \in DOMAIN claims : claims[s].owner # w
  BY <1>0 DEF RefInv, OwnedClaims
<1>2. CASE UNCHANGED claims
  BY <1>0, <1>1, <1>2, OtherTurn DEF ProtocolStep, RefInv
<1>3. CASE TakesClaim(w)
  <2>1. PICK i \in workers[w].queue :
          /\ items[i].rec \notin DOMAIN claims
          /\ claims' = Set(claims, items[i].rec,
                        [item |-> i, status |-> "in_progress", owner |-> w])
          /\ Become(w, [[workers[w] EXCEPT !.item = i, !.queue = @ \ {i}]
                        EXCEPT !.pc = "check"])
    BY <1>3 DEF TakesClaim
  <2>. DEFINE r   == items[i].rec
              row == [item |-> i, status |-> "in_progress", owner |-> w]
  <2>2. i \in 1..nItems /\ r \in Records
    BY DEF RefInv, TypeInv, TypeOK, ItemsOK, ItemIds, ItemRow, RequestsFit, Fits
  <2>3. claims'[r] = row /\ r \in DOMAIN claims' BY <2>1 DEF Set
  <2>4. row.item = i /\ row.status = "in_progress" /\ row.owner = w OBVIOUS
  <2>5. workers'[w].pc = "check"
    <3>1. workers[w] \in WorkerRow BY DEF RefInv, TypeInv, RequestsFit
    <3>2. workers'[w] = [[workers[w] EXCEPT !.item = i, !.queue = @ \ {i}] EXCEPT !.pc = "check"]
      BY <2>1, Others DEF RefInv
    <3>. QED BY <3>1, <3>2 DEF WorkerRow
  <2>. HIDE DEF row
  <2>6. ASSUME NEW s \in Records, s = r
        PROVE  /\ TurnPhase(s) = "free" /\ TurnPhase(s)' = "taken"
               /\ TurnHolder(s)' = i
               /\ LastSent(s)' = LastSent(s) /\ remote'[s] = remote[s]
    BY <1>0, <2>1, <2>3, <2>4, <2>5, <2>6, SentKept DEF TurnPhase, TurnHolder
  <2>7. SameElsewhere(r)
    <3>1. ASSUME NEW s \in Records \ {r}
          PROVE  /\ s \in DOMAIN claims' <=> s \in DOMAIN claims
                 /\ s \in DOMAIN claims => claims'[s] = claims[s]
      BY <2>1 DEF Set
    <3>2. ASSUME NEW s \in Records \ {r} PROVE SameTurn(s)
      BY <1>0, <1>1, <3>1, OtherTurn DEF RefInv
    <3>. QED BY <3>2 DEF SameElsewhere
  <2>. HIDE DEF r
  <2>8. i \in Nat \ {0} BY <2>2 DEF RefInv, TypeInv, TypeOK, ItemsOK
  <2>9. ASSUME NEW s \in Records, s = r PROVE Turns!Take(s)
    BY <2>6, <2>7, <2>8, <2>9, TurnMoves DEF RefInv, TypeInv, TypeOK, SourcesOK
  <2>. QED BY <2>2, <2>9 DEF ProtocolStep, ProtocolMove, r
<1>4. CASE Check(w) \/ Release(w)
  BY <1>4 DEF Check, Release, Holding
<1>5. CASE /\ workers[w].pc \in {"start", "call", "reconcile", "finish", "writeRun"}
           /\ workers[w].pc = "writeRun" => workers[w].item # 0
  BY <1>5 DEF Holding
<1>. QED BY <1>2, <1>3, <1>4, <1>5, StepClaims

LEMMA OneMove ==
    ASSUME NEW r \in Records, ProtocolMove(r)
    PROVE  ProtocolStep
BY DEF ProtocolStep

LEMMA StandStill ==
    ASSUME NEW r \in Records, SameTurn(r), SameElsewhere(r)
    PROVE  ProtocolStep
BY DEF ProtocolStep, SameElsewhere

\* A request inside its claim moves its own record only.
LEMMA OnlyItsRecord ==
    ASSUME RefInv, TypeInv', NEW w \in Workers, Step(w), Holding(w),
           NEW r \in Records, r = Rec(w)
    PROVE  SameElsewhere(r)
<1>0. /\ \A v \in Workers \ {w} : workers'[v] = workers[v]
      /\ \A s \in Records \ {r} : SameSent(s) /\ remote'[s] = remote[s]
      /\ NoWorker \notin Workers
  BY StepFlow, StepRemote, StepSent, WorkersAssumption DEF RefInv
<1>1. \A s \in DOMAIN claims \ {r} : claims[s].owner # w
  BY <1>0 DEF RefInv, OwnedClaims
<1>2. r \in DOMAIN claims BY HeldClaim DEF RefInv
<1>3. ASSUME NEW s \in Records \ {r}
      PROVE  /\ s \in DOMAIN claims' <=> s \in DOMAIN claims
             /\ s \in DOMAIN claims => claims'[s] = claims[s]
  <2>1. ~TakesClaim(w) BY DEF TakesClaim, Holding
  <2>2. CASE UNCHANGED claims BY <2>2
  <2>3. CASE claims' = Drop(claims, Rec(w)) BY <2>3 DEF Drop
  <2>4. CASE Raise(w) BY <2>4, <1>2, RaisedClaim DEF RefInv
  <2>. QED BY <2>1, <2>2, <2>3, <2>4, StepClaims
<1>4. ASSUME NEW s \in Records \ {r} PROVE SameTurn(s)
  BY <1>0, <1>1, <1>3, OtherTurn DEF RefInv
<1>. QED BY <1>4 DEF SameElsewhere

\* Inside its claim a request moves its record as the protocol does: it goes
\* on, gives the claim up as it should, or leaves it in doubt.
LEMMA TurnInside ==
    ASSUME RefInv, TypeInv', NEW w \in Workers, Step(w), Holding(w),
           NEW r \in Records, r = Rec(w)
    PROVE  ProtocolStep
<1>. DEFINE pc == workers[w].pc
<1>0. /\ r \in Records /\ workers[w].item \in 1..nItems /\ nItems \in Nat
      /\ pc \in HoldingPcs /\ pc \in {"readItems", "readRun", "writeRun"} => workers[w].item # 0
      /\ remote \in [Records -> Seq(Payloads)] /\ remote' \in [Records -> Seq(Payloads)]
  BY Exclusive DEF RefInv, Holding, TypeInv, TypeOK, SourcesOK, ItemsOK, HoldingPcs
<1>1. SameElsewhere(r) BY <1>0, OnlyItsRecord
<1>2. /\ TurnPhase(r) = PhaseAt(pc) /\ TurnHolder(r) = workers[w].item
      /\ r \in DOMAIN claims /\ claims[r].item = workers[w].item
      /\ claims[r].status = "in_progress" /\ claims[r].owner = w
  BY HeldPhase, HeldClaim DEF RefInv
<1>3. ~(pc = "start" /\ ~Raise(w) /\ workers'[w].pc = "call") => SameSent(r)
  BY <1>0, StepSent DEF RefInv
<1>4. pc # "call" => remote'[r] = remote[r] BY StepRemote DEF RefInv
<1>5. CASE Raise(w)
  <2>1. TurnPhase(r)' = "doubtful" /\ TurnHolder(r)' = TurnHolder(r)
    <3>1. /\ r \in DOMAIN claims' /\ claims'[r].status = "ambiguous"
          /\ claims'[r].item = claims[r].item
      BY <1>2, <1>5, RaisedClaim DEF RefInv
    <3>. QED BY <1>2, <3>1 DEF TurnPhase, TurnHolder
  <2>2. LastSent(r)' = LastSent(r) BY <1>0, <1>3, <1>5, SentKept
  <2>3. TurnPhase(r) \in {"taken", "sending", "closing"} BY <1>2 DEF PhaseAt
  <2>4. CASE pc = "call"
    <3>1. TurnPhase(r) = "sending" BY <1>2, <2>4 DEF PhaseAt
    <3>2. Turns!Write(r) BY <1>0, <1>1, <2>1, <2>2, <3>1, TurnMoves
    <3>. QED BY <1>0, <3>2, OneMove DEF ProtocolMove
  <2>5. CASE pc # "call"
    <3>1. Turns!Doubt(r) BY <1>0, <1>1, <1>4, <2>1, <2>2, <2>3, <2>5, TurnMoves
    <3>. QED BY <1>0, <3>1, OneMove DEF ProtocolMove
  <2>. QED BY <2>4, <2>5
<1>6. CASE Release(w) \/ (Check(w) /\ ~Eligible(workers[w].item))
  <2>1. claims' = Drop(claims, Rec(w)) /\ pc \in {"release", "check"}
    BY <1>6 DEF Release, Check
  <2>2. TurnPhase(r)' = "free" /\ TurnHolder(r)' = 0
    <3>1. r \notin DOMAIN claims' BY <2>1 DEF Drop
    <3>. QED BY <3>1 DEF TurnPhase, TurnHolder
  <2>3. LastSent(r)' = LastSent(r) /\ remote'[r] = remote[r]
    BY <1>0, <1>3, <1>4, <2>1, SentKept
  <2>4. TurnPhase(r) \in {"taken", "closing", "doubtful"} BY <1>2, <2>1 DEF PhaseAt
  <2>5. Turns!Free(r) BY <1>0, <1>1, <2>2, <2>3, <2>4, TurnMoves
  <2>. QED BY <1>0, <2>5, OneMove DEF ProtocolMove
<1>7. CASE ~Departs(w)
  <2>. DEFINE pd == workers'[w].pc
  <2>1. /\ Holding(w)' /\ UNCHANGED claims /\ workers'[w].item = workers[w].item
        /\ Rec(w)' = Rec(w) /\ <<pc, pd>> \in Flow
    BY <1>7, KeepsHolding DEF RefInv
  <2>2. TurnPhase(r)' = PhaseAt(pd) /\ TurnHolder(r)' = TurnHolder(r)
    BY <1>2, <2>1, WorkersAssumption DEF TurnPhase, TurnHolder, PhaseAt
  <2>3. SameSent(r) => LastSent(r)' = LastSent(r) BY <1>0, SentKept
  <2>4. CASE pc = "call"
    <3>1. TurnPhase(r) = "sending" /\ TurnPhase(r)' \in {"sending", "closing"}
      BY <1>2, <2>1, <2>2, <2>4 DEF PhaseAt, Flow
    <3>2. Turns!Write(r)
      BY <1>0, <1>1, <1>3, <2>2, <2>3, <2>4, <3>1, TurnMoves
    <3>. QED BY <1>0, <3>2, OneMove DEF ProtocolMove
  <2>5. CASE pc = "start" /\ pd = "call"
    <3>1. TurnPhase(r) = "taken" /\ TurnPhase(r)' = "sending"
      BY <1>2, <2>2, <2>5 DEF PhaseAt
    <3>2. SentItems(r)' = SentItems(r) \cup {workers[w].item}
      BY <1>0, <1>7, <2>5, StepSent DEF RefInv, Departs
    <3>3. /\ SentItems(r) \in SUBSET (1..nItems) /\ SentItems(r)' \in SUBSET (1..nItems)
          /\ \A j \in SentItems(r) : j <= workers[w].item
      <4>1. \A j \in SentItems(r) : j <= workers[w].item
        BY <2>5 DEF RefInv, ClaimInv, Newest, SentItems
      <4>. QED BY <1>0, <3>2, <4>1, SentIds DEF RefInv
    <3>4. LastSent(r) <= workers[w].item
      <4>1. CASE SentItems(r) = {} BY <1>0, <4>1 DEF LastSent
      <4>2. CASE SentItems(r) # {}
        <5>1. LastSent(r) \in SentItems(r)
          BY <1>0, <3>3, <4>2, Greatest DEF LastSent
        <5>. QED BY <3>3, <5>1
      <4>. QED BY <4>1, <4>2
    <3>5. LastSent(r)' = workers[w].item
      <4>1. PICK k \in 1..nItems : k = workers[w].item BY <1>0
      <4>. DEFINE S == SentItems(r)'
      <4>2. S = SentItems(r) \cup {k} BY <3>2, <4>1
      <4>3. k \in S /\ S # {} BY <4>2
      <4>4. S \in SUBSET (1..nItems) BY <3>3
      <4>5. \A j \in S : j <= k
        <5>1. \A j \in SentItems(r) : j <= k BY <3>3, <4>1
        <5>2. k <= k BY <1>0
        <5>. QED BY <4>2, <5>1, <5>2
      <4>6. LastSent(r)' = CHOOSE i \in S : \A j \in S : j <= i
        BY <4>3 DEF LastSent
      <4>. HIDE DEF S
      <4>7. LastSent(r)' \in S /\ \A j \in S : j <= LastSent(r)'
        BY <1>0, <4>3, <4>4, <4>6, Greatest
      <4>8. LastSent(r)' <= k /\ k <= LastSent(r)' /\ LastSent(r)' \in 1..nItems
        BY <4>3, <4>4, <4>5, <4>7
      <4>. QED BY <1>0, <4>1, <4>8
    <3>6. Turns!Send(r)
      BY <1>0, <1>1, <1>2, <1>4, <2>2, <2>5, <3>1, <3>4, <3>5, TurnMoves
    <3>. QED BY <1>0, <3>6, OneMove DEF ProtocolMove
  <2>6. CASE pc = "start" /\ pd = "readItems"
    <3>1. TurnPhase(r) = "taken" /\ TurnPhase(r)' = "closing"
      BY <1>2, <2>2, <2>6 DEF PhaseAt
    <3>2. Turns!Close(r)
      BY <1>0, <1>1, <1>3, <1>4, <2>2, <2>3, <2>6, <3>1, TurnMoves
    <3>. QED BY <1>0, <3>2, OneMove DEF ProtocolMove
  <2>7. CASE pc \notin {"call", "start"}
    <3>1. TurnPhase(r)' = TurnPhase(r)
      <4>1. PhaseAt(pc) = PhaseAt(pd)
        BY <1>0, <2>1, <2>7 DEF Flow, PhaseAt, HoldingPcs
      <4>. QED BY <1>2, <2>2, <4>1
    <3>2. SameTurn(r) BY <1>3, <1>4, <2>2, <2>3, <2>7, <3>1 DEF SameTurn
    <3>. QED BY <1>0, <1>1, <3>2, StandStill
  <2>8. pc = "start" => pd \in {"call", "readItems"} BY <2>1 DEF Flow
  <2>. QED BY <2>4, <2>5, <2>6, <2>7, <2>8
<1>. QED BY <1>5, <1>6, <1>7 DEF Departs

LEMMA StepTurns ==
    ASSUME RefInv, TypeInv', NEW w \in Workers, Step(w)
    PROVE  ProtocolStep
<1>1. CASE Holding(w)
  <2>1. PICK r \in Records : r = Rec(w) BY <1>1, Exclusive DEF RefInv
  <2>. QED BY <1>1, <2>1, TurnInside
<1>. QED BY <1>1, TurnOutside

\* What leaves the claims, the remote records and the sent items as they are,
\* and the requests that hold claims, is nothing to the protocol.
LEMMA NoTurn ==
    ASSUME RefInv, UNCHANGED <<claims, remote>>,
           \A v \in Workers : Holding(v) => workers'[v] = workers[v],
           \A s \in Records : SameSent(s)
    PROVE  ProtocolStep
<1>1. ASSUME NEW s \in Records PROVE SameTurn(s)
  <2>1. s \in DOMAIN claims /\ claims[s].owner # NoWorker =>
          workers'[claims[s].owner] = workers[claims[s].owner]
    BY OwnerType DEF RefInv, OwnedClaims
  <2>. QED BY <2>1, PhaseKept, SentKept DEF SameTurn, RefInv
<1>. QED BY <1>1 DEF ProtocolStep

LEMMA ResolveTurn ==
    ASSUME RefInv, TypeInv', NEW r \in Records, Resolve(r)
    PROVE  ProtocolStep
<1>1. PICK row \in ItemRow :
        /\ claims[r].item \in 1..nItems
        /\ r \in DOMAIN claims /\ claims[r].status = "ambiguous"
        /\ items' = [items EXCEPT ![claims[r].item] = row]
        /\ row.rec = items[claims[r].item].rec
        /\ row.attempts = items[claims[r].item].attempts
  BY ResolveItem DEF RefInv
<1>2. /\ UNCHANGED <<remote, workers, nItems>> /\ claims' = Drop(claims, r)
      /\ remote \in [Records -> Seq(Payloads)]
      /\ items \in [1..nItems -> ItemRow]
  BY DEF Resolve, RefInv, TypeInv, TypeOK, SourcesOK, ItemsOK, ItemIds
<1>3. ASSUME NEW s \in Records PROVE SameSent(s)
  <2>1. \A i \in 1..nItems : items'[i].rec = items[i].rec /\ items'[i].attempts = items[i].attempts
    BY <1>1, <1>2
  <2>. QED BY <1>2, <2>1 DEF SameSent, SentItems, ItemIds
<1>4. ASSUME NEW s \in Records \ {r} PROVE SameTurn(s)
  <2>1. /\ s \in DOMAIN claims' <=> s \in DOMAIN claims
        /\ s \in DOMAIN claims => claims'[s] = claims[s]
    BY <1>2 DEF Drop
  <2>. QED BY <1>2, <1>3, <2>1, PhaseKept, SentKept DEF SameTurn, RefInv
<1>5. /\ TurnPhase(r) = "doubtful" /\ TurnPhase(r)' = "free" /\ TurnHolder(r)' = 0
      /\ LastSent(r)' = LastSent(r) /\ remote'[r] = remote[r]
  <2>1. r \notin DOMAIN claims' BY <1>2 DEF Drop
  <2>. QED BY <1>1, <1>2, <1>3, <2>1, SentKept DEF TurnPhase, TurnHolder
<1>6. SameElsewhere(r) BY <1>4 DEF SameElsewhere
<1>7. Turns!Free(r)
  <2>1. remote' \in [Records -> Seq(Payloads)] BY <1>2
  <2>. QED BY <1>2, <1>5, <1>6, <2>1, TurnMoves
<1>. QED BY <1>7, OneMove DEF ProtocolMove

LEMMA CrashTurn ==
    ASSUME RefInv, NEW w \in Workers, Crash(w)
    PROVE  ProtocolStep
<1>1. /\ UNCHANGED <<remote, nItems, items>>
      /\ \A v \in Workers \ {w} : workers'[v] = workers[v]
      /\ claims' = [r \in DOMAIN claims |->
           IF claims[r].owner = w THEN [claims[r] EXCEPT !.owner = NoWorker] ELSE claims[r]]
      /\ remote \in [Records -> Seq(Payloads)] /\ NoWorker \notin Workers
  BY Others, WorkersAssumption DEF Crash, rows, RefInv, TypeInv, TypeOK, SourcesOK
<1>2. \A s \in Records : SameSent(s) BY <1>1 DEF SameSent, SentItems, ItemIds
<1>3. ASSUME NEW s \in Records, s \in DOMAIN claims => claims[s].owner # w PROVE SameTurn(s)
  <2>1. /\ s \in DOMAIN claims' <=> s \in DOMAIN claims
        /\ s \in DOMAIN claims => claims'[s] = claims[s]
    BY <1>1, <1>3
  <2>. QED BY <1>1, <1>2, <1>3, <2>1, OtherTurn DEF RefInv
<1>4. CASE ~Holding(w)
  <2>1. \A s \in DOMAIN claims : claims[s].owner # w
    BY <1>1, <1>4 DEF RefInv, OwnedClaims
  <2>. QED BY <1>3, <2>1 DEF ProtocolStep
<1>5. CASE Holding(w)
  <2>1. PICK r \in Records : r = Rec(w) BY <1>5, Exclusive DEF RefInv
  <2>2. /\ TurnPhase(r) = PhaseAt(workers[w].pc)
        /\ r \in DOMAIN claims /\ claims[r].status = "in_progress" /\ claims[r].owner = w
    BY <1>5, <2>1, HeldPhase, HeldClaim DEF RefInv
  <2>3. claims[r] \in ClaimRow BY <2>2 DEF RefInv, TypeInv, TypeOK, ClaimsOK
  <2>4. /\ claims'[r].owner = NoWorker /\ claims'[r].status = "in_progress"
        /\ claims'[r].item = claims[r].item /\ r \in DOMAIN claims'
    BY <1>1, <2>2, <2>3 DEF ClaimRow
  <2>5. /\ TurnPhase(r) \in {"taken", "sending", "closing"} /\ TurnPhase(r)' = "orphaned"
        /\ TurnHolder(r)' = TurnHolder(r)
        /\ LastSent(r)' = LastSent(r) /\ remote'[r] = remote[r]
    <3>1. TurnPhase(r)' = "orphaned" /\ TurnHolder(r)' = TurnHolder(r)
      BY <2>2, <2>4 DEF TurnPhase, TurnHolder
    <3>2. TurnPhase(r) \in {"taken", "sending", "closing"} BY <2>2 DEF PhaseAt
    <3>. QED BY <1>1, <1>2, <3>1, <3>2, SentKept
  <2>6. SameElsewhere(r)
    <3>1. \A s \in Records \ {r} : s \in DOMAIN claims => claims[s].owner # w
      BY <1>1, <2>1 DEF RefInv, OwnedClaims
    <3>. QED BY <1>3, <3>1 DEF SameElsewhere
  <2>7. Turns!Orphan(r)
    <3>1. remote' \in [Records -> Seq(Payloads)] BY <1>1
    <3>. QED BY <1>1, <2>5, <2>6, <3>1, TurnMoves
  <2>. QED BY <2>7, OneMove DEF ProtocolMove
<1>. QED BY <1>4, <1>5

LEMMA NextTurn ==
    ASSUME RefInv, TypeInv', [Next]_vars
    PROVE  ProtocolStep
<1>1. CASE UNCHANGED <<claims, remote, workers, nItems, items>>
  BY <1>1, NoTurn DEF SameSent, SentItems, ItemIds
<1>2. CASE UNCHANGED vars BY <1>1, <1>2 DEF vars, rows
<1>3. ASSUME NEW r \in Records, Edit(r) PROVE ProtocolStep BY <1>1, <1>3 DEF Edit, rows
<1>4. ASSUME NEW r \in Records, Resolve(r) PROVE ProtocolStep BY <1>4, ResolveTurn
<1>5. ASSUME NEW S \in SUBSET Records, MakePreview(S) PROVE ProtocolStep
  BY <1>1, <1>5 DEF MakePreview
<1>6. ASSUME NEW w \in Workers, ExecutePreview(w) \/ Retry(w) \/ ConfirmRecovery(w)
      PROVE ProtocolStep
  <2>1. /\ UNCHANGED <<claims, remote>> /\ workers[w] = Idle
        /\ \E q : Become(w, q)
    BY <1>6, NewRun DEF Retry, ConfirmRecovery, ExecutePreview, RefInv
  <2>2. ~Holding(w) BY <2>1 DEF Idle, Holding
  <2>3. \A v \in Workers : Holding(v) => workers'[v] = workers[v]
    BY <2>1, <2>2, Others DEF RefInv
  <2>4. ASSUME NEW s \in Records PROVE SameSent(s)
    <3>1. CASE UNCHANGED <<nItems, items>> BY <3>1 DEF SameSent, SentItems, ItemIds
    <3>2. CASE ExecutePreview(w)
      <4>1. PICK n \in Nat :
              /\ nItems' = nItems + n
              /\ \A i \in 1..nItems : items'[i] = items[i]
              /\ \A i \in nItems + 1..nItems + n : items'[i].attempts = 0
        BY <3>2, NewRun DEF RefInv
      <4>2. nItems \in Nat BY DEF RefInv, TypeInv, TypeOK, ItemsOK
      <4>3. ASSUME NEW i \in 1..nItems', items'[i].attempts > 0
            PROVE  i \in 1..nItems
        BY <4>1, <4>2, <4>3
      <4>. QED BY <4>1, <4>2, <4>3 DEF SameSent, SentItems, ItemIds
    <3>. QED BY <1>6, <3>1, <3>2 DEF Retry, ConfirmRecovery, rows
  <2>. QED BY <2>1, <2>3, <2>4, NoTurn
<1>7. ASSUME NEW w \in Workers, Step(w) PROVE ProtocolStep BY <1>7, StepTurns
<1>8. ASSUME NEW w \in Workers, Crash(w) PROVE ProtocolStep BY <1>8, CrashTurn
<1>. QED BY <1>2, <1>3, <1>4, <1>5, <1>6, <1>7, <1>8 DEF Next

LEMMA InitTurns == Init => Turns!Init
<1>. SUFFICES ASSUME Init PROVE Turns!Init
  OBVIOUS
<1>1. DOMAIN claims = {} /\ nItems = 0 BY DEF Init
<1>2. \A r \in Records : TurnPhase(r) = "free" /\ TurnHolder(r) = 0 /\ LastSent(r) = 0
  BY <1>1 DEF TurnPhase, TurnHolder, LastSent, SentItems, ItemIds
<1>3. remote \in [Records -> Seq(Payloads)]
  BY InitType DEF TypeInv, TypeOK, SourcesOK
<1>. QED BY <1>2, <1>3 DEF Turns!Init

LEMMA NextTurns ==
    ASSUME RefInv, TypeInv', [Next]_vars
    PROVE  [Turns!Next]_(Turns!vars)
<1>1. CASE \E r \in Records : ProtocolMove(r)
  BY <1>1 DEF ProtocolMove, Turns!Next
<1>2. CASE \A s \in Records : SameTurn(s)
  <2>1. remote \in [Records -> Seq(Payloads)] /\ remote' \in [Records -> Seq(Payloads)]
    BY DEF RefInv, TypeInv, TypeOK, SourcesOK
  <2>. QED BY <1>2, <2>1 DEF SameTurn, Turns!vars
<1>. QED BY <1>1, <1>2, NextTurn DEF ProtocolStep

\* The inductive invariant of the refinement: with the invariants above, the
\* owner of an active claim is a request that still holds it, and an ambiguous
\* claim has no owner.
THEOREM OwnedInvariant == Spec => []RefInv
<1>1. Init => RefInv BY InitType, InitClaims, InitWork, InitOwned DEF RefInv
<1>2. RefInv /\ [Next]_vars => RefInv'
  BY NextType, NextClaims, NextWork, NextOwned DEF RefInv
<1>. QED BY <1>1, <1>2, PTL DEF Spec

\* The engine implements the write protocol: whatever requests, retries,
\* recoveries, resolutions and crashes happen, writes of one record happen in
\* turns of one item each, in the order of the items, and a turn whose outcome
\* is open ends only by a person's decision.
THEOREM EngineImplementsTurns == Spec => ImplementsTurns
<1>1. RefInv => TypeInv BY DEF RefInv
<1>2. RefInv /\ TypeInv' /\ [Next]_vars => [Turns!Next]_(Turns!vars) BY NextTurns
<1>. QED BY <1>1, <1>2, InitTurns, OwnedInvariant, PTL DEF Spec, ImplementsTurns, Turns!Spec
=============================================================================
