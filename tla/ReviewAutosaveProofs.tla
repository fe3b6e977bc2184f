------------------------ MODULE ReviewAutosaveProofs ------------------------
(***************************************************************************)
(* Proofs about ReviewAutosave, for any tabs and bounds: its typing, that  *)
(* older revisions never win, and that no tab stores over what its         *)
(* reviewer was not shown.                                                 *)
(***************************************************************************)
EXTENDS ReviewAutosave, TLAPS

\* A tab has not saved, and is not sending, more than was typed.
Behind(q) == q.saved <= q.rev /\ q.sending <= q.rev

TypeInv == TypeOK /\ \A t \in Tabs : Behind(tabs[t])

LEMMA NewRow == New \in TabRow /\ Behind(New)
BY BoundsAssumption DEF New, TabRow, NoAnswer, Behind

\* Changing parts of a row keeps it a row, when each part is of its type.
LEMMA NoAnswerType ==
    NoAnswer \in [kind : {"none", "saved", "stale", "conflict"}, version : Nat]
BY DEF NoAnswer

\* What save() leaves: a row of the table, and only well-formed requests.
LEMMA SaveTypes ==
    ASSUME TypeInv, NEW t \in Tabs, NEW q \in TabRow, Behind(q), Save(t, q)
    PROVE  /\ tabs' \in [Tabs -> TabRow]
           /\ \A u \in Tabs : Behind(tabs'[u])
           /\ net' \subseteq RequestRow
<1>1. CASE Due(q)
  <2>. DEFINE r == [q EXCEPT !.sending = q.rev, !.call = @ + 1, !.answer = NoAnswer]
  <2>1. tabs' = [tabs EXCEPT ![t] = r] /\ net' = net \cup {Request(t, q, q.call + 1)}
    BY <1>1 DEF Save
  <2>2. r \in TabRow /\ Behind(r)
    <3>1. r.rev = q.rev /\ r.saved = q.saved /\ r.sending = q.rev BY DEF TabRow
    <3>2. q.rev \in 0..MaxRevision /\ q.call + 1 \in Nat BY DEF TabRow
    <3>3. r \in TabRow BY <3>2, NoAnswerType DEF TabRow
    <3>4. Behind(r) BY <3>1, <3>2, BoundsAssumption DEF Behind
    <3>. QED BY <3>3, <3>4
  <2>3. q.rev \in Revisions /\ q.call + 1 \in Nat /\ q.version \in Nat
    BY <1>1, BoundsAssumption DEF Due, Behind, TabRow, Revisions
  <2>4. Request(t, q, q.call + 1) \in RequestRow
    BY <2>3 DEF Request, RequestRow
  <2>. QED BY <2>1, <2>2, <2>4 DEF TypeInv, TypeOK
<1>2. CASE ~Due(q)
  BY <1>2 DEF Save, TypeInv, TypeOK
<1>. QED BY <1>1, <1>2

LEMMA AnswerTypes ==
    ASSUME TypeInv, NEW m \in net, NEW kind \in {"saved", "stale", "conflict"},
           NEW v \in Nat, Answer(m, kind, v)
    PROVE  /\ tabs' \in [Tabs -> TabRow]
           /\ \A u \in Tabs : Behind(tabs'[u])
<1>. DEFINE r == [tabs[m.tab] EXCEPT !.answer = [kind |-> kind, version |-> v]]
<1>1. m.tab \in Tabs /\ tabs[m.tab] \in TabRow /\ Behind(tabs[m.tab])
  BY DEF TypeInv, TypeOK, RequestRow
<1>2. r \in TabRow /\ Behind(r) BY <1>1 DEF TabRow, Behind
<1>3. tabs' = tabs \/ tabs' = [tabs EXCEPT ![m.tab] = r] BY DEF Answer
<1>. QED BY <1>1, <1>2, <1>3 DEF TypeInv, TypeOK

\* A save that failed leaves a row too.
LEMMA FailedTypes ==
    ASSUME NEW q \in TabRow, Behind(q)
    PROVE  LET r == [q EXCEPT !.failed = TRUE, !.sending = 0, !.answer = NoAnswer]
           IN  r \in TabRow /\ Behind(r)
<1>. DEFINE r == [q EXCEPT !.failed = TRUE, !.sending = 0, !.answer = NoAnswer]
<1>0. 0 \in 0..MaxRevision BY BoundsAssumption
<1>1. r \in TabRow BY <1>0, NoAnswerType DEF TabRow
<1>2. r.rev = q.rev /\ r.saved = q.saved /\ r.sending = 0 BY DEF TabRow
<1>3. Behind(r) BY <1>2 DEF Behind, TabRow
<1>. QED BY <1>1, <1>3

\* So does one that was answered.
LEMMA ReceivedTypes ==
    ASSUME NEW p \in TabRow, Behind(p)
    PROVE  LET q == [p EXCEPT
                !.saved = IF p.answer.kind = "stale" THEN p.rev ELSE p.sending,
                !.version = p.answer.version, !.failed = FALSE, !.sending = 0,
                !.answer = NoAnswer]
           IN  q \in TabRow /\ Behind(q)
<1>. DEFINE q == [p EXCEPT
                !.saved = IF p.answer.kind = "stale" THEN p.rev ELSE p.sending,
                !.version = p.answer.version, !.failed = FALSE, !.sending = 0,
                !.answer = NoAnswer]
<1>1. /\ p.rev \in 0..MaxRevision /\ p.sending \in 0..MaxRevision
      /\ p.answer.version \in Nat /\ 0 \in 0..MaxRevision
  BY BoundsAssumption DEF TabRow
<1>2. q \in TabRow BY <1>1, NoAnswerType DEF TabRow
<1>3. q.rev = p.rev /\ q.sending = 0 /\ q.saved \in {p.rev, p.sending} BY DEF TabRow
<1>4. Behind(q) BY <1>1, <1>3 DEF Behind
<1>. QED BY <1>2, <1>4

LEMMA TypesKept == TypeInv /\ [Next]_vars => TypeInv'
<1>. SUFFICES ASSUME TypeInv, [Next]_vars PROVE TypeInv'
  OBVIOUS
<1>. USE BoundsAssumption
<1>0. /\ \A t \in Tabs : tabs[t] \in TabRow /\ Behind(tabs[t])
      /\ Version \in Nat
  BY DEF TypeInv, TypeOK, Version
<1>1. ASSUME NEW t \in Tabs, OpenTab(t) PROVE TypeInv'
  <2>. DEFINE r == [New EXCEPT !.state = "open", !.version = Version, !.opened = Version]
  <2>1. r \in TabRow /\ Behind(r) BY NewRow, <1>0 DEF TabRow, Behind
  <2>2. tabs' = [tabs EXCEPT ![t] = r] /\ UNCHANGED <<net, log, retries, failures>>
    BY <1>1 DEF OpenTab
  <2>. QED BY <2>1, <2>2 DEF TypeInv, TypeOK
<1>2. ASSUME NEW t \in Tabs, Input(t) PROVE TypeInv'
  <2>. DEFINE r == [tabs[t] EXCEPT !.rev = @ + 1, !.failed = FALSE, !.timer = TRUE]
  <2>0. tabs[t].rev \in 0..MaxRevision /\ tabs[t].rev < MaxRevision
    BY <1>0, <1>2 DEF TabRow, Input
  <2>a. tabs[t].rev + 1 \in 0..MaxRevision BY <2>0
  <2>b. r \in TabRow BY <1>0, <2>a DEF TabRow
  <2>c. r.rev = tabs[t].rev + 1 /\ r.saved = tabs[t].saved /\ r.sending = tabs[t].sending
    BY <1>0 DEF TabRow
  <2>d. Behind(r) BY <1>0, <2>0, <2>c DEF Behind, TabRow
  <2>1. r \in TabRow /\ Behind(r) BY <2>b, <2>d
  <2>2. tabs' = [tabs EXCEPT ![t] = r] /\ UNCHANGED <<net, log, retries, failures>>
    BY <1>2 DEF Input, TypeInv, TypeOK
  <2>. QED BY <2>1, <2>2 DEF TypeInv, TypeOK
<1>3. ASSUME NEW t \in Tabs, TimerFires(t) PROVE TypeInv'
  <2>. DEFINE q == [tabs[t] EXCEPT !.timer = FALSE]
  <2>1. q \in TabRow /\ Behind(q) BY <1>0 DEF TabRow, Behind
  <2>2. Save(t, q) /\ UNCHANGED <<log, retries, failures>> BY <1>3 DEF TimerFires
  <2>. QED BY <2>1, <2>2, SaveTypes DEF TypeInv, TypeOK
<1>4. ASSUME NEW t \in Tabs, Retry(t) PROVE TypeInv'
  <2>. DEFINE q == [tabs[t] EXCEPT !.timer = FALSE]
  <2>1. q \in TabRow /\ Behind(q) BY <1>0 DEF TabRow, Behind
  <2>2. Save(t, q) /\ UNCHANGED <<log, failures>> BY <1>4 DEF Retry
  <2>3. retries' \in 0..MaxRetries BY <1>4 DEF Retry, TypeInv, TypeOK
  <2>. QED BY <2>1, <2>2, <2>3, SaveTypes DEF TypeInv, TypeOK
<1>5. ASSUME NEW t \in Tabs, ReceiveSaved(t) PROVE TypeInv'
  <2>. DEFINE q == [tabs[t] EXCEPT
                !.saved = IF tabs[t].answer.kind = "stale" THEN tabs[t].rev
                                                           ELSE tabs[t].sending,
                !.version = tabs[t].answer.version, !.failed = FALSE, !.sending = 0,
                !.answer = NoAnswer]
  <2>1. q \in TabRow /\ Behind(q) BY <1>0, ReceivedTypes
  <2>2. Save(t, q) /\ UNCHANGED <<log, retries, failures>>
    BY <1>5 DEF ReceiveSaved, Received
  <2>. QED BY <2>1, <2>2, SaveTypes DEF TypeInv, TypeOK
<1>6. ASSUME NEW t \in Tabs, ReceiveConflict(t) PROVE TypeInv'
  <2>. DEFINE r == [tabs[t] EXCEPT !.failed = TRUE, !.sending = 0, !.answer = NoAnswer]
  <2>1. r \in TabRow /\ Behind(r) BY <1>0, FailedTypes
  <2>2. tabs' = [tabs EXCEPT ![t] = r] /\ UNCHANGED <<net, log, retries, failures>>
    BY <1>6 DEF ReceiveConflict, TypeInv, TypeOK
  <2>. QED BY <2>1, <2>2 DEF TypeInv, TypeOK
<1>7. ASSUME NEW t \in Tabs, FetchFails(t) PROVE TypeInv'
  <2>. DEFINE r == [tabs[t] EXCEPT !.failed = TRUE, !.sending = 0, !.answer = NoAnswer]
  <2>1. r \in TabRow /\ Behind(r) BY <1>0, FailedTypes
  <2>2. tabs' = [tabs EXCEPT ![t] = r] /\ net' \subseteq net /\ UNCHANGED <<log, retries>>
    BY <1>7 DEF FetchFails, TypeInv, TypeOK
  <2>3. failures' \in 0..MaxFailures BY <1>7 DEF FetchFails, TypeInv, TypeOK
  <2>. QED BY <2>1, <2>2, <2>3 DEF TypeInv, TypeOK
<1>8. ASSUME NEW t \in Tabs, Leave(t) PROVE TypeInv'
  <2>. DEFINE r == [tabs[t] EXCEPT !.state = "gone", !.timer = FALSE]
  <2>1. r \in TabRow /\ Behind(r) BY <1>0 DEF TabRow, Behind
  <2>2. tabs' = [tabs EXCEPT ![t] = r] /\ UNCHANGED <<log, retries, failures>>
    BY <1>8 DEF Leave, TypeInv, TypeOK
  <2>3. \A n \in Unsaved(tabs[t]) : Request(t, tabs[t], n) \in RequestRow
    BY <1>0 DEF Unsaved, Request, RequestRow, Revisions, TabRow, Behind
  <2>4. net' \subseteq RequestRow BY <1>8, <2>3 DEF Leave, TypeInv, TypeOK
  <2>. QED BY <2>1, <2>2, <2>4 DEF TypeInv, TypeOK
<1>9. ASSUME NEW m \in net, ServeStale(m) PROVE TypeInv'
  <2>1. Answer(m, "stale", Version) /\ net' \subseteq net /\ UNCHANGED <<log, retries, failures>>
    BY <1>9 DEF ServeStale
  <2>. QED BY <1>0, <2>1, AnswerTypes DEF TypeInv, TypeOK
<1>10. ASSUME NEW m \in net, ServeConflict(m) PROVE TypeInv'
  <2>1. Answer(m, "conflict", Version) /\ net' \subseteq net
        /\ UNCHANGED <<log, retries, failures>>
    BY <1>10 DEF ServeConflict
  <2>. QED BY <1>0, <2>1, AnswerTypes DEF TypeInv, TypeOK
<1>11. ASSUME NEW m \in net, ServeSave(m) PROVE TypeInv'
  <2>1. Answer(m, "saved", Version + 1) /\ net' \subseteq net
        /\ log' = Append(log, <<m.tab, m.rev>>) /\ UNCHANGED <<retries, failures>>
    BY <1>11 DEF ServeSave
  <2>2. <<m.tab, m.rev>> \in Tabs \X Revisions BY DEF TypeInv, TypeOK, RequestRow
  <2>3. log' \in Seq(Tabs \X Revisions) BY <2>1, <2>2 DEF TypeInv, TypeOK
  <2>. QED BY <1>0, <2>1, <2>3, AnswerTypes DEF TypeInv, TypeOK
<1>12. CASE UNCHANGED vars
  BY <1>12 DEF TypeInv, TypeOK, vars
<1>. QED BY <1>1, <1>2, <1>3, <1>4, <1>5, <1>6, <1>7, <1>8, <1>9, <1>10, <1>11, <1>12
        DEF Next, Script, Serve

\* Every reachable state of the autosave has the rows and requests that the
\* model and the script define.
THEOREM TypeCorrect == Spec => []TypeOK
<1>1. Init => TypeInv
  BY NewRow, BoundsAssumption DEF Init, TypeInv, TypeOK
<1>2. TypeInv => TypeOK BY DEF TypeInv
<1>. QED BY <1>1, <1>2, TypesKept, PTL DEF Spec

-----------------------------------------------------------------------------
\* Version v is one that tab t was shown: the one its page was rendered with,
\* or one of its own saves.
Known(t, v) == /\ v \in 0..Version
               /\ v = tabs[t].opened \/ (v > 0 /\ log[v][1] = t)

\* Every version a tab, an answer or a request names is known to its tab, and a
\* tab saves only after it was opened.
VersionsKnown ==
    /\ \A t \in Tabs : tabs[t].state # "new" => /\ Known(t, tabs[t].version)
                                               /\ tabs[t].opened <= Version
    /\ \A t \in Tabs : tabs[t].answer.kind \in {"saved", "stale"} =>
           tabs[t].state # "new" /\ Known(t, tabs[t].answer.version)
    /\ \A m \in net : tabs[m.tab].state # "new" /\ Known(m.tab, m.version)
    /\ \A j \in 1..Version :
           tabs[log[j][1]].state # "new" /\ tabs[log[j][1]].opened < j

OrderInv == TypeInv /\ VersionsKnown /\ NoOlderWins /\ NoBlindOverwrite

\* A step that stores nothing keeps the order of the log, when it re-renders no
\* page and every version it names is known.
LEMMA NothingStored ==
    ASSUME OrderInv, TypeInv', log' = log,
           \A u \in Tabs : /\ tabs'[u].opened = tabs[u].opened
                           /\ tabs[u].state # "new" => tabs'[u].state # "new",
           \A u \in Tabs : tabs'[u].state # "new" =>
               /\ Known(u, tabs'[u].version) /\ tabs[u].opened <= Version,
           \A u \in Tabs : tabs'[u].answer.kind \in {"saved", "stale"} =>
               tabs'[u].state # "new" /\ Known(u, tabs'[u].answer.version),
           \A m \in net' : tabs[m.tab].state # "new" /\ Known(m.tab, m.version)
    PROVE  OrderInv'
<1>1. \A u \in Tabs, v \in Nat : Known(u, v) => Known(u, v)' BY DEF Known, Version
<1>2. /\ \A m \in net' : m.tab \in Tabs /\ m.version \in Nat
      /\ \A u \in Tabs : tabs'[u].version \in Nat /\ tabs'[u].answer.version \in Nat
  BY DEF TypeInv, TypeOK, RequestRow, TabRow
<1>3. \A j \in 1..Version : log[j][1] \in Tabs BY DEF OrderInv, TypeInv, TypeOK, Version
<1>4. (\A u \in Tabs : tabs[u].state # "new" => /\ Known(u, tabs[u].version)
                                                /\ tabs[u].opened <= Version)'
  BY <1>2 DEF Known, Version
<1>a. (\A u \in Tabs : tabs[u].answer.kind \in {"saved", "stale"} =>
          tabs[u].state # "new" /\ Known(u, tabs[u].answer.version))'
  BY <1>2 DEF Known, Version
<1>5. \A m \in net' : tabs'[m.tab].state # "new" /\ Known(m.tab, m.version)'
  BY <1>1, <1>2
<1>6. \A j \in 1..Version' : /\ tabs'[log'[j][1]].state # "new"
                             /\ tabs'[log'[j][1]].opened < j
  <2>. TAKE j \in 1..Version'
  <2>1. j \in 1..Version /\ log'[j] = log[j] BY DEF Version
  <2>2. log[j][1] \in Tabs BY <1>3, <2>1
  <2>3. tabs[log[j][1]].state # "new" /\ tabs[log[j][1]].opened < j
    BY <2>1 DEF OrderInv, VersionsKnown
  <2>. QED BY <2>1, <2>2, <2>3
<1>7. VersionsKnown' BY <1>4, <1>a, <1>5, <1>6 DEF VersionsKnown
<1>8. NoOlderWins' BY DEF OrderInv, NoOlderWins
<1>9. NoBlindOverwrite'
  <2>1. ASSUME NEW i \in 1..Version, NEW j \in 1..Version, i < j, log[i][1] # log[j][1]
        PROVE  i <= tabs'[log[j][1]].opened
    <3>1. log[j][1] \in Tabs BY <1>3
    <3>2. i <= tabs[log[j][1]].opened BY <2>1 DEF OrderInv, NoBlindOverwrite, Version
    <3>. QED BY <3>1, <3>2
  <2>. QED BY <2>1 DEF NoBlindOverwrite, Version
<1>. QED BY <1>7, <1>8, <1>9 DEF OrderInv

\* What one tab does with its own row: a special case that names no new version.
LEMMA RowChanges ==
    ASSUME OrderInv, TypeInv', log' = log,
           NEW t \in Tabs, NEW r \in TabRow, tabs' = [tabs EXCEPT ![t] = r],
           tabs[t].state # "new", r.state # "new", r.opened = tabs[t].opened,
           Known(t, r.version),
           r.answer.kind \in {"saved", "stale"} => Known(t, r.answer.version),
           \A m \in net' \ net : m.tab = t /\ Known(t, m.version)
    PROVE  OrderInv'
<1>1. /\ tabs'[t] = r /\ \A u \in Tabs : u # t => tabs'[u] = tabs[u]
  BY DEF OrderInv, TypeInv, TypeOK
<1>2. \A u \in Tabs : /\ tabs'[u].opened = tabs[u].opened
                      /\ tabs[u].state # "new" => tabs'[u].state # "new"
  BY <1>1
<1>3. \A u \in Tabs : tabs'[u].state # "new" =>
          /\ Known(u, tabs'[u].version) /\ tabs[u].opened <= Version
  BY <1>1 DEF OrderInv, VersionsKnown
<1>4. \A u \in Tabs : tabs'[u].answer.kind \in {"saved", "stale"} =>
          tabs'[u].state # "new" /\ Known(u, tabs'[u].answer.version)
  BY <1>1 DEF OrderInv, VersionsKnown
<1>5. \A m \in net' : tabs[m.tab].state # "new" /\ Known(m.tab, m.version)
  BY DEF OrderInv, VersionsKnown
<1>. QED BY <1>2, <1>3, <1>4, <1>5, NothingStored

\* save() names the version its row holds.
LEMMA SaveOrders ==
    ASSUME OrderInv, TypeInv', log' = log, NEW t \in Tabs, NEW q \in TabRow, Save(t, q),
           tabs[t].state # "new", q.state # "new", q.opened = tabs[t].opened,
           Known(t, q.version),
           q.answer.kind \in {"saved", "stale"} => Known(t, q.answer.version)
    PROVE  OrderInv'
<1>1. CASE Due(q)
  <2>. DEFINE r == [q EXCEPT !.sending = q.rev, !.call = @ + 1, !.answer = NoAnswer]
  <2>1. tabs' = [tabs EXCEPT ![t] = r] /\ net' = net \cup {Request(t, q, q.call + 1)}
    BY <1>1 DEF Save
  <2>2. tabs'[t] = r BY <2>1 DEF OrderInv, TypeInv, TypeOK
  <2>3. r \in TabRow BY <2>2 DEF TypeInv, TypeOK
  <2>4. /\ r.state = q.state /\ r.opened = q.opened /\ r.version = q.version
        /\ r.answer = NoAnswer
    BY DEF TabRow
  <2>5. \A m \in net' \ net : m.tab = t /\ Known(t, m.version) BY <2>1 DEF Request
  <2>6. r.answer.kind \notin {"saved", "stale"} BY <2>4 DEF NoAnswer
  <2>. QED BY <2>1, <2>3, <2>4, <2>5, <2>6, RowChanges
<1>2. CASE ~Due(q)
  BY <1>2, RowChanges DEF Save
<1>. QED BY <1>1, <1>2

\* An answer that names no version, or one its tab knows, disturbs nothing.
LEMMA AnswerOrders ==
    ASSUME OrderInv, TypeInv', log' = log, net' \subseteq net, NEW m \in net,
           NEW kind \in {"saved", "stale", "conflict"}, Answer(m, kind, Version),
           kind \in {"saved", "stale"} => Known(m.tab, Version)
    PROVE  OrderInv'
<1>. DEFINE t == m.tab
            r == [tabs[t] EXCEPT !.answer = [kind |-> kind, version |-> Version]]
<1>1. t \in Tabs /\ tabs[t] \in TabRow /\ tabs \in [Tabs -> TabRow]
  BY DEF OrderInv, TypeInv, TypeOK, RequestRow
<1>2. tabs[t].state # "new" /\ Known(t, tabs[t].version)
  BY <1>1 DEF OrderInv, VersionsKnown
<1>3. CASE tabs' = tabs
  <2>1. /\ tabs' = [tabs EXCEPT ![t] = tabs[t]]
        /\ tabs[t].answer.kind \in {"saved", "stale"} => Known(t, tabs[t].answer.version)
    BY <1>1, <1>3 DEF OrderInv, VersionsKnown
  <2>. QED BY <1>1, <1>2, <2>1, RowChanges
<1>4. CASE tabs' = [tabs EXCEPT ![t] = r]
  <2>1. tabs'[t] = r BY <1>1, <1>4
  <2>2. r \in TabRow BY <1>1, <2>1 DEF TypeInv, TypeOK
  <2>3. /\ r.state = tabs[t].state /\ r.opened = tabs[t].opened
        /\ r.version = tabs[t].version
        /\ r.answer = [kind |-> kind, version |-> Version]
    BY <1>1 DEF TabRow
  <2>4. r.state # "new" /\ Known(t, r.version) BY <1>2, <2>3
  <2>5. r.answer.kind \in {"saved", "stale"} => Known(t, r.answer.version) BY <2>3
  <2>6. \A n \in net' \ net : n.tab = t /\ Known(t, n.version) OBVIOUS
  <2>. HIDE DEF r
  <2>. QED BY <1>1, <1>2, <1>4, <2>2, <2>3, <2>4, <2>5, <2>6, RowChanges
<1>. QED BY <1>3, <1>4 DEF Answer

\* A save that is stored is the latest of its tab, and comes after a save of
\* another tab only if its page was rendered with that one.
LEMMA SaveKeepsOrder ==
    ASSUME OrderInv, TypeInv', NEW m \in net, ServeSave(m)
    PROVE  OrderInv'
<1>. DEFINE t == m.tab
            L == Len(log)
<1>1. /\ t \in Tabs /\ m.rev \in Nat /\ m.version = L /\ L \in Nat
      /\ log \in Seq(Tabs \X Revisions)
      /\ tabs \in [Tabs -> TabRow]
  BY DEF OrderInv, TypeInv, TypeOK, RequestRow, Revisions, ServeSave, IsConflict, Version
<1>2. /\ \A j \in 1..L : log[j][1] \in Tabs /\ log[j][2] \in Nat
      /\ tabs[t].state # "new" /\ tabs[t].opened \in Nat /\ tabs[t].opened <= L
      /\ L = tabs[t].opened \/ (L > 0 /\ log[L][1] = t)
  <2>1. \A j \in 1..L : log[j] \in Tabs \X Revisions BY <1>1
  <2>2. \A j \in 1..L : log[j][1] \in Tabs /\ log[j][2] \in Nat BY <2>1 DEF Revisions
  <2>3. tabs[t].state # "new" /\ Known(t, L) BY <1>1 DEF OrderInv, VersionsKnown
  <2>4. tabs[t].opened \in Nat /\ tabs[t].opened <= L
    BY <1>1, <2>3 DEF OrderInv, VersionsKnown, TabRow, Version
  <2>. QED BY <2>2, <2>3, <2>4 DEF Known
<1>3. /\ Len(log') = L + 1
      /\ log'[L + 1] = <<t, m.rev>>
      /\ \A j \in 1..L : log'[j] = log[j]
  BY <1>1 DEF ServeSave
<1>4. L > 0 /\ log[L][1] = t => m.rev > log[L][2]
  <2>1. L > 0 => log # << >> BY <1>1
  <2>2. L > 0 => L \in 1..L BY <1>1
  <2>. QED BY <1>1, <1>2, <2>1, <2>2 DEF ServeSave, IsStale, Version
\* The row of the sender: at most its answer changes, to the version just made.
<1>5. /\ \A u \in Tabs : /\ tabs'[u].state = tabs[u].state
                         /\ tabs'[u].opened = tabs[u].opened
                         /\ tabs'[u].version = tabs[u].version
      /\ \A u \in Tabs : \/ tabs'[u].answer = tabs[u].answer
                         \/ u = t /\ tabs'[u].answer.version = L + 1
  <2>. DEFINE r == [tabs[t] EXCEPT !.answer = [kind |-> "saved", version |-> L + 1]]
  <2>1. tabs' = tabs \/ tabs' = [tabs EXCEPT ![t] = r]
    BY DEF ServeSave, Answer, Version
  <2>2. /\ r.state = tabs[t].state /\ r.opened = tabs[t].opened
        /\ r.version = tabs[t].version /\ r.answer.version = L + 1
    BY <1>1 DEF TabRow
  <2>. HIDE DEF r
  <2>3. CASE tabs' = tabs BY <2>3
  <2>4. CASE tabs' = [tabs EXCEPT ![t] = r]
    <3>1. tabs'[t] = r /\ \A u \in Tabs : u # t => tabs'[u] = tabs[u] BY <1>1, <2>4
    <3>. QED BY <2>2, <3>1
  <2>. QED BY <2>1, <2>3, <2>4
<1>6. \A u \in Tabs, v \in Nat : Known(u, v) => Known(u, v)'
  BY <1>1, <1>3, <1>5 DEF Known, Version
<1>7. Known(t, Version)' BY <1>1, <1>3 DEF Known, Version
<1>8. VersionsKnown'
  <2>1. ASSUME NEW u \in Tabs, tabs'[u].state # "new"
        PROVE  Known(u, tabs[u].version)' /\ tabs'[u].opened <= Version'
    <3>1. /\ Known(u, tabs[u].version) /\ tabs[u].opened <= L
          /\ tabs[u].version \in Nat /\ tabs[u].opened \in Nat
      BY <1>1, <1>5, <2>1 DEF OrderInv, VersionsKnown, TabRow, Version
    <3>. QED BY <1>1, <1>3, <1>5, <3>1 DEF Known, Version
  <2>2. ASSUME NEW u \in Tabs, tabs'[u].answer.kind \in {"saved", "stale"}
        PROVE  tabs'[u].state # "new" /\ Known(u, tabs[u].answer.version)'
    <3>1. CASE tabs'[u].answer = tabs[u].answer
      <4>1. /\ tabs[u].state # "new" /\ Known(u, tabs[u].answer.version)
            /\ tabs[u].answer.version \in Nat
        BY <1>1, <2>2, <3>1 DEF OrderInv, VersionsKnown, TabRow
      <4>. QED BY <1>1, <1>3, <1>5, <3>1, <4>1 DEF Known, Version
    <3>2. CASE u = t /\ tabs'[u].answer.version = L + 1
      BY <1>2, <1>3, <1>5, <1>7, <3>2 DEF Known, Version
    <3>. QED BY <1>5, <3>1, <3>2
  <2>3. ASSUME NEW n \in net' PROVE tabs'[n.tab].state # "new" /\ Known(n.tab, n.version)'
    <3>1. n \in net /\ n.tab \in Tabs /\ n.version \in Nat
      BY <2>3 DEF ServeSave, OrderInv, TypeInv, TypeOK, RequestRow
    <3>2. tabs[n.tab].state # "new" /\ Known(n.tab, n.version)
      BY <3>1 DEF OrderInv, VersionsKnown
    <3>. QED BY <1>5, <1>6, <3>1, <3>2
  <2>4. ASSUME NEW j \in 1..(L + 1)
        PROVE  tabs'[log'[j][1]].state # "new" /\ tabs'[log'[j][1]].opened < j
    <3>1. CASE j \in 1..L
      BY <1>2, <1>3, <1>5, <3>1 DEF OrderInv, VersionsKnown, Version
    <3>2. CASE j = L + 1
      BY <1>1, <1>2, <1>3, <1>5, <3>2
    <3>. QED BY <1>1, <3>1, <3>2
  <2>. QED BY <1>3, <2>1, <2>2, <2>3, <2>4 DEF VersionsKnown, Version
<1>9. ASSUME NEW i \in 1..(L + 1), NEW j \in 1..(L + 1), i < j, log'[i][1] = log'[j][1]
      PROVE  log'[i][2] < log'[j][2]
  <2>0. i \in 1..L BY <1>1, <1>9
  <2>1. CASE j \in 1..L
    BY <1>3, <1>9, <2>0, <2>1 DEF OrderInv, NoOlderWins
  <2>2. CASE j = L + 1
    <3>1. log[i][1] = t BY <1>3, <1>9, <2>0, <2>2
    <3>2. tabs[t].opened < i BY <2>0, <3>1 DEF OrderInv, VersionsKnown, Version
    <3>3. L > 0 /\ log[L][1] = t /\ L \in 1..L BY <1>1, <1>2, <2>0, <3>2
    <3>4. i = L \/ log[i][2] < log[L][2]
      BY <1>1, <2>0, <3>1, <3>3 DEF OrderInv, NoOlderWins
    <3>5. log[i][2] < m.rev BY <1>1, <1>2, <1>4, <2>0, <3>3, <3>4
    <3>. QED BY <1>3, <2>0, <2>2, <3>5
  <2>. QED BY <1>1, <2>1, <2>2
<1>10. ASSUME NEW i \in 1..(L + 1), NEW j \in 1..(L + 1), i < j, log'[i][1] # log'[j][1]
       PROVE  i <= tabs'[log'[j][1]].opened
  <2>0. i \in 1..L BY <1>1, <1>10
  <2>1. CASE j \in 1..L
    BY <1>2, <1>3, <1>5, <1>10, <2>0, <2>1 DEF OrderInv, NoBlindOverwrite
  <2>2. CASE j = L + 1
    <3>1. log[i][1] # t BY <1>3, <1>10, <2>0, <2>2
    <3>2. i <= tabs[t].opened
      <4>1. CASE L = tabs[t].opened BY <1>1, <2>0, <4>1
      <4>2. CASE L > 0 /\ log[L][1] = t
        <5>1. i < L /\ L \in 1..L BY <1>1, <2>0, <3>1, <4>2
        <5>. QED BY <2>0, <3>1, <4>2, <5>1 DEF OrderInv, NoBlindOverwrite
      <4>. QED BY <1>2, <4>1, <4>2
    <3>. QED BY <1>1, <1>3, <1>5, <2>2, <3>2
  <2>. QED BY <1>1, <2>1, <2>2
<1>11. NoOlderWins' BY <1>3, <1>9 DEF NoOlderWins
<1>12. NoBlindOverwrite' BY <1>3, <1>10 DEF NoBlindOverwrite
<1>. QED BY <1>8, <1>11, <1>12 DEF OrderInv

LEMMA OrderKept == OrderInv /\ [Next]_vars => OrderInv'
<1>. SUFFICES ASSUME OrderInv, [Next]_vars PROVE OrderInv'
  OBVIOUS
<1>t. TypeInv' BY TypesKept DEF OrderInv
<1>0. /\ tabs \in [Tabs -> TabRow]
      /\ \A t \in Tabs : tabs[t] \in TabRow
      /\ \A t \in Tabs : tabs[t].state # "new" => Known(t, tabs[t].version)
      /\ \A t \in Tabs : tabs[t].answer.kind \in {"saved", "stale"} =>
             Known(t, tabs[t].answer.version)
  BY DEF OrderInv, TypeInv, TypeOK, VersionsKnown
<1>1. ASSUME NEW t \in Tabs, OpenTab(t) PROVE OrderInv'
  <2>. DEFINE r == [New EXCEPT !.state = "open", !.version = Version, !.opened = Version]
  <2>1. /\ tabs' = [tabs EXCEPT ![t] = r] /\ tabs[t].state = "new"
        /\ UNCHANGED <<net, log, retries, failures>>
    BY <1>1 DEF OpenTab
  <2>2. /\ r.state = "open" /\ r.version = Version /\ r.opened = Version
        /\ r.answer.kind = "none"
    BY DEF New, NoAnswer
  <2>3. tabs'[t] = r /\ \A u \in Tabs : u # t => tabs'[u] = tabs[u] BY <1>0, <2>1
  <2>. HIDE DEF r
  <2>4. Version \in Nat /\ \A j \in 1..Version : log[j][1] \in Tabs \ {t}
    BY <2>1 DEF OrderInv, TypeInv, TypeOK, VersionsKnown, Version
  <2>5. \A m \in net : m.tab \in Tabs \ {t}
    BY <2>1 DEF OrderInv, TypeInv, TypeOK, RequestRow, VersionsKnown
  <2>6. (\A u \in Tabs : tabs[u].state # "new" => /\ Known(u, tabs[u].version)
                                                  /\ tabs[u].opened <= Version)'
    BY <2>1, <2>2, <2>3, <2>4 DEF OrderInv, VersionsKnown, Known, Version
  <2>7. (\A u \in Tabs : tabs[u].answer.kind \in {"saved", "stale"} =>
             tabs[u].state # "new" /\ Known(u, tabs[u].answer.version))'
    BY <2>1, <2>2, <2>3 DEF OrderInv, VersionsKnown, Known, Version
  <2>8. (\A m \in net : tabs[m.tab].state # "new" /\ Known(m.tab, m.version))'
    BY <2>1, <2>3, <2>5 DEF OrderInv, VersionsKnown, Known, Version
  <2>9. (\A j \in 1..Version :
             tabs[log[j][1]].state # "new" /\ tabs[log[j][1]].opened < j)'
    BY <2>1, <2>3, <2>4 DEF OrderInv, VersionsKnown, Version
  <2>10. NoOlderWins' BY <2>1 DEF OrderInv, NoOlderWins
  <2>11. NoBlindOverwrite'
    BY <2>1, <2>3, <2>4 DEF OrderInv, NoBlindOverwrite, Version
  <2>. QED BY <1>t, <2>6, <2>7, <2>8, <2>9, <2>10, <2>11 DEF OrderInv, VersionsKnown
<1>2. ASSUME NEW t \in Tabs, Input(t) PROVE OrderInv'
  <2>. DEFINE r == [tabs[t] EXCEPT !.rev = @ + 1, !.failed = FALSE, !.timer = TRUE]
  <2>1. /\ tabs' = [tabs EXCEPT ![t] = r] /\ tabs[t].state = "open"
        /\ UNCHANGED <<net, log, retries, failures>>
    BY <1>0, <1>2 DEF Input, Open
  <2>2. r \in TabRow BY <1>0, <1>t, <2>1 DEF TypeInv, TypeOK
  <2>3. /\ r.state = "open" /\ r.opened = tabs[t].opened /\ r.version = tabs[t].version
        /\ r.answer = tabs[t].answer
    BY <1>0, <2>1 DEF TabRow
  <2>. HIDE DEF r
  <2>. QED BY <1>0, <1>t, <2>1, <2>2, <2>3, RowChanges
<1>3. ASSUME NEW t \in Tabs, TimerFires(t) \/ Retry(t) PROVE OrderInv'
  <2>. DEFINE q == [tabs[t] EXCEPT !.timer = FALSE]
  <2>1. Save(t, q) /\ tabs[t].state = "open" /\ log' = log
    BY <1>3 DEF TimerFires, Retry, Open
  <2>2. q \in TabRow BY <1>0 DEF TabRow
  <2>3. /\ q.state = "open" /\ q.opened = tabs[t].opened /\ q.version = tabs[t].version
        /\ q.answer = tabs[t].answer
    BY <1>0, <2>1 DEF TabRow
  <2>. HIDE DEF q
  <2>. QED BY <1>0, <1>t, <2>1, <2>2, <2>3, SaveOrders
<1>4. ASSUME NEW t \in Tabs, ReceiveSaved(t) PROVE OrderInv'
  <2>. DEFINE q == [tabs[t] EXCEPT
                !.saved = IF tabs[t].answer.kind = "stale" THEN tabs[t].rev
                                                           ELSE tabs[t].sending,
                !.version = tabs[t].answer.version, !.failed = FALSE, !.sending = 0,
                !.answer = NoAnswer]
  <2>1. /\ Save(t, q) /\ tabs[t].state = "open" /\ log' = log
        /\ Known(t, tabs[t].answer.version)
    BY <1>0, <1>4 DEF ReceiveSaved, Received, Open
  <2>2. q \in TabRow BY <1>0, ReceivedTypes DEF OrderInv, TypeInv
  <2>3. /\ q.state = "open" /\ q.opened = tabs[t].opened
        /\ q.version = tabs[t].answer.version /\ q.answer.kind = "none"
    BY <1>0, <2>1 DEF TabRow, NoAnswer
  <2>. HIDE DEF q
  <2>. QED BY <1>0, <1>t, <2>1, <2>2, <2>3, SaveOrders
<1>5. ASSUME NEW t \in Tabs, ReceiveConflict(t) \/ FetchFails(t) PROVE OrderInv'
  <2>. DEFINE r == [tabs[t] EXCEPT !.failed = TRUE, !.sending = 0, !.answer = NoAnswer]
  <2>1. /\ tabs' = [tabs EXCEPT ![t] = r] /\ tabs[t].state = "open"
        /\ net' \subseteq net /\ log' = log
    BY <1>0, <1>5 DEF ReceiveConflict, FetchFails, Open
  <2>2. r \in TabRow BY <1>0, <1>t, <2>1 DEF TypeInv, TypeOK
  <2>3. /\ r.state = "open" /\ r.opened = tabs[t].opened /\ r.version = tabs[t].version
        /\ r.answer.kind = "none"
    BY <1>0, <2>1 DEF TabRow, NoAnswer
  <2>. HIDE DEF r
  <2>. QED BY <1>0, <1>t, <2>1, <2>2, <2>3, RowChanges
<1>6. ASSUME NEW t \in Tabs, Leave(t) PROVE OrderInv'
  <2>. DEFINE r == [tabs[t] EXCEPT !.state = "gone", !.timer = FALSE]
  <2>0. tabs' = [tabs EXCEPT ![t] = r] /\ tabs[t].state = "open" /\ log' = log
    BY <1>0, <1>6 DEF Leave, Open
  <2>1. \A m \in net' \ net : m.tab = t /\ m.version = tabs[t].version
    BY <1>6 DEF Leave, Request
  <2>2. r \in TabRow BY <1>0 DEF TabRow
  <2>3. /\ r.state = "gone" /\ r.opened = tabs[t].opened /\ r.version = tabs[t].version
        /\ r.answer = tabs[t].answer
    BY <1>0 DEF TabRow
  <2>. HIDE DEF r
  <2>. QED BY <1>0, <1>t, <2>0, <2>1, <2>2, <2>3, RowChanges
<1>7. ASSUME NEW m \in net, ServeStale(m) PROVE OrderInv'
  <2>1. /\ Answer(m, "stale", Version) /\ net' \subseteq net /\ log' = log
        /\ log # << >> /\ log[Version][1] = m.tab
    BY <1>7 DEF ServeStale, IsStale
  <2>2. Known(m.tab, Version)
    BY <2>1 DEF Known, Version, OrderInv, TypeInv, TypeOK
  <2>. QED BY <1>t, <2>1, <2>2, AnswerOrders
<1>8. ASSUME NEW m \in net, ServeConflict(m) PROVE OrderInv'
  <2>1. Answer(m, "conflict", Version) /\ net' \subseteq net /\ log' = log
    BY <1>8 DEF ServeConflict
  <2>. QED BY <1>t, <2>1, AnswerOrders
<1>9. ASSUME NEW m \in net, ServeSave(m) PROVE OrderInv'
  BY <1>9, <1>t, SaveKeepsOrder
<1>10. CASE UNCHANGED vars
  BY <1>10, <1>t DEF OrderInv, VersionsKnown, Known, Version, NoOlderWins,
     NoBlindOverwrite, vars
<1>. QED BY <1>1, <1>2, <1>3, <1>4, <1>5, <1>6, <1>7, <1>8, <1>9, <1>10
        DEF Next, Script, Serve

LEMMA OrderInvariant == Spec => []OrderInv
<1>1. Init => OrderInv
  <2>. SUFFICES ASSUME Init PROVE OrderInv
    OBVIOUS
  <2>1. TypeInv BY NewRow, BoundsAssumption DEF Init, TypeInv, TypeOK
  <2>2. VersionsKnown BY DEF Init, VersionsKnown, Version, New, NoAnswer
  <2>3. NoOlderWins /\ NoBlindOverwrite BY DEF Init, NoOlderWins, NoBlindOverwrite
  <2>. QED BY <2>1, <2>2, <2>3 DEF OrderInv
<1>. QED BY <1>1, OrderKept, PTL DEF Spec

\* However late the requests of a tab arrive, and whatever other tabs save in
\* between, what it had typed earlier is never stored over what it typed later.
THEOREM OlderNeverWins == Spec => []NoOlderWins
<1>1. OrderInv => NoOlderWins BY DEF OrderInv
<1>. QED BY <1>1, OrderInvariant, PTL

\* No tab stores over another tab's save that its page was not rendered with.
THEOREM NothingOverwrittenBlind == Spec => []NoBlindOverwrite
<1>1. OrderInv => NoBlindOverwrite BY DEF OrderInv
<1>. QED BY <1>1, OrderInvariant, PTL
=============================================================================
