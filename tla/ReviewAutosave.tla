--------------------------- MODULE ReviewAutosave ---------------------------
(***************************************************************************)
(* Autosave of one reviewer's review of one proposal: the browser side     *)
(* (static/pretalx_speakerops/reviewer.js) in any number of tabs, and the  *)
(* server side (views.py ReviewerScoringView.post, the model               *)
(* ReviewRecommendation).                                                  *)
(*                                                                         *)
(* A tab is one load of the page with a session of its own.  It counts the *)
(* revisions of its form, has one save under way at a time, and names the  *)
(* version it believes the stored review to have.  Between a tab and the   *)
(* server requests are delayed, overtaken and lost, and so are answers.    *)
(* The server handles a request under the lock of the row, in one          *)
(* transaction.                                                            *)
(***************************************************************************)
EXTENDS Naturals, Sequences

CONSTANTS
    Tabs,
    MaxRevision, MaxRetries, MaxFailures  \* bounds

ASSUME BoundsAssumption ==
    MaxRevision \in Nat /\ MaxRetries \in Nat /\ MaxFailures \in Nat

VARIABLES
    tabs,
    net,       \* requests on their way to the server
    log,       \* the saves that were stored, <<tab, revision>>: save_version is
               \* its length, save_session and client_revision its last entry
    retries, failures

vars == <<tabs, net, log, retries, failures>>

-----------------------------------------------------------------------------
NoAnswer == [kind |-> "none", version |-> 0]

\* rev and saved are the script's revision and savedRevision, sending is the
\* savingRevision of the save under way or 0, call counts fetches, opened is
\* the version the page was rendered with (history).
New == [ state |-> "new", rev |-> 0, saved |-> 0, sending |-> 0, call |-> 0,
         answer |-> NoAnswer, failed |-> FALSE, timer |-> FALSE,
         version |-> 0, opened |-> 0 ]

Version == Len(log)
Open(t) == tabs[t].state = "open"

\* What the form of tab t, in state q, posts: fetch number n, or 0 for a beacon.
Request(t, q, n) == [tab |-> t, n |-> n, rev |-> q.rev, version |-> q.version]

\* save(): nothing while a save is under way or nothing is unsaved.
Due(q) == q.sending = 0 /\ q.saved # q.rev

Save(t, q) ==
    IF Due(q)
    THEN /\ tabs' = [tabs EXCEPT ![t] = [q EXCEPT !.sending = q.rev, !.call = @ + 1,
                                                  !.answer = NoAnswer]]
         /\ net' = net \cup {Request(t, q, q.call + 1)}
    ELSE /\ tabs' = [tabs EXCEPT ![t] = q]
         /\ UNCHANGED net

-----------------------------------------------------------------------------
(* The tab.                                                                *)

OpenTab(t) ==
    /\ tabs[t].state = "new"
    /\ tabs' = [tabs EXCEPT ![t] = [New EXCEPT !.state = "open", !.version = Version,
                                                !.opened = Version]]
    /\ UNCHANGED <<net, log, retries, failures>>

Input(t) ==
    /\ Open(t) /\ tabs[t].rev < MaxRevision
    /\ tabs' = [tabs EXCEPT ![t].rev = @ + 1, ![t].failed = FALSE, ![t].timer = TRUE]
    /\ UNCHANGED <<net, log, retries, failures>>

\* 700 ms after the last input; or at once, when the reviewer submits the form
\* or goes on to another proposal.
TimerFires(t) ==
    /\ Open(t) /\ tabs[t].timer
    /\ Save(t, [tabs[t] EXCEPT !.timer = FALSE])
    /\ UNCHANGED <<log, retries, failures>>

\* The retry button, or submitting again, after a save that failed.
Retry(t) ==
    /\ Open(t) /\ tabs[t].failed /\ Due(tabs[t])
    /\ retries < MaxRetries
    /\ retries' = retries + 1
    /\ Save(t, [tabs[t] EXCEPT !.timer = FALSE])
    /\ UNCHANGED <<log, failures>>

Received_NoChain(t, q) ==
    /\ tabs' = [tabs EXCEPT ![t] = q]
    /\ UNCHANGED net

\* An answer of status 200: what was sent is saved - everything is, if the
\* server called it stale - and what was typed meanwhile is sent at once.
Received(t, q) == Save(t, q)

ReceiveSaved(t) ==
    LET answer == tabs[t].answer IN
    /\ Open(t) /\ answer.kind \in {"saved", "stale"}
    /\ Received(t, [tabs[t] EXCEPT
         !.saved = IF answer.kind = "stale" THEN tabs[t].rev ELSE tabs[t].sending,
         !.version = answer.version, !.failed = FALSE, !.sending = 0,
         !.answer = NoAnswer])
    /\ UNCHANGED <<log, retries, failures>>

ReceiveConflict_Adopts(t) ==
    /\ Open(t) /\ tabs[t].answer.kind = "conflict"
    /\ tabs' = [tabs EXCEPT ![t].failed = TRUE, ![t].sending = 0,
                            ![t].version = tabs[t].answer.version,
                            ![t].answer = NoAnswer]
    /\ UNCHANGED <<net, log, retries, failures>>

\* Status 409 is an error like any other; the version field stays as it is.
ReceiveConflict(t) ==
    /\ Open(t) /\ tabs[t].answer.kind = "conflict"
    /\ tabs' = [tabs EXCEPT ![t].failed = TRUE, ![t].sending = 0,
                            ![t].answer = NoAnswer]
    /\ UNCHANGED <<net, log, retries, failures>>

\* The browser gives a fetch up.  Its request is lost, was served already, or
\* will be served late.
FetchFails(t) ==
    /\ Open(t) /\ tabs[t].sending # 0
    /\ failures < MaxFailures
    /\ failures' = failures + 1
    /\ tabs' = [tabs EXCEPT ![t].failed = TRUE, ![t].sending = 0,
                            ![t].answer = NoAnswer]
    /\ net' \in {net, {m \in net : m.tab # t \/ m.n # tabs[t].call}}
    /\ UNCHANGED <<log, retries>>

Unsaved(q) == IF q.saved # q.rev THEN {0} ELSE {}

\* The page is left.  What is unsaved goes out as a beacon, which nobody waits
\* for; the fetch under way may still arrive.
Leave(t) ==
    /\ Open(t)
    /\ tabs' = [tabs EXCEPT ![t].state = "gone", ![t].timer = FALSE]
    /\ net' \in {net, net \cup {Request(t, tabs[t], n) : n \in Unsaved(tabs[t])}}
    /\ UNCHANGED <<log, retries, failures>>

-----------------------------------------------------------------------------
(* The server.                                                             *)

\* The stored review is the sender's own, of this revision or a later one.
IsStale(m) == /\ log # << >>
              /\ log[Version][1] = m.tab /\ m.rev <= log[Version][2]

IsConflict_Never(m) == FALSE
IsConflict(m)       == m.version # Version

\* A tab hears the answer to the fetch it waits for and no other.
Answer(m, kind, version) ==
    tabs' = IF Open(m.tab) /\ tabs[m.tab].sending # 0 /\ tabs[m.tab].call = m.n
            THEN [tabs EXCEPT ![m.tab].answer = [kind |-> kind, version |-> version]]
            ELSE tabs

ServeStale(m) ==
    /\ IsStale(m)
    /\ Answer(m, "stale", Version)
    /\ net' = net \ {m}
    /\ UNCHANGED <<log, retries, failures>>

ServeConflict(m) ==
    /\ ~IsStale(m) /\ IsConflict(m)
    /\ Answer(m, "conflict", Version)
    /\ net' = net \ {m}
    /\ UNCHANGED <<log, retries, failures>>

ServeSave(m) ==
    /\ ~IsStale(m) /\ ~IsConflict(m)
    /\ log' = Append(log, <<m.tab, m.rev>>)
    /\ Answer(m, "saved", Version + 1)
    /\ net' = net \ {m}
    /\ UNCHANGED <<retries, failures>>

Serve(m) == ServeStale(m) \/ ServeConflict(m) \/ ServeSave(m)

-----------------------------------------------------------------------------
Init ==
    /\ tabs = [t \in Tabs |-> New]
    /\ net = {} /\ log = << >>
    /\ retries = 0 /\ failures = 0

Script(t) == TimerFires(t) \/ ReceiveSaved(t) \/ ReceiveConflict(t)

Next ==
    \/ \E t \in Tabs : \/ OpenTab(t) \/ Input(t) \/ Retry(t) \/ FetchFails(t)
                       \/ Leave(t) \/ Script(t)
    \/ \E m \in net : Serve(m)

Spec == Init /\ [][Next]_vars

\* The script runs in an open page, and the server serves what arrives.
FairSpec == /\ Spec
            /\ \A t \in Tabs : WF_vars(Script(t))
            /\ WF_vars(\E m \in net : Serve(m))

-----------------------------------------------------------------------------
Revisions  == 1..MaxRevision
TabRow     == [ state : {"new", "open", "gone"}, rev : 0..MaxRevision,
                saved : 0..MaxRevision, sending : 0..MaxRevision, call : Nat,
                answer : [kind : {"none", "saved", "stale", "conflict"}, version : Nat],
                failed : BOOLEAN, timer : BOOLEAN, version : Nat, opened : Nat ]
RequestRow == [tab : Tabs, n : Nat, rev : Revisions, version : Nat]

TypeOK ==
    /\ tabs \in [Tabs -> TabRow]
    /\ net \subseteq RequestRow
    /\ log \in Seq(Tabs \X Revisions)
    /\ retries \in 0..MaxRetries /\ failures \in 0..MaxFailures

\* What a tab had typed earlier is never stored over what it typed later,
\* however late its requests arrive, and not even when another tab saved in
\* between.  (tests/test_screens.py:186-201: the older revision of a session
\* does not win.)
NoOlderWins ==
    \A i, j \in 1..Len(log) :
        i < j /\ log[i][1] = log[j][1] => log[i][2] < log[j][2]

\* A tab never stores over the save of another tab that its page was not
\* rendered with.  (views.py:1382: "A newer review was saved in another tab or
\* browser.  Reload to compare it before retrying.")
NoBlindOverwrite ==
    \A i, j \in 1..Len(log) :
        i < j /\ log[i][1] # log[j][1] => i <= tabs[log[j][1]].opened

\* What is typed gets saved, or the reviewer is told that it is not, or the
\* page is left.
Settled(t) == tabs[t].saved = tabs[t].rev \/ tabs[t].failed \/ tabs[t].state = "gone"

EditsAreReported == \A t \in Tabs : Open(t) ~> Settled(t)

\* "All changes saved" (reviewer.js:41): the server has stored the revision.
SavedIsStored ==
    \A t \in Tabs :
        Open(t) /\ tabs[t].saved # 0 /\ tabs[t].saved = tabs[t].rev =>
            \E i \in 1..Len(log) : log[i] = <<t, tabs[t].rev>>
=============================================================================
