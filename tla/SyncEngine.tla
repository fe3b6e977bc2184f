----------------------------- MODULE SyncEngine -----------------------------
(***************************************************************************)
(* Synchronization with Accelevents: integrations/sync.py, sync_claims.py, *)
(* sync_state.py, the connector client (accelevents.py), the recovery and  *)
(* claim-resolution views (workflow_actions.py) and the console            *)
(* (views.py SyncConsoleView).                                             *)
(*                                                                         *)
(* A worker is one web request.  Nothing spans a request but the database, *)
(* so a worker is a small program over shared rows: every autocommitted    *)
(* statement or atomic block of the code is one step, connector I/O is a   *)
(* step of its own, and requests interleave and die between any two steps. *)
(***************************************************************************)
EXTENDS DomainExecutor, Sequences, FiniteSets

CONSTANTS
    Records,      \* logical records, the (local_type, local_id) pairs
    Speakers,     \* those of local_type "speaker"; the others are sessions
    Payloads,     \* what a record may currently hold (stands for fingerprints)
    EmailOf,      \* [Payloads -> emails], the key of the remote duplicate check
    Workers,      \* concurrent requests
    NoWorker,     \* owner of a claim whose request has ended
    Correlations, \* correlation ids of confirmed recovery actions
    Retries,      \* client `retries`: extra tries after a 5xx answer
    MaxItems, MaxRuns, MaxPreviews, MaxAttempts, MaxCrashes  \* bounds

ASSUME RecordsAssumption == IsFiniteSet(Records) /\ Speakers \subseteq Records
ASSUME WorkersAssumption == NoWorker \notin Workers
ASSUME BoundsAssumption ==
    /\ Retries \in Nat
    /\ MaxItems \in Nat
    /\ MaxRuns \in Nat
    /\ MaxPreviews \in Nat
    /\ MaxAttempts \in Nat
    /\ MaxCrashes \in Nat

VARIABLES
    local,     \* live payload of each record (User / Submission rows)
    identity,  \* ExternalIdentity rows, a function on the records that have one
    previews,  \* SyncPreview rows
    nRuns, runs,    \* SyncRun rows, pk in 1..nRuns
    nItems, items,  \* SyncItem rows, pk in 1..nItems
    claims,    \* active SyncWriteClaim rows, a function on the claimed records
    receipts,  \* WorkflowActionReceipt rows of recovery actions
    remote,    \* what Accelevents holds for a record: payloads, index = id
    workers,   \* the requests in progress
    crashes    \* how many requests died so far

rows    == <<previews, nRuns, runs, nItems, items>>
vars    == <<local, identity, rows, claims, receipts, remote, workers, crashes>>

-----------------------------------------------------------------------------
(* Tables and small helpers.                                               *)

ItemMachine ==
    { <<"pending", "running">>, <<"pending", "noop">>, <<"pending", "failed">>,
      <<"running", "succeeded">>, <<"running", "failed">>,
      <<"running", "reconciled">>, <<"failed", "running">>,
      <<"failed", "reconciled">> }

RunMachine ==
    { <<"previewed", "running">>, <<"running", "partial">>,
      <<"running", "succeeded">>, <<"running", "failed">>,
      <<"partial", "running">>, <<"partial", "succeeded">> }

Settled == {"succeeded", "reconciled", "noop"}

ItemIds == 1..nItems
RunIds  == 1..nRuns

Set(f, k, v) == [x \in DOMAIN f \cup {k} |-> IF x = k THEN v ELSE f[x]]
Drop(f, k)   == [x \in DOMAIN f \ {k} |-> f[x]]

\* No newer row for the same logical record.
IsLatest(i) == \A j \in ItemIds : items[j].rec = items[i].rec => j <= i

\* latest_failed_sync_items: what the console and recovery offer for retry.
LatestFailed == {i \in ItemIds : items[i].status = "failed" /\ IsLatest(i)}

\* The worker's item and its logical record.
Row(w) == items[workers[w].item]
Rec(w) == Row(w).rec

Idle ==
    [ pc |-> "idle", mode |-> "none", queue |-> {}, item |-> 0, run |-> 0,
      corr |-> {}, version |-> 0, target |-> "none", runVersion |-> 0,
      outcome |-> "none", tries |-> 0, someOk |-> FALSE,
      someBad |-> FALSE ]

\* A request that has been accepted, with the items it is to work on.
Arrived(mode, run, corr, queue) ==
    [Idle EXCEPT !.pc = "next", !.mode = mode, !.run = run, !.corr = corr,
                 !.queue = queue]

\* The worker's record once it is done with its item: back at the loop head.
AtLoop(w) ==
    [workers[w] EXCEPT !.pc = "next", !.item = 0, !.version = 0,
        !.target = "none", !.runVersion = 0, !.outcome = "none",
        !.tries = 0]

\* An exception that reaches the loop: the run and retry views give up, the
\* recovery view breaks and records an ambiguous receipt.
AfterRaise(w) ==
    IF workers[w].mode = "recovery"
    THEN [AtLoop(w) EXCEPT !.pc = "receipt", !.outcome = "ambiguous"]
    ELSE Idle

\* The request goes on with record q.
Become(w, q) == workers' = [workers EXCEPT ![w] = q]
Goto(w, pc)  == Become(w, [workers[w] EXCEPT !.pc = pc])

-----------------------------------------------------------------------------
(* Ordinary activity: a speaker or organiser edits the source record, an   *)
(* organiser asks for a preview.                                           *)

Edit(r) ==
    /\ \E p \in Payloads \ {local[r]} : local' = [local EXCEPT ![r] = p]
    /\ UNCHANGED <<identity, rows, claims, receipts, remote, workers, crashes>>

PreviewAction(r) ==
    IF r \notin DOMAIN identity THEN "create"
    ELSE IF identity[r].payload = local[r] THEN "noop"
    ELSE "update"

MakePreview(S) ==
    /\ Cardinality(previews) < MaxPreviews
    /\ LET entry(r) ==
             [ action  |-> PreviewAction(r),
               payload |-> local[r],
               ext     |-> IF r \in DOMAIN identity THEN identity[r].ext ELSE 0 ]
       IN  previews' = previews \cup
             {[status |-> "created", entries |-> [r \in S |-> entry(r)]]}
    /\ UNCHANGED <<local, identity, nRuns, runs, nItems, items, claims,
                   receipts, remote, workers, crashes>>

-----------------------------------------------------------------------------
(* Entry points: a request arrives.                                        *)

\* The preview no longer describes the live records.
Stale(p) == \E r \in DOMAIN p.entries : p.entries[r].payload # local[r]

\* execute_preview's transaction: the run, one item per entry, run started.
\* A stale preview is refused before anything is written (the INVALID status
\* is rolled back with the transaction, so it is no step of the model).
ExecutePreview(w) ==
    /\ workers[w] = Idle
    /\ nRuns < MaxRuns
    /\ \E p \in previews :
        LET S == DOMAIN p.entries
            n == Cardinality(S)
        IN  /\ ~Stale(p)
            /\ nItems + n <= MaxItems
            /\ \E f \in [nItems + 1..nItems + n -> S] :
                /\ \A r \in S : \E i \in DOMAIN f : f[i] = r
                /\ items' = [i \in 1..nItems + n |->
                     IF i <= nItems THEN items[i]
                     ELSE [ rec |-> f[i], run |-> nRuns + 1,
                            action |-> p.entries[f[i]].action,
                            payload |-> p.entries[f[i]].payload,
                            ext |-> p.entries[f[i]].ext,
                            status |-> "pending", version |-> 0,
                            attempts |-> 0 ]]
            /\ nItems' = nItems + n
            /\ previews' = (previews \ {p}) \cup {[p EXCEPT !.status = "executed"]}
            /\ Become(w, Arrived("run", nRuns + 1, {}, nItems + 1..nItems + n))
    /\ nRuns' = nRuns + 1
    /\ runs' = Set(runs, nRuns + 1, [status |-> "running", version |-> 1, keys |-> {}])
    /\ UNCHANGED <<local, identity, claims, receipts, remote, crashes>>

\* SyncConsoleView "retry": any item that is offered when the page is posted.
Retry(w) ==
    /\ workers[w] = Idle
    /\ \E i \in LatestFailed :
        /\ items[i].attempts < MaxAttempts
        /\ Become(w, Arrived("retry", 0, {}, {i}))
    /\ UNCHANGED <<local, identity, rows, claims, receipts, remote, crashes>>

\* SyncRecoveryActionConfirmView: the receipt is committed before any I/O,
\* and a correlation id that already has a receipt starts nothing.
ConfirmRecovery(w) ==
    /\ workers[w] = Idle
    /\ \E c \in Correlations \ DOMAIN receipts, S \in SUBSET LatestFailed :
        /\ S # {}
        /\ \A i \in S : items[i].attempts < MaxAttempts
        /\ receipts' = Set(receipts, c, [status |-> "pending", targets |-> S])
        /\ Become(w, Arrived("recovery", 0, {c}, S))
    /\ UNCHANGED <<local, identity, rows, claims, remote, crashes>>

-----------------------------------------------------------------------------
(* The loop over items, and the claim of execute_item.                     *)

ClaimIsFree_Unchecked(r) == TRUE

ClaimIsFree(r) == r \notin DOMAIN claims

\* Take the lowest queued pk and insert the claim row; the partial unique
\* constraint on active claims admits one per logical record.
Claim(w) ==
    /\ workers[w].pc = "next"
    /\ \E i \in workers[w].queue :
        /\ \A j \in workers[w].queue : i <= j
        /\ LET next == [workers[w] EXCEPT !.item = i, !.queue = @ \ {i}]
           IN  IF ClaimIsFree(items[i].rec)
               THEN /\ claims' = Set(claims, items[i].rec,
                         [item |-> i, status |-> "in_progress", owner |-> w])
                    /\ Become(w, [next EXCEPT !.pc = "check"])
               ELSE /\ Become(w, [next EXCEPT !.pc = "blocked"])
                    /\ UNCHANGED claims
    /\ UNCHANGED <<local, identity, rows, receipts, remote, crashes>>

\* After the IntegrityError the active claim is looked up again.  Found: the
\* item is blocked, which fails it in a run, counts against a recovery and
\* ends a retry.  Gone: the IntegrityError itself propagates.
Blocked(w) ==
    /\ workers[w].pc = "blocked"
    /\ LET failing == Accepts(ItemMachine, Row(w), "failed", 0)
           found == Rec(w) \in DOMAIN claims
       IN  /\ items' = IF found /\ workers[w].mode = "run" /\ failing
                       THEN [items EXCEPT ![workers[w].item] = Applied(@, "failed")]
                       ELSE items
           /\ Become(w,
                IF ~found \/ (workers[w].mode = "run" /\ ~failing) THEN AfterRaise(w)
                ELSE IF workers[w].mode = "retry" THEN Idle
                ELSE [AtLoop(w) EXCEPT !.someBad = TRUE])
    /\ UNCHANGED <<local, identity, previews, nRuns, runs, nItems, claims,
                   receipts, remote, crashes>>

Eligible_AnyStatus(i) == IsLatest(i)
Eligible_NotLatest(i) == items[i].status \in {"pending", "failed"}

\* The re-read under the claim: still the newest row, still unsent or failed.
Eligible(i) == IsLatest(i) /\ items[i].status \in {"pending", "failed"}

Check_KeepsClaim(w) ==
    /\ workers[w].pc = "check"
    /\ Become(w, IF Eligible(workers[w].item)
         THEN [workers[w] EXCEPT !.pc = "start", !.version = Row(w).version]
         ELSE AfterRaise(w))
    /\ UNCHANGED <<local, identity, rows, claims, receipts, remote, crashes>>

Check(w) ==
    /\ workers[w].pc = "check"
    /\ IF Eligible(workers[w].item)
       THEN /\ Become(w, [workers[w] EXCEPT !.pc = "start",
                                           !.version = Row(w).version])
            /\ UNCHANGED claims
       ELSE /\ claims' = Drop(claims, Rec(w))
            /\ Become(w, AfterRaise(w))
    /\ UNCHANGED <<local, identity, rows, receipts, remote, crashes>>

\* Any exception below the claim: mark it ambiguous, keep it active, re-raise.
Raise(w) ==
    /\ claims' = [claims EXCEPT ![Rec(w)] =
         [@ EXCEPT !.status = "ambiguous", !.owner = NoWorker]]
    /\ Become(w, AfterRaise(w))

-----------------------------------------------------------------------------
(* _execute_item_unclaimed.                                                *)

\* client_for: no connection row, or one without a credential.
ClientFails(w) ==
    /\ workers[w].pc = "start"
    /\ Raise(w)
    /\ UNCHANGED <<local, identity, rows, receipts, remote, crashes>>

\* A noop item closes without I/O; any other gets an attempt row and is
\* RUNNING, committed before the connector is called.
Start(w) ==
    /\ workers[w].pc = "start"
    /\ LET noop   == Row(w).action = "noop"
           target == IF noop THEN "noop" ELSE "running"
           sent   == IF noop THEN Row(w) ELSE [Row(w) EXCEPT !.attempts = @ + 1]
       IN  IF Accepts(ItemMachine, Row(w), target, workers[w].version)
           THEN /\ items' = [items EXCEPT ![workers[w].item] = Applied(sent, target)]
                /\ Become(w, [workers[w] EXCEPT
                     !.pc = IF noop THEN "readItems" ELSE "call",
                     !.version = @ + 1])
                /\ UNCHANGED claims
           ELSE /\ items' = [items EXCEPT ![workers[w].item] = sent]
                /\ Raise(w)
    /\ UNCHANGED <<local, identity, previews, nRuns, runs, nItems, receipts,
                   remote, crashes>>

\* What Accelevents does with the request (the mock server's rules).
IsUpdate(w)  == Row(w).action = "update"
Unknown(w)   == IsUpdate(w) /\ Row(w).ext \notin DOMAIN remote[Rec(w)]
Duplicate(w) ==
    /\ Rec(w) \in Speakers
    /\ \E id \in DOMAIN remote[Rec(w)] :
        /\ ~(IsUpdate(w) /\ id = Row(w).ext)
        /\ EmailOf[remote[Rec(w)][id]] = EmailOf[Row(w).payload]
Writable(w)  == ~Unknown(w) /\ ~Duplicate(w)
Written(w)   ==
    [remote EXCEPT ![Rec(w)] =
        IF IsUpdate(w) THEN [@ EXCEPT ![Row(w).ext] = Row(w).payload]
                       ELSE Append(@, Row(w).payload)]

\* 200: the write is applied and the answer received.
Accepted(w) ==
    /\ workers[w].pc = "call"
    /\ Writable(w)
    /\ remote' = Written(w)
    /\ Become(w, [workers[w] EXCEPT !.pc = "finish", !.outcome = "succeeded"])
    /\ UNCHANGED <<local, identity, rows, claims, receipts, crashes>>

\* 409 with code 4068906: the speaker already exists.
AnsweredDuplicate(w) ==
    /\ workers[w].pc = "call"
    /\ ~Unknown(w) /\ Duplicate(w)
    /\ Goto(w, "reconcile")
    /\ UNCHANGED <<local, identity, rows, claims, receipts, remote, crashes>>

\* 400, 401, 403, 404, or the terminal 4090121: not applied, and known so.
Rejected(w) ==
    /\ workers[w].pc = "call"
    /\ Become(w, [workers[w] EXCEPT !.pc = "finish", !.outcome = "failed"])
    /\ UNCHANGED <<local, identity, rows, claims, receipts, remote, crashes>>

\* 5xx or a URLError: the write may have been applied all the same.  The client
\* tries again, and after its last try reports an ordinary AcceleventsError.
ServerError(w) ==
    /\ workers[w].pc = "call"
    /\ remote' \in {remote} \cup (IF Writable(w) THEN {Written(w)} ELSE {})
    /\ Become(w, IF workers[w].tries < Retries
         THEN [workers[w] EXCEPT !.tries = @ + 1]
         ELSE [workers[w] EXCEPT !.pc = "finish", !.outcome = "failed"])
    /\ UNCHANGED <<local, identity, rows, claims, receipts, crashes>>

\* A read timeout, a reset or an unreadable 200 body is no AcceleventsError.
ConnectionBreaks(w) ==
    /\ workers[w].pc = "call"
    /\ remote' \in {remote} \cup (IF Writable(w) THEN {Written(w)} ELSE {})
    /\ Raise(w)
    /\ UNCHANGED <<local, identity, rows, receipts, crashes>>

\* _reconcile_speaker: one GET, which must find exactly one match by email.
Reconcile(w) ==
    /\ workers[w].pc = "reconcile"
    /\ LET matches == {id \in DOMAIN remote[Rec(w)] :
                         EmailOf[remote[Rec(w)][id]] = EmailOf[Row(w).payload]}
       IN \/ /\ \E id \in matches : matches = {id}
             /\ Become(w, [workers[w] EXCEPT !.pc = "finish", !.outcome = "reconciled"])
             /\ UNCHANGED claims
          \/ Raise(w)
    /\ UNCHANGED <<local, identity, rows, receipts, remote, crashes>>

Finish(w) ==
    /\ workers[w].pc = "finish"
    /\ IF Accepts(ItemMachine, Row(w), workers[w].outcome, workers[w].version)
       THEN /\ items' = [items EXCEPT ![workers[w].item] =
                           Applied(@, workers[w].outcome)]
            /\ Become(w, [workers[w] EXCEPT !.pc = "record", !.version = @ + 1])
            /\ UNCHANGED claims
       ELSE /\ Raise(w)
            /\ UNCHANGED items
    /\ UNCHANGED <<local, identity, previews, nRuns, runs, nItems, receipts,
                   remote, crashes>>

\* item.refresh_from_db() has replaced the external id of the answer by the
\* stored one, so that is what both the item and its identity keep.
Record(w) ==
    /\ workers[w].pc = "record"
    /\ identity' = IF Row(w).status \in {"succeeded", "reconciled"}
                   THEN Set(identity, Rec(w),
                          [ ext |-> Row(w).ext, payload |-> Row(w).payload,
                            reconciled |-> Row(w).status = "reconciled" ])
                   ELSE identity
    /\ Goto(w, "readItems")
    /\ UNCHANGED <<local, rows, claims, receipts, remote, crashes>>

-----------------------------------------------------------------------------
(* _refresh_run_status: item statuses are read without a lock, then the    *)
(* run row, then the run is moved under the version just read.             *)

RunOf(w) == IF workers[w].item = 0 THEN workers[w].run ELSE Row(w).run

Statuses(run) == {items[i].status : i \in {j \in ItemIds : items[j].run = run}}

RunTarget_ForgetsPending(run) ==
    IF "failed" \in Statuses(run) THEN "partial" ELSE "succeeded"

RunTarget(run) ==
    IF Statuses(run) \cap {"pending", "running"} # {} THEN "running"
    ELSE IF "failed" \in Statuses(run) THEN "partial"
    ELSE "succeeded"

ReadItems(w) ==
    /\ \/ workers[w].pc = "readItems"
       \/ /\ workers[w].pc = "next"       \* the loop of execute_preview ended
          /\ workers[w].mode = "run"
          /\ workers[w].queue = {}
    /\ Become(w, [workers[w] EXCEPT !.pc = "readRun",
                                    !.target = RunTarget(RunOf(w))])
    /\ UNCHANGED <<local, identity, rows, claims, receipts, remote, crashes>>

\* The refresh returned: to the release of the claim, or out of the view.
AfterRefresh(w) ==
    IF workers[w].item = 0 THEN Idle ELSE [workers[w] EXCEPT !.pc = "release"]

ReadRun(w) ==
    /\ workers[w].pc = "readRun"
    /\ Become(w, IF runs[RunOf(w)].status = workers[w].target THEN AfterRefresh(w)
         ELSE [workers[w] EXCEPT !.pc = "writeRun", !.runVersion = runs[RunOf(w)].version])
    /\ UNCHANGED <<local, identity, rows, claims, receipts, remote, crashes>>

\* The command's key, and the run row the accepted command leaves.
RunKey(w)   == <<workers[w].target, workers[w].runVersion + 1>>
MovedRun(w) == Applied([runs[RunOf(w)] EXCEPT !.keys = @ \cup {RunKey(w)}],
                       workers[w].target)

\* A request that finds its key was forestalled by one with the same command
\* and returns; one that looked the key up too early, or finds that the run
\* moved to another status, or asks for a move the table lacks, raises: below a
\* claim that makes the claim ambiguous although the item is settled.
WriteRun(w) ==
    /\ workers[w].pc = "writeRun"
    /\ LET run == RunOf(w)
           accepted == Accepts(RunMachine, runs[run], workers[w].target,
                               workers[w].runVersion)
       IN  \/ /\ RunKey(w) \in runs[run].keys
              /\ Become(w, AfterRefresh(w))
              /\ UNCHANGED <<runs, claims>>
           \/ /\ accepted
              /\ runs' = [runs EXCEPT ![run] = MovedRun(w)]
              /\ Become(w, AfterRefresh(w))
              /\ UNCHANGED claims
           \/ /\ ~accepted
              /\ IF workers[w].item = 0
                 THEN Become(w, Idle) /\ UNCHANGED claims
                 ELSE Raise(w)
              /\ UNCHANGED runs
    /\ UNCHANGED <<local, identity, previews, nRuns, nItems, items, receipts,
                   remote, crashes>>

-----------------------------------------------------------------------------
(* The end of an item and of a request.                                    *)

Release(w) ==
    /\ workers[w].pc = "release"
    /\ claims' = Drop(claims, Rec(w))
    /\ Become(w, IF workers[w].mode = "recovery" THEN [workers[w] EXCEPT !.pc = "count"]
         ELSE IF workers[w].mode = "retry" THEN Idle
         ELSE AtLoop(w))
    /\ UNCHANGED <<local, identity, rows, receipts, remote, crashes>>

\* Recovery re-reads the status after the claim is gone.
Count(w) ==
    /\ workers[w].pc = "count"
    /\ Become(w, IF Row(w).status \in Settled THEN [AtLoop(w) EXCEPT !.someOk = TRUE]
                                      ELSE [AtLoop(w) EXCEPT !.someBad = TRUE])
    /\ UNCHANGED <<local, identity, rows, claims, receipts, remote, crashes>>

ReceiptStatus_IgnoresFailures(w) ==
    IF workers[w].outcome = "ambiguous" THEN "ambiguous"
    ELSE IF workers[w].someOk THEN "succeeded" ELSE "failed"

ReceiptStatus(w) ==
    IF workers[w].outcome = "ambiguous" THEN "ambiguous"
    ELSE IF workers[w].someBad /\ workers[w].someOk THEN "partial"
    ELSE IF workers[w].someBad THEN "failed"
    ELSE "succeeded"

FinishReceipt(w) ==
    /\ workers[w].mode = "recovery"
    /\ \/ workers[w].pc = "receipt"
       \/ workers[w].pc = "next" /\ workers[w].queue = {}
    /\ receipts' = [c \in DOMAIN receipts |->
         IF c \in workers[w].corr
         THEN [receipts[c] EXCEPT !.status = ReceiptStatus(w)] ELSE receipts[c]]
    /\ Become(w, Idle)
    /\ UNCHANGED <<local, identity, rows, claims, remote, crashes>>

-----------------------------------------------------------------------------
(* SyncWriteClaimResolveView: an organiser verified the outcome by hand.   *)

Resolvable_InProgressToo(r) == r \in DOMAIN claims
Resolvable(r) == r \in DOMAIN claims /\ claims[r].status = "ambiguous"

ResolvedItem_CopiesClaimStatus(i, resolution) ==
    [items[i] EXCEPT !.status = "ambiguous"]
ResolvedItem_LeavesRunning(i, resolution) ==
    IF resolution = "verified_applied" THEN Applied(items[i], "reconciled")
    ELSE items[i]

\* verified_applied reconciles the item; verified_not_applied fails a RUNNING
\* one so that it is offered for retry, and leaves any other as it is.
ResolvedItem(i, resolution) ==
    IF resolution = "verified_applied" THEN Applied(items[i], "reconciled")
    ELSE IF items[i].status = "running" THEN Applied(items[i], "failed")
    ELSE items[i]

Resolve(r) ==
    /\ Resolvable(r)
    /\ LET i == claims[r].item
       IN  \E resolution \in {"verified_applied", "verified_not_applied"} :
            /\ resolution = "verified_applied" =>
                 items[i].status \in {"failed", "running"}
            /\ items' = [items EXCEPT ![i] = ResolvedItem(i, resolution)]
    /\ claims' = Drop(claims, r)
    /\ UNCHANGED <<local, identity, previews, nRuns, runs, nItems, receipts,
                   remote, workers, crashes>>

-----------------------------------------------------------------------------
(* The request's process dies: rows stay, and its claim has no owner left. *)

Crash(w) ==
    /\ workers[w] # Idle
    /\ crashes < MaxCrashes
    /\ crashes' = crashes + 1
    /\ Become(w, Idle)
    /\ claims' = [r \in DOMAIN claims |->
         IF claims[r].owner = w THEN [claims[r] EXCEPT !.owner = NoWorker]
         ELSE claims[r]]
    /\ UNCHANGED <<local, identity, rows, receipts, remote>>

-----------------------------------------------------------------------------

\* A record is unknown to Accelevents, held there without an identity (entered
\* by hand), or linked to an identity that names its remote record (the seed).
Init ==
    /\ local \in [Records -> Payloads]
    /\ \E linked \in SUBSET Records, held \in SUBSET Records :
        /\ linked \subseteq held
        /\ identity = [r \in linked |->
             [ext |-> 1, payload |-> local[r], reconciled |-> FALSE]]
        /\ remote = [r \in Records |-> IF r \in held THEN <<local[r]>> ELSE <<>>]
    /\ previews = {}
    /\ nRuns = 0
    /\ runs = <<>>
    /\ nItems = 0
    /\ items = <<>>
    /\ claims = <<>>
    /\ receipts = <<>>
    /\ workers = [w \in Workers |-> Idle]
    /\ crashes = 0

\* A step of a request that has been accepted.
Step(w) ==
    \/ Claim(w) \/ Blocked(w) \/ Check(w)
    \/ ClientFails(w) \/ Start(w)
    \/ Accepted(w) \/ AnsweredDuplicate(w) \/ Rejected(w)
    \/ ServerError(w) \/ ConnectionBreaks(w) \/ Reconcile(w)
    \/ Finish(w) \/ Record(w)
    \/ ReadItems(w) \/ ReadRun(w) \/ WriteRun(w)
    \/ Release(w) \/ Count(w) \/ FinishReceipt(w)

Next ==
    \/ \E r \in Records : Edit(r) \/ Resolve(r)
    \/ \E S \in SUBSET Records : MakePreview(S)
    \/ \E w \in Workers :
        \/ ExecutePreview(w) \/ Retry(w) \/ ConfirmRecovery(w)
        \/ Step(w)
        \/ Crash(w)

Spec == Init /\ [][Next]_vars

\* The server runs the code of a request it has begun.
FairSpec == Spec /\ \A w \in Workers : WF_vars(Step(w))

-----------------------------------------------------------------------------
(* Properties.                                                             *)

Pcs == {"idle", "next", "blocked", "check", "start", "call", "reconcile",
        "finish", "record", "readItems", "readRun", "writeRun", "release",
        "count", "receipt"}
ItemStatuses == {"pending", "running", "succeeded", "failed", "noop", "reconciled"}
RunStatuses  == {"previewed", "running", "partial", "succeeded", "failed"}
Actions      == {"create", "update", "noop"}

IdentityRow == [ext : Nat, payload : Payloads, reconciled : BOOLEAN]
EntryRow    == [action : Actions, payload : Payloads, ext : Nat]
RunRow      == [status : RunStatuses, version : Nat,
                keys : SUBSET (RunStatuses \X Nat)]
ItemRow     == [rec : Records, run : Nat, action : Actions, payload : Payloads,
                ext : Nat, status : ItemStatuses, version : Nat, attempts : Nat]
ClaimRow    == [item : Nat, status : {"in_progress", "ambiguous"},
                owner : Workers \cup {NoWorker}]
ReceiptRow  == [status : {"pending", "ambiguous", "partial", "failed", "succeeded"},
                targets : SUBSET Nat]
WorkerRow   == [pc : Pcs, mode : {"none", "run", "retry", "recovery"},
                queue : SUBSET Nat, item : Nat, run : Nat,
                corr : SUBSET Correlations, version : Nat,
                target : RunStatuses \cup {"none"}, runVersion : Nat,
                outcome : {"none", "succeeded", "failed", "reconciled", "ambiguous"},
                tries : Nat, someOk : BOOLEAN, someBad : BOOLEAN]

SourcesOK == local \in [Records -> Payloads] /\ remote \in [Records -> Seq(Payloads)]
IdentityOK ==
    /\ DOMAIN identity \subseteq Records
    /\ \A r \in DOMAIN identity : identity[r] \in IdentityRow
PreviewsOK ==
    \A p \in previews :
        /\ p.status \in {"created", "executed"}
        /\ DOMAIN p.entries \subseteq Records
        /\ \A r \in DOMAIN p.entries : p.entries[r] \in EntryRow
RunsOK  == nRuns \in Nat /\ runs \in [RunIds -> RunRow]
ItemsOK ==
    /\ nItems \in Nat /\ items \in [ItemIds -> ItemRow]
    /\ \A i \in ItemIds : items[i].run \in RunIds
ClaimsOK ==
    /\ DOMAIN claims \subseteq Records
    /\ \A r \in DOMAIN claims : claims[r] \in ClaimRow /\ claims[r].item \in ItemIds
ReceiptsOK ==
    /\ DOMAIN receipts \subseteq Correlations
    /\ \A c \in DOMAIN receipts :
         receipts[c] \in ReceiptRow /\ receipts[c].targets \subseteq ItemIds
RequestsOK ==
    /\ workers \in [Workers -> WorkerRow]
    /\ \A w \in Workers : /\ workers[w].queue \subseteq ItemIds
                          /\ workers[w].item \in ItemIds \cup {0}

\* Rows have the fields and values of the models, and the pks that requests,
\* claims and receipts hold are those of existing items.
TypeOK ==
    /\ SourcesOK /\ IdentityOK /\ PreviewsOK /\ RunsOK /\ ItemsOK
    /\ ClaimsOK /\ ReceiptsOK /\ RequestsOK /\ crashes \in Nat

\* The request is between its claim's insertion and its release.
Holding(w) ==
    \/ workers[w].pc \in {"check", "start", "call", "reconcile", "finish",
                          "record", "release"}
    \/ /\ workers[w].pc \in {"readItems", "readRun", "writeRun"}
       /\ workers[w].item # 0

\* A request that may write holds the one active claim of the logical record,
\* still in progress: two requests never work on one record at a time, and
\* nobody resolves a claim under a live request.  (execute_item docstring,
\* "the global event/type/id write invariant".)
WriterHoldsTheClaim ==
    \A w \in Workers : Holding(w) =>
        /\ Rec(w) \in DOMAIN claims
        /\ claims[Rec(w)] = [item |-> workers[w].item, status |-> "in_progress",
                             owner |-> w]

\* From the eligibility check to the last transition no one else moves the
\* item, so the version the request carries is the stored one and none of its
\* commands is refused as outdated.
HeldItemIsFresh ==
    \A w \in Workers :
        workers[w].pc \in {"start", "call", "reconcile", "finish"} =>
            /\ workers[w].version = Row(w).version
            /\ Row(w).status \in (IF workers[w].pc = "start" THEN {"pending", "failed"}
                                  ELSE {"running"})

\* A RUNNING item is always covered by the active claim taken for it, through
\* exceptions, crashes and resolutions: it can be looked at, and never resent
\* by a request that merely finds it.
RunningItemIsGuarded ==
    \A i \in ItemIds : items[i].status = "running" =>
        /\ items[i].rec \in DOMAIN claims
        /\ claims[items[i].rec].item = i

\* Sends of one record follow the order of its items: whoever is sending item
\* i knows that no newer item of the record was ever sent, so an old payload
\* cannot overwrite a newer one.  (sync_state.py, "only when no newer row".)
NoOvertaking ==
    \A w \in Workers : workers[w].pc = "call" =>
        \A j \in ItemIds :
            items[j].rec = Rec(w) /\ items[j].attempts > 0 => j <= workers[w].item

\* A run that says SUCCEEDED has only settled items, although its status is
\* computed from statuses read without a lock and written later.
RunSuccessIsEarned ==
    \A n \in RunIds : runs[n].status = "succeeded" =>
        \A i \in ItemIds : items[i].run = n => items[i].status \in Settled

\* A recovery receipt that says SUCCEEDED names only settled items,
\* although the loop counts an item after its claim is released.
ReceiptTellsTheTruth ==
    \A c \in DOMAIN receipts : receipts[c].status = "succeeded" =>
        \A i \in receipts[c].targets : items[i].status \in Settled

\* The turn of a record, seen through its active claim and the request that
\* owns it.
TurnPhase(r) ==
    IF r \notin DOMAIN claims THEN "free"
    ELSE IF claims[r].status = "ambiguous" THEN "doubtful"
    ELSE IF claims[r].owner = NoWorker THEN "orphaned"
    ELSE CASE workers[claims[r].owner].pc \in {"check", "start"} -> "taken"
           [] workers[claims[r].owner].pc = "call" -> "sending"
           [] OTHER -> "closing"

TurnHolder(r) == IF r \in DOMAIN claims THEN claims[r].item ELSE 0

SentItems(r) == {i \in ItemIds : items[i].rec = r /\ items[i].attempts > 0}
LastSent(r)  == IF SentItems(r) = {} THEN 0
                ELSE CHOOSE i \in SentItems(r) : \A j \in SentItems(r) : j <= i

\* The engine implements the protocol of RecordWriteProtocol for every record.
Turns == INSTANCE RecordWriteProtocol WITH
    Stored   <- Seq(Payloads),
    phase    <- [r \in Records |-> TurnPhase(r)],
    holder   <- [r \in Records |-> TurnHolder(r)],
    lastSent <- [r \in Records |-> LastSent(r)],
    stored   <- remote

ImplementsTurns == Turns!Spec

\* An identity names a record of Accelevents, as PUT updates are keyed by it.
\* (docs/decisions/011-accelevents-sync.md:41.)
IdentityNamesRemoteRecord ==
    \A r \in DOMAIN identity : identity[r].ext \in DOMAIN remote[r]

\* Every claim a request took is released, or handed to the organisers as
\* ambiguous, unless the process of the request dies.
ClaimsDoNotLinger ==
    \A r \in Records :
        (r \in DOMAIN claims /\ claims[r].owner \in Workers)
            ~> (r \notin DOMAIN claims \/ claims[r].owner = NoWorker)
=============================================================================
