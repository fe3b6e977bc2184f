----------------------------- MODULE Publication -----------------------------
(***************************************************************************)
(* From the working schedule to the public: program/policy.py (the release *)
(* gate), program/auto_schedule.py (assisted placement),                   *)
(* program/calendar.py (the calendar feed), public_widgets.py and the      *)
(* Published* views (pages, embeds), the approvals and session edits of    *)
(* content_ops.py, and the posts of AgendaReleaseView.                     *)
(*                                                                         *)
(* A worker serves one request.  A release reads the slots twice and then  *)
(* freezes the schedule; an assisted placement reads slots and saves them  *)
(* later; a calendar request writes identities one by one.  Nothing locks  *)
(* the slots, so other requests' commits land between these steps.         *)
(***************************************************************************)
EXTENDS Naturals, FiniteSets

CONSTANTS
    Sessions,    \* submissions, by primary key
    Length,      \* [Sessions -> Nat \ {0}], the duration of a session
    SpeakersOf,  \* [Sessions -> SUBSET of the speakers]
    Rooms,       \* rooms, by position; 0 is no room
    DayEnd,      \* the day lasts from 1 to DayEnd
    Workers,     \* concurrent requests
    Budgets      \* bounds: how many releases, changes, placements and feeds
                 \* a behaviour may have

ASSUME SessionsAssumption ==
    /\ Sessions \subseteq Nat \ {0} /\ IsFiniteSet(Sessions)
    /\ Length \in [Sessions -> Nat \ {0}]
    /\ DOMAIN SpeakersOf = Sessions
ASSUME PlacesAssumption ==
    Rooms \subseteq Nat \ {0} /\ IsFiniteSet(Rooms) /\ DayEnd \in Nat \ {0}
ASSUME BoundsAssumption ==
    Budgets \subseteq [{"releases", "changes", "placements", "feeds"} -> Nat]

VARIABLES
    state,      \* the submission's state
    title,      \* the submission's title, one of two
    approval,   \* the SessionPublicationApproval row, "none" if there is none
    talks,      \* the slots of every schedule; the last one is the working one
    identity,   \* ScheduleIcsIdentity rows
    workers,
    budget,     \* what is left of the bounds
    late,       \* history: released schedules written since their gate was read
    served,     \* history: what calendar clients got, by session and sequence
    mixed       \* history: sessions that two requests served at once, each as it
                \* had read them

program == <<state, title, approval>>
vars    == <<program, talks, identity, workers, budget, late, served, mixed>>

-----------------------------------------------------------------------------
Unplaced == [room |-> 0, start |-> 0, visible |-> FALSE]
Idle     == [pc |-> "idle"]
Wip      == Cardinality(DOMAIN talks)
Current  == Wip - 1          \* event.current_schedule, none if 0
Cancelled == <<>>
Feedable == {"none", "approved"}
Accepted == {"accepted", "confirmed"}

Placed(slot)     == slot.start # 0
End(s, slot)     == slot.start + Length[s]
SharedSpeaker(a, b) == SpeakersOf[a] \cap SpeakersOf[b] # {}
Overlap(a, x, b, y) == x.start < End(b, y) /\ y.start < End(a, x)

\* Two sessions that cannot both take place.
Clash(slots, a, b) ==
    /\ a # b /\ Placed(slots[a]) /\ Placed(slots[b])
    /\ Overlap(a, slots[a], b, slots[b])
    /\ slots[a].room = slots[b].room \/ SharedSpeaker(a, b)

Become(w, q) == workers' = [workers EXCEPT ![w] = q]
Spend(kind) ==
    budget[kind] > 0 /\ budget' = [budget EXCEPT ![kind] = @ - 1]

\* A write to schedule k after its release read the slots for the last time.
Late(k) ==
    late' = IF k < Wip \/ \E w \in Workers : workers[w].pc = "freeze"
            THEN late \cup {k} ELSE late

-----------------------------------------------------------------------------
(* The release gate.                                                       *)

\* Mutant: the gate reads the slots that are visible already.
Considered_Visible(k) == {s \in Sessions : Placed(talks[k][s]) /\ talks[k][s].visible}

Considered(k) ==
    {s \in Sessions : /\ Placed(talks[k][s])
                      /\ talks[k][s].visible \/ state[s] \in Accepted}

\* order_by("start", "pk")
Before(slots, a, b) ==
    \/ slots[a].start < slots[b].start
    \/ slots[a].start = slots[b].start /\ a < b

\* The sweep leaves the inner loop at the first session that starts after a
\* ended, and skips one that ended before a starts.
Compared(slots, S, a, b) ==
    /\ Before(slots, a, b)
    /\ \A c \in S : Before(slots, a, c) /\ (c = b \/ Before(slots, c, b))
                    => slots[c].start < End(a, slots[a])
    /\ slots[a].start < End(b, slots[b])

Warnings(k) ==
    LET slots == talks[k] IN
    {p \in Considered(k) \X Considered(k) :
        /\ Compared(slots, Considered(k), p[1], p[2])
        /\ slots[p[1]].room = slots[p[2]].room \/ SharedSpeaker(p[1], p[2])}

\* A release, by AgendaReleaseView or by pretalx's own button, of the working
\* schedule that the request loaded.  One release runs at a time.
BeginRelease(w, by) ==
    /\ workers[w] = Idle
    /\ Wip <= budget.releases
    /\ \A v \in Workers : workers[v].pc \notin {"gate", "freeze"}
    /\ Become(w, [pc |-> "gate", by |-> by, schedule |-> Wip])
    /\ UNCHANGED <<program, talks, identity, budget, late, served, mixed>>

\* assert_release_allowed in release_schedule and in the pre_save receiver,
\* which is the last to read.
Gate(w) ==
    /\ workers[w].pc = "gate"
    /\ IF Warnings(workers[w].schedule) = {}
       THEN /\ Become(w, [workers[w] EXCEPT !.pc = "freeze"])
            /\ late' = late \ {workers[w].schedule}
       ELSE /\ Become(w, Idle)
            /\ UNCHANGED late
    /\ UNCHANGED <<program, talks, identity, budget, served, mixed>>

\* pretalx makes placed confirmed sessions visible; SpeakerOps adds the
\* accepted ones that are approved, whether they are placed or not.
Shown(w, s, slot) ==
    \/ state[s] = "confirmed" /\ Placed(slot)
    \/ workers[w].by = "speakerops" /\ state[s] = "accepted" /\ approval[s] = "approved"

\* The freeze and its commit: the schedule is released as it is now, a copy of
\* it is the new working schedule.
Freeze(w) ==
    /\ workers[w].pc = "freeze"
    /\ LET k      == workers[w].schedule
           native == [s \in Sessions |-> [talks[k][s] EXCEPT
                        !.visible = state[s] = "confirmed" /\ Placed(talks[k][s])]]
           public == [s \in Sessions |->
                        [talks[k][s] EXCEPT !.visible = Shown(w, s, talks[k][s])]]
       IN talks' = [j \in 1..(k + 1) |->
                      IF j < k THEN talks[j] ELSE IF j = k THEN public ELSE native]
    /\ Become(w, Idle)
    /\ UNCHANGED <<program, identity, budget, late, served, mixed>>

\* The process dies, or the transaction fails and is rolled back.
Die(w) ==
    /\ workers[w] # Idle
    /\ Become(w, Idle)
    /\ late' = IF workers[w].pc = "freeze" THEN late \ {workers[w].schedule} ELSE late
    /\ UNCHANGED <<program, talks, identity, budget, served, mixed>>

-----------------------------------------------------------------------------
(* Assisted placement.                                                     *)

\* The sessions in the order the solver takes them; NULL starts come last.
Candidates(k) == {s \in Sessions : talks[k][s].visible \/ state[s] \in Accepted}

Earlier(slots, a, b) ==
    IF Placed(slots[a]) /\ Placed(slots[b]) THEN Before(slots, a, b)
    ELSE \/ Placed(slots[a])
         \/ ~Placed(slots[b]) /\ a < b

Nth(k, n) ==
    CHOOSE s \in Candidates(k) :
        Cardinality({t \in Candidates(k) \ {s} : Earlier(talks[k], t, s)}) = n - 1

\* Mutant: rooms are kept apart, speakers are not.
Free_RoomsOnly(s, placed) ==
    {c \in (1..DayEnd) \X Rooms :
        /\ c[1] + Length[s] <= DayEnd + 1
        /\ \A t \in DOMAIN placed :
            ~ /\ c[1] < placed[t][1] + Length[t] /\ placed[t][1] < c[1] + Length[s]
              /\ placed[t][2] = c[2]}

\* The places where a session fits the day and meets no placement so far.
Free(s, placed) ==
    {c \in (1..DayEnd) \X Rooms :
        /\ c[1] + Length[s] <= DayEnd + 1
        /\ \A t \in DOMAIN placed :
            ~ /\ c[1] < placed[t][1] + Length[t] /\ placed[t][1] < c[1] + Length[s]
              /\ placed[t][2] = c[2] \/ SharedSpeaker(s, t)}

\* The earliest start first, then the room's position.
First(places) ==
    CHOOSE c \in places : \A d \in places : c[1] < d[1] \/ (c[1] = d[1] /\ c[2] <= d[2])

\* The placements so far and that of one more session; a session without a
\* place ends it.
Extended(before, s) ==
    IF before.stuck \/ Free(s, before.at) = {}
    THEN [stuck |-> TRUE, at |-> before.at]
    ELSE [stuck |-> FALSE,
          at    |-> [t \in DOMAIN before.at \cup {s} |->
                       IF t = s THEN First(Free(s, before.at)) ELSE before.at[t]]]

Proposal(k) ==
    LET plan[n \in 0..Cardinality(Candidates(k))] ==
            IF n = 0 THEN [stuck |-> FALSE, at |-> <<>>]
            ELSE Extended(plan[n - 1], Nth(k, n))
    IN plan[Cardinality(Candidates(k))]

\* apply_assisted_schedule: the proposal is computed again from the slots that
\* are read now ...
BeginApply(w) ==
    /\ workers[w] = Idle
    /\ Spend("placements")
    /\ Rooms # {} /\ Candidates(Wip) # {}
    /\ Become(w, IF Proposal(Wip).stuck THEN Idle
                 ELSE [pc |-> "apply", schedule |-> Wip, at |-> Proposal(Wip).at])
    /\ UNCHANGED <<program, talks, identity, late, served, mixed>>

\* ... and the slots that change are saved later, wherever their schedule is.
Apply(w) ==
    /\ workers[w].pc = "apply"
    /\ LET k == workers[w].schedule IN
        /\ talks' = [talks EXCEPT ![k] = [s \in Sessions |->
                IF s \in DOMAIN workers[w].at
                THEN [@[s] EXCEPT !.start = workers[w].at[s][1], !.room = workers[w].at[s][2]]
                ELSE @[s]]]
        /\ Late(k)
    /\ Become(w, Idle)
    /\ UNCHANGED <<program, identity, budget, served, mixed>>

-----------------------------------------------------------------------------
(* Changes by organisers.                                                  *)

Change == Spend("changes") /\ UNCHANGED <<workers, identity, served, mixed>>

\* pretalx's schedule editor saves a slot of the working schedule.
Move(s) ==
    /\ Change
    /\ state[s] \in Accepted
    /\ \E t \in 0..DayEnd, r \in Rooms :
        /\ t + Length[s] <= DayEnd + 1
        /\ talks' = [talks EXCEPT ![Wip][s].start = t, ![Wip][s].room = IF t = 0 THEN 0 ELSE r]
    /\ Late(Wip)
    /\ UNCHANGED program

\* pretalx: the speaker confirms.
Confirm(s) ==
    /\ Change
    /\ state[s] = "accepted"
    /\ state' = [state EXCEPT ![s] = "confirmed"]
    /\ UNCHANGED <<title, approval, talks, late>>

\* pretalx: the speaker withdraws, the working schedule loses the slot.
Withdraw(s) ==
    /\ Change
    /\ state[s] \in Accepted
    /\ state' = [state EXCEPT ![s] = "withdrawn"]
    /\ talks' = [talks EXCEPT ![Wip][s] = Unplaced]
    /\ Late(Wip)
    /\ UNCHANGED <<title, approval>>

Approve(s) ==
    /\ Change
    /\ \E status \in {"pending", "approved", "changes_requested"} :
        approval' = [approval EXCEPT ![s] = status]
    /\ UNCHANGED <<state, title, talks, late>>

\* An edit or a restore of session content.
Retitle(s) ==
    /\ Change
    /\ title' = [title EXCEPT ![s] = 1 - @]
    /\ UNCHANGED <<state, approval, talks, late>>

-----------------------------------------------------------------------------
(* Public pages.  Four places of the code select the sessions to show.     *)

\* _public_program: widgets, session and speaker pages.
PublicSlots ==
    {s \in Sessions : talks[Current][s].visible
                      /\ approval[s] \notin {"pending", "changes_requested"}}

\* Mutant: embeds do not ask for the approval.
EmbedSlots_Unapproved == {s \in Sessions : talks[Current][s].visible}

\* PublishedScheduleMixin: embed and gallery.
EmbedSlots == {s \in Sessions : talks[Current][s].visible /\ approval[s] \in Feedable}

Cards(slots) ==
    [p \in UNION {SpeakersOf[s] : s \in slots} |-> {s \in slots : p \in SpeakersOf[s]}]

\* SelectedScheduleIcsView: no page without a session to put on it.
SelectedCalendar(codes) ==
    {s \in codes : talks[Current][s].visible /\ approval[s] \in Feedable}

SessionPage(s) == IF s \in PublicSlots THEN {s} ELSE {}
SpeakerPage(p) == IF p \in DOMAIN Cards(PublicSlots) THEN Cards(PublicSlots)[p] ELSE {}

\* The filters of the sessions widget.
InRoom(slots, r) == {s \in slots : r = 0 \/ talks[Current][s].room = r}

-----------------------------------------------------------------------------
(* The calendar feed, a GET request that writes.                           *)

\* What the fingerprint of a slot covers.
Fingerprint(s) == <<talks[Current][s].start, talks[Current][s].room, title[s]>>

Feeding == {w \in Workers : workers[w].pc \in {"stamp", "raise", "cancel"}}

\* What a request is to tell of a session, by the slots that it read.
Reading(slots, s) == IF s \in DOMAIN slots THEN slots[s] ELSE Cancelled

\* The slots are read; the query is refused without a released schedule.
BeginFeed(w) ==
    /\ workers[w] = Idle
    /\ Current > 0
    /\ Spend("feeds")
    /\ LET live  == {s \in Sessions : talks[Current][s].visible /\ approval[s] \in Feedable}
           slots == [s \in live |-> Fingerprint(s)]
       IN /\ Become(w, [pc |-> "stamp", todo |-> live, row |-> <<>>, slots |-> slots])
          /\ mixed' = mixed \cup {s \in Sessions : \E v \in Feeding :
                Reading(workers[v].slots, s) # Reading(slots, s)}
    /\ UNCHANGED <<program, talks, identity, late, served>>

\* Mutant: only a new identity gets the slot's content.
Stamp_NewOnly(w) ==
    /\ workers[w].pc = "stamp"
    /\ \E s \in workers[w].todo :
        /\ identity' = IF identity[s].uid THEN identity
                       ELSE [identity EXCEPT ![s] =
                               [uid |-> TRUE, seq |-> 0, canceled |-> FALSE,
                                fingerprint |-> workers[w].slots[s]]]
        /\ Become(w, [workers[w] EXCEPT !.todo = @ \ {s}])
    /\ UNCHANGED <<program, talks, budget, late, served, mixed>>

\* get_or_create of the next identity, and the comparison with the slot.
Stamp(w) ==
    /\ workers[w].pc = "stamp"
    /\ \E s \in workers[w].todo :
        IF identity[s].uid
        THEN /\ IF identity[s].fingerprint = workers[w].slots[s]
                THEN Become(w, [workers[w] EXCEPT !.todo = @ \ {s}])
                ELSE Become(w, [workers[w] EXCEPT !.pc = "raise", !.row = <<s, identity[s].seq>>])
             /\ UNCHANGED identity
        ELSE /\ identity' = [identity EXCEPT ![s] =
                    [uid |-> TRUE, seq |-> 0, canceled |-> FALSE,
                     fingerprint |-> workers[w].slots[s]]]
             /\ Become(w, [workers[w] EXCEPT !.todo = @ \ {s}])
    /\ UNCHANGED <<program, talks, budget, late, served, mixed>>

\* The identity as it was read is raised and saved.
Raise(w) ==
    /\ workers[w].pc = "raise"
    /\ LET s == workers[w].row[1] IN
        /\ identity' = [identity EXCEPT ![s].seq = workers[w].row[2] + 1,
                                        ![s].fingerprint = workers[w].slots[s],
                                        ![s].canceled = FALSE]
        /\ Become(w, [workers[w] EXCEPT !.pc = "stamp", !.todo = @ \ {s}])
    /\ UNCHANGED <<program, talks, budget, late, served, mixed>>

\* The identities of sessions that are not shown any more are read at once ...
Leftovers(w) ==
    /\ workers[w].pc = "stamp" /\ workers[w].todo = {}
    /\ Become(w, [workers[w] EXCEPT !.pc = "cancel",
          !.todo = {s \in Sessions : identity[s].uid /\ ~identity[s].canceled}
                     \ DOMAIN workers[w].slots,
          !.row = [s \in Sessions |-> identity[s].seq]])
    /\ UNCHANGED <<program, talks, identity, budget, late, served, mixed>>

\* ... and canceled one by one.
Cancel(w) ==
    /\ workers[w].pc = "cancel"
    /\ \E s \in workers[w].todo :
        /\ identity' = [identity EXCEPT ![s].seq = workers[w].row[s] + 1, ![s].canceled = TRUE]
        /\ Become(w, [workers[w] EXCEPT !.todo = @ \ {s}])
    /\ UNCHANGED <<program, talks, budget, late, served, mixed>>

\* The answer: an event for every slot that was read, with the sequence its
\* identity has now, and a CANCELLED event for every canceled identity.  A slot
\* without a time has no event, and the strict zip raises: such a request dies.
Serve(w) ==
    /\ workers[w].pc = "cancel" /\ workers[w].todo = {}
    /\ \A s \in DOMAIN workers[w].slots : workers[w].slots[s][1] # 0
    /\ served' = served
         \cup {<<s, identity[s].seq, workers[w].slots[s]>> : s \in DOMAIN workers[w].slots}
         \cup {<<s, identity[s].seq, Cancelled>> :
                  s \in {t \in Sessions : identity[t].uid /\ identity[t].canceled}}
    /\ Become(w, Idle)
    /\ UNCHANGED <<program, talks, identity, budget, late, mixed>>

-----------------------------------------------------------------------------
Init ==
    /\ state    = [s \in Sessions |-> "accepted"]
    /\ title    = [s \in Sessions |-> 0]
    /\ approval \in [Sessions -> {"none", "approved"}]
    /\ talks    = <<[s \in Sessions |-> Unplaced]>>
    /\ identity = [s \in Sessions |->
                     [uid |-> FALSE, seq |-> 0, canceled |-> FALSE, fingerprint |-> <<>>]]
    /\ workers  = [w \in Workers |-> Idle]
    /\ budget   \in Budgets
    /\ late = {} /\ served = {} /\ mixed = {}

Next ==
    \/ \E w \in Workers :
        \/ \E by \in {"speakerops", "pretalx"} : BeginRelease(w, by)
        \/ Gate(w) \/ Freeze(w) \/ Die(w)
        \/ BeginApply(w) \/ Apply(w)
        \/ BeginFeed(w) \/ Stamp(w) \/ Raise(w) \/ Leftovers(w) \/ Cancel(w) \/ Serve(w)
    \/ \E s \in Sessions :
        Move(s) \/ Confirm(s) \/ Withdraw(s) \/ Approve(s) \/ Retitle(s)

Spec == Init /\ [][Next]_vars

\* The public schedule is free of conflicts - no room holds two visible
\* sessions at a time, no speaker is due in two - unless a write landed in it
\* after its release had read the slots for the last time.
PublishedIsClear ==
    \A k \in 1..Current : k \notin late =>
        \A a, b \in Sessions :
            talks[k][a].visible /\ talks[k][b].visible => ~Clash(talks[k], a, b)

\* An assisted placement that is applied places every session of the schedule
\* within the day and puts no two in each other's way.
ProposalIsClear ==
    \A w \in Workers : workers[w].pc = "apply" =>
        LET at    == workers[w].at
            slots == [s \in DOMAIN at |-> [start |-> at[s][1], room |-> at[s][2]]]
        IN \A a \in DOMAIN at :
            /\ at[a][1] + Length[a] - 1 <= DayEnd
            /\ \A b \in DOMAIN at : ~Clash(slots, a, b)

\* Widgets, detail pages, embeds, galleries and personal calendars show the same
\* sessions, whichever page a visitor comes from.
SurfacesAgree ==
    Current > 0 =>
        /\ EmbedSlots = UNION {SessionPage(s) : s \in Sessions}
        /\ EmbedSlots = SelectedCalendar(Sessions)
        /\ \A s \in EmbedSlots : \A p \in SpeakersOf[s] : s \in SpeakerPage(p)
        /\ \A p \in DOMAIN Cards(EmbedSlots) : SpeakerPage(p) = Cards(EmbedSlots)[p]
        /\ PublicSlots = UNION {InRoom(PublicSlots, r) : r \in Rooms \cup {0}}

\* Two live events with one UID and one sequence have the same time, room and
\* title: a calendar client that keeps the first misses nothing - unless two
\* overlapping requests had read the session before and after a change, be it
\* of its content or of whether it is shown.
OneContentPerSequence ==
    \A x, y \in served :
        x[1] = y[1] /\ x[1] \notin mixed /\ x[2] = y[2] /\ Cancelled \notin {x[3], y[3]} => x[3] = y[3]
=============================================================================
