------------------------------ MODULE Contacts ------------------------------
(***************************************************************************)
(* The organiser's contacts, merged into one another, with their pipeline  *)
(* cards, stage history, outreach, segments and event links (crm.py).      *)
(*                                                                         *)
(* A request loads the rows it works on when it begins and saves whole     *)
(* rows when it commits.  No row is locked, so a request can save a        *)
(* contact that was merged away since.                                     *)
(***************************************************************************)
EXTENDS Naturals, Sequences, FiniteSets

CONSTANTS
    Known, MaxContacts,    \* contacts at the start, and altogether
    Facts,                 \* fields and tags that a contact may have filled in
    Stages, Events, Segments,
    Workers, MaxRequests, MaxCrashes

ContactsAssumption ==
    /\ Known \in Nat /\ MaxContacts \in Nat /\ Known <= MaxContacts
    /\ "email" \in Facts /\ "prospect" \in Stages
    /\ MaxRequests \in Nat /\ MaxCrashes \in Nat

VARIABLES
    contacts,     \* CRMContact rows: what is filled in, whom it was merged into
    cards,        \* CRMPipelineCard rows: a stage by contact
    history,      \* CRMPipelineHistory rows: the contact of the card, the stages
    outreach,     \* CRMOutreachLog rows: the contact
    links,        \* CRMEventLink rows: <<contact, event>>
    segments,     \* CRMSegment.contacts by segment
    workers, requests, crashes,
    unlisted      \* history: contacts whose creation stopped before the card, or
                  \* that a save brought back after a merge deleted their card

about == <<cards, history, outreach, links, segments>>
vars  == <<contacts, about, workers, requests, crashes, unlisted>>

-----------------------------------------------------------------------------
Idle   == [pc |-> "idle"]
Nobody == 0
None   == "-"
Ids    == DOMAIN contacts
Active == {c \in Ids : contacts[c].into = Nobody}              \* _owned_contact
New(facts) == [facts |-> facts, into |-> Nobody]
Lowest(S)  == CHOOSE c \in S : \A d \in S : c <= d
WithCard(c, stage) == [d \in DOMAIN cards \cup {c} |-> IF d = c THEN stage ELSE cards[d]]
StageOf(c) == IF c \in DOMAIN cards THEN cards[c] ELSE "prospect"

Become(w, q) == workers' = [workers EXCEPT ![w] = q]
Begin(w, q) ==
    /\ workers[w] = Idle /\ requests < MaxRequests
    /\ requests' = requests + 1
    /\ Become(w, q)
    /\ UNCHANGED <<contacts, crashes, unlisted>>
Step(w, pc, q) ==
    /\ workers[w].pc = pc
    /\ Become(w, q)
    /\ UNCHANGED <<requests, crashes>>

-----------------------------------------------------------------------------
\* save_contact with an id saves all of the row it loaded, the merge included.
BeginSave(w, c, facts) ==
    /\ c \in Active
    /\ Begin(w, [pc |-> "save", contact |-> c, facts |-> facts])
    /\ UNCHANGED about

CommitSave(w) ==
    /\ Step(w, "save", Idle)
    /\ LET c == workers[w].contact IN
       /\ contacts' = [contacts EXCEPT ![c] = New(workers[w].facts)]
       /\ unlisted' = IF c \in Active THEN unlisted ELSE unlisted \cup {c}
    /\ UNCHANGED about

\* save_contact without one: the contact, and then its card.
CreateContact(w, facts) ==
    /\ Len(contacts) < MaxContacts
    /\ workers[w] = Idle /\ requests < MaxRequests
    /\ requests' = requests + 1
    /\ contacts' = Append(contacts, New(facts))
    /\ Become(w, [pc |-> "card", contact |-> Len(contacts) + 1])
    /\ UNCHANGED <<about, crashes, unlisted>>

CreateCard(w) ==
    /\ Step(w, "card", Idle)
    /\ cards' = WithCard(workers[w].contact, StageOf(workers[w].contact))
    /\ UNCHANGED <<contacts, history, outreach, links, segments, unlisted>>

\* A row of import_csv: the first contact with the address gets what the row has
\* filled in; without one there is a new contact with its card.
BeginImport(w, facts) ==
    /\ LET found == {c \in Active : "email" \in facts \cap contacts[c].facts} IN
       IF found # {}
       THEN Begin(w, [pc |-> "save", contact |-> Lowest(found),
                      facts |-> contacts[Lowest(found)].facts \cup facts])
       ELSE Begin(w, [pc |-> "import", facts |-> facts])
    /\ UNCHANGED about

CommitImport(w) ==
    /\ Len(contacts) < MaxContacts
    /\ Step(w, "import", Idle)
    /\ contacts' = Append(contacts, New(workers[w].facts))
    /\ cards' = WithCard(Len(contacts) + 1, "prospect")
    /\ UNCHANGED <<history, outreach, links, segments, unlisted>>

\* merge: both contacts are loaded before the transaction.
BeginMerge(w, p, d) ==
    /\ {p, d} \subseteq Active /\ p # d
    /\ Begin(w, [pc |-> "merge", primary |-> p, duplicate |-> d,
                 facts |-> contacts[p].facts \cup contacts[d].facts])
    /\ UNCHANGED about

\* Mutant: the primary contact's filled-in fields are saved, and only those.
Merged_FieldsOnly(p, d, facts) ==
    [contacts EXCEPT ![p].facts = facts, ![d].into = p]

\* All of the primary contact's row is saved, of the duplicate's merged_into.
Merged(p, d, facts) ==
    [contacts EXCEPT ![p] = New(facts), ![d].into = p]

CommitMerge(w) ==
    /\ Step(w, "merge", Idle)
    /\ LET p == workers[w].primary
           d == workers[w].duplicate
           To(c) == IF c = d THEN p ELSE c
       IN /\ contacts' = Merged(p, d, workers[w].facts)
          /\ segments' = [g \in Segments |->
                 IF d \in segments[g] THEN segments[g] \cup {p} ELSE segments[g]]
          /\ outreach' = [i \in DOMAIN outreach |-> To(outreach[i])]
          /\ links' = links \cup {<<p, l[2]>> : l \in {k \in links : k[1] = d}}
          /\ history' = [i \in DOMAIN history |->
                 [history[i] EXCEPT !.contact = To(@)]]
          /\ cards' = [c \in (DOMAIN cards \cup {p}) \ {d} |-> StageOf(c)]
    /\ UNCHANGED unlisted

SaveSegment(g, S) ==
    /\ S \subseteq Active /\ requests < MaxRequests
    /\ requests' = requests + 1
    /\ segments' = [segments EXCEPT ![g] = S]
    /\ UNCHANGED <<contacts, cards, history, outreach, links, workers, crashes, unlisted>>

\* move_stage: the card is fetched or made, saved, and the move is noted.  A card
\* that a merge deleted meanwhile comes back with its contact.
BeginMove(w, c, stage) ==
    /\ c \in Active
    /\ Begin(w, [pc |-> "move", contact |-> c, from |-> StageOf(c), to |-> stage])
    /\ cards' = WithCard(c, StageOf(c))
    /\ UNCHANGED <<history, outreach, links, segments>>

SaveCard(w) ==
    /\ Step(w, "move", [workers[w] EXCEPT !.pc = "note"])
    /\ cards' = WithCard(workers[w].contact, workers[w].to)
    /\ UNCHANGED <<contacts, history, outreach, links, segments, unlisted>>

NoteMove(w) ==
    /\ Step(w, "note", Idle)
    /\ LET q == workers[w] IN
       history' = IF q.contact \in DOMAIN cards
                  THEN Append(history, [contact |-> q.contact, from |-> q.from, to |-> q.to])
                  ELSE history
    /\ UNCHANGED <<contacts, cards, outreach, links, segments, unlisted>>

\* add_to_event needs an address.
BeginLink(w, c, e) ==
    /\ c \in Active /\ "email" \in contacts[c].facts
    /\ Begin(w, [pc |-> "link", contact |-> c, event |-> e])
    /\ UNCHANGED about

CommitLink(w) ==
    /\ Step(w, "link", Idle)
    /\ links' = links \cup {<<workers[w].contact, workers[w].event>>}
    /\ UNCHANGED <<contacts, cards, history, outreach, segments, unlisted>>

\* log_outreach
BeginOutreach(w, c) ==
    /\ c \in Active
    /\ Begin(w, [pc |-> "outreach", contact |-> c])
    /\ UNCHANGED about

CommitOutreach(w) ==
    /\ Step(w, "outreach", Idle)
    /\ outreach' = Append(outreach, workers[w].contact)
    /\ UNCHANGED <<contacts, cards, history, links, segments, unlisted>>

Crash(w) ==
    /\ crashes < MaxCrashes /\ workers[w] # Idle
    /\ crashes' = crashes + 1
    /\ unlisted' = IF workers[w].pc = "card" THEN unlisted \cup {workers[w].contact} ELSE unlisted
    /\ Become(w, Idle)
    /\ UNCHANGED <<contacts, about, requests>>

\* get_context_data: the contacts of a pipeline column.
Column(stage) == {c \in Active : c \in DOMAIN cards /\ cards[c] = stage}

-----------------------------------------------------------------------------
Init ==
    /\ contacts = [c \in 1..Known |-> New({"email"})]
    /\ cards = [c \in 1..Known |-> "prospect"]
    /\ history = <<>> /\ outreach = <<>>
    /\ links = {}
    /\ segments = [g \in Segments |-> {}]
    /\ workers = [w \in Workers |-> Idle]
    /\ requests = 0 /\ crashes = 0
    /\ unlisted = {}

Next ==
    \/ \E w \in Workers :
        \/ \E facts \in SUBSET Facts :
            \/ \E c \in Ids : BeginSave(w, c, facts)
            \/ CreateContact(w, facts) \/ BeginImport(w, facts)
        \/ \E c \in Ids :
            \/ \E d \in Ids : BeginMerge(w, c, d)
            \/ \E stage \in Stages : BeginMove(w, c, stage)
            \/ \E e \in Events : BeginLink(w, c, e)
            \/ BeginOutreach(w, c)
        \/ CommitSave(w) \/ CreateCard(w) \/ CommitImport(w) \/ CommitMerge(w)
        \/ SaveCard(w) \/ NoteMove(w) \/ CommitLink(w) \/ CommitOutreach(w) \/ Crash(w)
    \/ \E g \in Segments, S \in SUBSET Ids : SaveSegment(g, S)

Spec == Init /\ [][Next]_vars

-----------------------------------------------------------------------------
\* Whatever merges cross, every contact leads through merged_into to a contact the
\* pages still show: no group of contacts is merged within itself.  The full save
\* of the primary contact, which undoes a merge it did not see, is what ensures it.
\* And who is shown stands in a column of the pipeline, unless its card was lost
\* with a request that stopped or a merge that a save undid.
NobodyDisappears ==
    /\ \A S \in (SUBSET Ids) \ {{}} : \E c \in S : contacts[c].into \notin S
    /\ \A c \in Active \ unlisted :
          \/ \E stage \in Stages : c \in Column(stage)
          \/ \E w \in Workers : workers[w].pc = "card" /\ workers[w].contact = c
=============================================================================
