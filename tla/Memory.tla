------------------------------- MODULE Memory -------------------------------
(***************************************************************************)
(* Conference memory (conference_memory.py, history_curation.py): feeds of *)
(* past editions name speakers by a source identity of their own, and      *)
(* operators decide which person an identity is.  A later import must keep *)
(* what was decided.                                                       *)
(*                                                                         *)
(* An import reads an identity, then waits for its row if a decision holds *)
(* it, then goes on with the person it had read.                           *)
(***************************************************************************)
EXTENDS Naturals, Sequences, FiniteSets

CONSTANTS
    Talks, EditionOf(_),   \* talks that the feeds know, and their editions
    Keyed,                 \* editions whose feed gives speakers a key of its own
    Keys, Splits,          \* canonical speaker keys: from feeds, and from operators
    Group,                 \* the members of the bundled identity decision, in order
    GroupKey,              \* and the speaker that they are
    Workers, MaxRequests

Editions == {EditionOf(t) : t \in Talks}
Ids      == (Editions \X Keys) \cup (Talks \X Nat)

MemoryAssumption ==
    /\ Keys \cap Splits = {} /\ GroupKey \in Keys
    /\ Group \in Seq(Ids)
    /\ MaxRequests \in Nat

VARIABLES
    memory,       \* the rows: identities, credits, speakers of talks, decisions
    workers, requests,
    crossed       \* history: identities decided while an import that had read
                  \* them was under way

vars == <<memory, workers, requests, crossed>>

-----------------------------------------------------------------------------
Idle == [pc |-> "idle"]
TalksOf(e) == {t \in Talks : EditionOf(t) = e}

\* source_identity_key: the feed's key within the edition, or the place on the bill.
Identity(t, i, key) == IF EditionOf(t) \in Keyed THEN <<EditionOf(t), key>> ELSE <<t, i>>

\* A document: for talks of one edition, their speakers in order.
Bills == {<<>>} \cup {<<k>> : k \in Keys} \cup {p \in Keys \X Keys : p[1] # p[2]}
Documents(e) == UNION {[S -> Bills] : S \in SUBSET TalksOf(e)}
Entries(doc) == UNION {{<<t, i>> : i \in DOMAIN doc[t]} : t \in DOMAIN doc}
Named(doc)   == {Identity(x[1], x[2], doc[x[1]][x[2]]) : x \in Entries(doc)}
KeyOf(doc, d) ==
    LET x == CHOOSE x \in Entries(doc) : Identity(x[1], x[2], doc[x[1]][x[2]]) = d
    IN doc[x[1]][x[2]]

EditionOfIdentity(d) == IF d[1] \in Talks THEN EditionOf(d[1]) ELSE d[1]
ActiveOf(m, s) == {d \in DOMAIN m.identities :
                       m.identities[d].active /\ m.identities[d].speaker = s}

-----------------------------------------------------------------------------
(* import_document                                                         *)

\* An identity that appears under another name refuses the document.
Acceptable(m, doc) ==
    \A d \in Named(doc) \cap DOMAIN m.identities : m.identities[d].name = KeyOf(doc, d)

\* A new identity of a speaker known from other editions is not taken for them
\* without a doubt, and makes those that nobody verified doubtful.
Elsewhere(m, e, s) == {d \in ActiveOf(m, s) : EditionOfIdentity(d) # e}
NewIdentity(m, e, key) ==
    [speaker |-> key, name |-> key, active |-> TRUE,
     status |-> IF Elsewhere(m, e, key) = {} THEN "isolated" ELSE "legacy_unverified"]

\* Mutant: an identity in the feed is given back the feed's speaker.
Identities_FeedWins(m, e, doc) ==
    LET new == Named(doc) \ DOMAIN m.identities
        doubtful == {d \in DOMAIN m.identities : \E n \in new :
                        /\ Elsewhere(m, e, KeyOf(doc, n)) # {}
                        /\ d \in ActiveOf(m, KeyOf(doc, n))}
    IN [d \in DOMAIN m.identities \cup new |->
           IF d \in new THEN NewIdentity(m, e, KeyOf(doc, d))
           ELSE [m.identities[d] EXCEPT
                    !.active = @ \/ d \in Named(doc),
                    !.speaker = IF d \in Named(doc) THEN KeyOf(doc, d) ELSE @,
                    !.status = IF d \in doubtful /\ @ # "verified"
                               THEN "legacy_unverified" ELSE @]]

Identities(m, e, doc) ==
    LET new == Named(doc) \ DOMAIN m.identities
        doubtful == {d \in DOMAIN m.identities : \E n \in new :
                        /\ Elsewhere(m, e, KeyOf(doc, n)) # {}
                        /\ d \in ActiveOf(m, KeyOf(doc, n))}
    IN [d \in DOMAIN m.identities \cup new |->
           IF d \in new THEN NewIdentity(m, e, KeyOf(doc, d))
           ELSE [m.identities[d] EXCEPT
                    !.active = @ \/ d \in Named(doc),
                    !.status = IF d \in doubtful /\ @ # "verified"
                               THEN "legacy_unverified" ELSE @]]

\* A talk has one credit for a speaker: of two identities of one person, the later
\* one gets it.  who is the person each identity was when the import read it.
Credits(m, doc, who) ==
    LET at(t, i) == Identity(t, i, doc[t][i])
        new == {[talk |-> x[1], identity |-> at(x[1], x[2]), speaker |-> who[at(x[1], x[2])]] :
                    x \in {y \in Entries(doc) :
                        \A j \in DOMAIN doc[y[1]] :
                            j > y[2] => who[at(y[1], j)] # who[at(y[1], y[2])]}}
        kept == {c \in m.credits :
                    \/ c.talk \notin DOMAIN doc
                    \/ /\ \E i \in DOMAIN doc[c.talk] : at(c.talk, i) = c.identity
                       /\ \A i \in DOMAIN doc[c.talk] : who[at(c.talk, i)] # c.speaker}
    IN new \cup kept

Imported(m, e, doc, who) ==
    [m EXCEPT !.identities = Identities(m, e, doc),
              !.credits = Credits(m, doc, who),
              !.speakers = [t \in DOMAIN m.speakers \cup DOMAIN doc |->
                  IF t \in DOMAIN doc
                  THEN {who[Identity(t, i, doc[t][i])] : i \in DOMAIN doc[t]}
                  ELSE m.speakers[t]]]

\* Talks of the edition that are not in the document go, with their credits, and
\* identities that have no credit any more retire.
Pruned(m, e, doc) ==
    LET gone == TalksOf(e) \ DOMAIN doc
        left == {c \in m.credits : c.talk \notin gone}
    IN [m EXCEPT !.credits = left,
                 !.speakers = [t \in DOMAIN m.speakers \ gone |-> m.speakers[t]],
                 !.identities = [d \in DOMAIN m.identities |->
                     IF EditionOfIdentity(d) = e /\ ~\E c \in left : c.identity = d
                     THEN [m.identities[d] EXCEPT !.active = FALSE] ELSE m.identities[d]]]

-----------------------------------------------------------------------------
(* resolve_source_identity                                                 *)

Resolvable(m, d, s, action) ==
    /\ \A c \in m.credits : c.identity = d =>
           ~\E o \in m.credits : o.talk = c.talk /\ o.speaker = s /\ o.identity # d
    /\ action \in {"link", "relink"} => ActiveOf(m, s) \ {d} # {}

\* One other identity of the person vouches for the decision, and is verified too.
Resolved(m, d, s, action) ==
    LET others == ActiveOf(m, s) \ {d}
        anchor == IF others = {} THEN {} ELSE {CHOOSE a \in others : TRUE}
        credits == {IF c.identity = d THEN [c EXCEPT !.speaker = s] ELSE c : c \in m.credits}
        touched == {c.talk : c \in {c \in m.credits : c.identity = d}}
    IN [identities |-> [x \in DOMAIN m.identities |->
            IF x = d THEN [m.identities[x] EXCEPT !.speaker = s, !.status = "verified"]
            ELSE IF x \in anchor THEN [m.identities[x] EXCEPT !.status = "verified"]
            ELSE m.identities[x]],
        credits |-> credits,
        speakers |-> [t \in DOMAIN m.speakers |->
            IF t \in touched THEN {c.speaker : c \in {c \in credits : c.talk = t}}
            ELSE m.speakers[t]],
        decisions |-> Append(m.decisions,
            [identity |-> d, prior |-> m.identities[d].speaker, resolved |-> s])]

\* apply_identity_decisions: every member is known as the speaker and each decision
\* can be made in its turn, or nothing goes.
Linked(m, d) == IF m.identities[d].status = "verified" THEN m
                ELSE Resolved(m, d, GroupKey, "link")
Curation(m) ==
    LET after[i \in 0..Len(Group)] == IF i = 0 THEN m ELSE Linked(after[i - 1], Group[i])
    IN after
Curatable(m) ==
    /\ \A i \in DOMAIN Group : Group[i] \in ActiveOf(m, GroupKey)
    /\ \A i \in DOMAIN Group :
         LET n == Curation(m)[i - 1] IN
         n.identities[Group[i]].status = "verified" \/ Resolvable(n, Group[i], GroupKey, "link")
Curated(m) == Curation(m)[Len(Group)]

-----------------------------------------------------------------------------
Become(w, q) == workers' = [workers EXCEPT ![w] = q]

\* The speakerops_import_history command: the persons of the identities are read ...
BeginImport(w, e, doc, prune, curated) ==
    /\ workers[w] = Idle /\ requests < MaxRequests
    /\ requests' = requests + 1
    /\ Become(w, [pc |-> "import", edition |-> e, doc |-> doc, prune |-> prune,
                  curated |-> curated, known |-> DOMAIN memory.identities,
                  who |-> [d \in Named(doc) |-> IF d \in DOMAIN memory.identities
                           THEN memory.identities[d].speaker ELSE KeyOf(doc, d)]])
    /\ UNCHANGED <<memory, crossed>>

\* ... and all is written in one transaction, or nothing.
CommitImport(w) ==
    LET q == workers[w]
        m == IF q.prune THEN Pruned(Imported(memory, q.edition, q.doc, q.who), q.edition, q.doc)
             ELSE Imported(memory, q.edition, q.doc, q.who)
    IN /\ q.pc = "import"
       /\ Become(w, Idle)
       /\ memory' = IF \/ ~Acceptable(memory, q.doc)
                       \/ ~(Named(q.doc) \cap DOMAIN memory.identities \subseteq q.known)
                       \/ q.curated /\ ~Curatable(m)
                    THEN memory
                    ELSE IF q.curated THEN Curated(m) ELSE m
       /\ UNCHANGED <<requests, crossed>>

\* An operator's decision on the page of a speaker.
Resolve(d, s, action) ==
    /\ requests < MaxRequests
    /\ d \in DOMAIN memory.identities /\ memory.identities[d].active
    /\ \/ action = "split" /\ s \in Splits
          /\ \A i \in DOMAIN memory.decisions : memory.decisions[i].resolved # s
       \/ action \in {"link", "relink"}
    /\ Resolvable(memory, d, s, action)
    /\ memory' = Resolved(memory, d, s, action)
    /\ crossed' = IF \E w \in Workers : workers[w].pc = "import" /\ d \in Named(workers[w].doc)
                  THEN crossed \cup {d} ELSE crossed
    /\ requests' = requests + 1
    /\ UNCHANGED workers

\* memory_decision_support, identity_summary: people verified in several editions.
Returning ==
    {s \in Keys \cup Splits :
        Cardinality({EditionOfIdentity(d) : d \in
            {a \in ActiveOf(memory, s) : memory.identities[a].status = "verified"}}) >= 2}

-----------------------------------------------------------------------------
Init ==
    /\ memory = [identities |-> <<>>, credits |-> {}, speakers |-> <<>>, decisions |-> <<>>]
    /\ workers = [w \in Workers |-> Idle]
    /\ requests = 0
    /\ crossed = {}

Next ==
    \/ \E w \in Workers :
        \/ \E e \in Editions, prune, curated \in BOOLEAN : \E doc \in Documents(e) :
               BeginImport(w, e, doc, prune, curated)
        \/ CommitImport(w)
    \/ \E d \in DOMAIN memory.identities, s \in Keys \cup Splits,
          action \in {"link", "relink", "split"} : Resolve(d, s, action)

Spec == Init /\ [][Next]_vars

-----------------------------------------------------------------------------
\* A talk shows the persons its credits name, and a credit names the person that its
\* identity was last decided to be - unless a decision came while an import that
\* had read the identity was under way.  And nobody is shown as a returning speaker
\* on the word of the feeds alone.
DecisionsStand ==
    /\ \A d \in DOMAIN memory.identities \ crossed :
        /\ \A c \in memory.credits :
             c.identity = d => c.speaker = memory.identities[d].speaker
        /\ LET about == {i \in DOMAIN memory.decisions : memory.decisions[i].identity = d}
               last  == CHOOSE i \in about : \A j \in about : j <= i
           IN about # {} => memory.identities[d].speaker = memory.decisions[last].resolved
    /\ \A t \in DOMAIN memory.speakers :
         LET named == {c \in memory.credits : c.talk = t}
         IN {c.identity : c \in named} \cap crossed = {} =>
               memory.speakers[t] = {c.speaker : c \in named}
    /\ \A s \in Returning : \E i \in DOMAIN memory.decisions : memory.decisions[i].resolved = s
=============================================================================
