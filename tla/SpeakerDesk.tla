----------------------------- MODULE SpeakerDesk -----------------------------
(***************************************************************************)
(* The speakers of an event as the organisers' desk, the import, the       *)
(* speaker's own portal page and the content pages write them              *)
(* (speaker_operations.py, speaker_profile.py, content_ops.py).            *)
(*                                                                         *)
(* The writers share three rows of a speaker and lock different ones: the  *)
(* content pages lock the biography, nobody locks the account with the     *)
(* headshot, and the desk locks nothing and saves whole rows.              *)
(***************************************************************************)
EXTENDS Naturals, Sequences, SequencesExt

CONSTANTS
    Speakers, Session,          \* accounts, and one session of the event
    Texts, Images,              \* biographies and abstracts; headshots by file name
    Statuses, Links,            \* the desk's workflow statuses, professional links
    Workers, MaxRequests, MaxCrashes

SpeakerDeskAssumption ==
    /\ Session \notin Speakers
    /\ "invited" \in Statuses
    /\ {"", "-"} \cap (Texts \cup Images) = {}    \* nothing filled in, no row
    /\ MaxRequests \in Nat /\ MaxCrashes \in Nat

VARIABLES
    text,         \* SpeakerProfile.biography by speaker, the content of the session
    desk,         \* SpeakerOperationsProfile by speaker
    avatar,       \* User.avatar, the file name of the headshot
    onStage,      \* speakers with a session in the event
    tasks,        \* <<slug, speaker>>: OnboardingTask rows made by hand
    slugs,        \* TaskDefinition slugs of one name, by suffix
    revisions,    \* ContentRevision rows, oldest first
    log,          \* SpeakerCommunicationLog rows, oldest first
    outbox,       \* log rows whose mail pretalx took
    workers, requests, crashes

people == <<text, desk, avatar, onStage>>
work   == <<tasks, slugs>>
mail   == <<log, outbox>>
vars   == <<people, work, revisions, mail, workers, requests, crashes>>

-----------------------------------------------------------------------------
Idle   == [pc |-> "idle"]
Absent == "-"                     \* no row
NoDesk == [status |-> Absent, social |-> "", headshot |-> ""]
NewDesk == [status |-> "invited", social |-> "", headshot |-> ""]
Got(row, new)  == IF row = Absent THEN new ELSE row          \* get_or_create
GotDesk(row)   == IF row = NoDesk THEN NewDesk ELSE row

\* _event_speakers
Allowed(s) == text[s] # Absent \/ s \in onStage
FreeSlug   == CHOOSE n \in 1..MaxRequests + 1 : n \notin slugs /\ \A k \in 1..n - 1 : k \in slugs

Become(w, q) == workers' = [workers EXCEPT ![w] = q]
Begin(w, q) ==
    /\ workers[w] = Idle /\ requests < MaxRequests
    /\ requests' = requests + 1
    /\ Become(w, q)
Step(w, pc, q) ==
    /\ workers[w].pc = pc
    /\ Become(w, q)
    /\ UNCHANGED <<requests, crashes>>

-----------------------------------------------------------------------------
(* The desk.                                                               *)

\* create_speaker looks for the speaker, then writes in a transaction, which
\* the unique row of the desk ends if somebody was quicker.
BeginCreate(w, s, t) ==
    /\ ~Allowed(s)
    /\ Begin(w, [pc |-> "create", speaker |-> s, text |-> t])
    /\ UNCHANGED <<people, work, revisions, mail, crashes>>

CommitCreate(w) ==
    /\ Step(w, "create", Idle)
    /\ LET s == workers[w].speaker IN
       IF desk[s] # NoDesk
       THEN UNCHANGED people
       ELSE /\ text' = [text EXCEPT ![s] = workers[w].text]
            /\ desk' = [desk EXCEPT ![s] = NewDesk]
            /\ UNCHANGED <<avatar, onStage>>
    /\ UNCHANGED <<work, revisions, mail>>

\* update_speaker loads the row of the desk, then saves the biography, then all
\* of that row; nothing is locked and no transaction joins the two.
BeginUpdate(w, s, t, status, link) ==
    /\ Allowed(s)
    /\ Begin(w, [pc |-> "update", speaker |-> s, text |-> t,
                 row |-> [GotDesk(desk[s]) EXCEPT !.status = status, !.social = link]])
    /\ desk' = [desk EXCEPT ![s] = GotDesk(@)]
    /\ UNCHANGED <<text, avatar, onStage, work, revisions, mail, crashes>>

SaveBiography(w) ==
    /\ Step(w, "update", [workers[w] EXCEPT !.pc = "update_row"])
    /\ text' = [text EXCEPT ![workers[w].speaker] = workers[w].text]
    /\ UNCHANGED <<desk, avatar, onStage, work, revisions, mail>>

SaveRow(w) ==
    /\ Step(w, "update_row", Idle)
    /\ LET s == workers[w].speaker
           row == workers[w].row
       IN desk' = [desk EXCEPT ![s] = row]
    /\ UNCHANGED <<text, avatar, onStage, work, revisions, mail>>

\* remove_speaker counts assignments and tasks, then deletes both rows.
BeginRemove(w, s) ==
    /\ text[s] # Absent /\ s \notin onStage
    /\ \A t \in tasks : t[2] # s
    /\ Begin(w, [pc |-> "remove", speaker |-> s])
    /\ UNCHANGED <<people, work, revisions, mail, crashes>>

CommitRemove(w) ==
    /\ Step(w, "remove", Idle)
    /\ desk' = [desk EXCEPT ![workers[w].speaker] = NoDesk]
    /\ text' = [text EXCEPT ![workers[w].speaker] = Absent]
    /\ UNCHANGED <<avatar, onStage, work, revisions, mail>>

\* One row of a confirmed import; update_or_create writes the columns that have
\* a value and locks the row it finds.
Import(s, status) ==
    /\ requests < MaxRequests
    /\ requests' = requests + 1
    /\ text' = [text EXCEPT ![s] = Got(@, "")]
    /\ desk' = [desk EXCEPT ![s] = IF status = "" THEN GotDesk(@)
                                   ELSE [GotDesk(@) EXCEPT !.status = status]]
    /\ UNCHANGED <<avatar, onStage, work, revisions, mail, workers, crashes>>

\* create_task and CreateFileRequestView: a slug that is free when it is looked
\* up, then the definition and a task for the speaker.
BeginTask(w, s, file) ==
    /\ IF file THEN s \in onStage ELSE Allowed(s)
    /\ Begin(w, [pc |-> "task", speaker |-> s, slug |-> FreeSlug])
    /\ UNCHANGED <<people, work, revisions, mail, crashes>>

CommitTask(w) ==
    /\ Step(w, "task", Idle)
    /\ LET n == workers[w].slug IN
       IF n \in slugs
       THEN UNCHANGED work
       ELSE /\ slugs' = slugs \cup {n}
            /\ tasks' = tasks \cup {<<n, workers[w].speaker>>}
    /\ UNCHANGED <<people, revisions, mail>>

\* _send_speaker_mail: a row that says failed, the hand-over, the outcome.
BeginMail(w, s) ==
    /\ Allowed(s)
    /\ Begin(w, [pc |-> "mail", row |-> Len(log) + 1])
    /\ log' = Append(log, [speaker |-> s, outcome |-> "not_attempted"])
    /\ UNCHANGED <<people, work, revisions, outbox, crashes>>

HandOver(w, taken, raised) ==
    /\ Step(w, "mail", [workers[w] EXCEPT !.pc = IF raised THEN "mail_failed" ELSE "mail_sent"])
    /\ taken \/ raised
    /\ outbox' = IF taken THEN outbox \cup {workers[w].row} ELSE outbox
    /\ UNCHANGED <<people, work, revisions, log>>

RecordMail(w) ==
    /\ \/ Step(w, "mail_sent", Idle)   /\ log' = [log EXCEPT ![workers[w].row].outcome = "sent"]
       \/ Step(w, "mail_failed", Idle) /\ log' = [log EXCEPT ![workers[w].row].outcome = "failed"]
    /\ UNCHANGED <<people, work, revisions, outbox>>

-----------------------------------------------------------------------------
(* The speaker's portal page.                                              *)

\* Showing and checking the form makes the rows; a headshot is asked for once.
BeginPortal(w, s, t, link, image) ==
    /\ image # "" \/ avatar[s] # ""
    /\ Begin(w, [pc |-> "portal", speaker |-> s, text |-> t, link |-> link,
                 image |-> image, loaded |-> ""])
    /\ text' = [text EXCEPT ![s] = Got(@, "")]
    /\ desk' = [desk EXCEPT ![s] = GotDesk(@)]
    /\ UNCHANGED <<avatar, onStage, work, revisions, mail, crashes>>

\* The transaction reads both rows again ...
LoadPortal(w) ==
    /\ LET s == workers[w].speaker IN
       /\ Step(w, "portal", [workers[w] EXCEPT !.pc = "portal_loaded",
                                               !.loaded = GotDesk(desk[s]).headshot])
       /\ text' = [text EXCEPT ![s] = Got(@, "")]
       /\ desk' = [desk EXCEPT ![s] = GotDesk(@)]
    /\ UNCHANGED <<avatar, onStage, work, revisions, mail>>

\* ... and writes its columns of both, or nothing if a row is gone.
CommitPortal(w) ==
    /\ Step(w, "portal_loaded", Idle)
    /\ LET q == workers[w]
           s == q.speaker
           name == IF q.image = "" THEN q.loaded ELSE q.image
       IN IF text[s] = Absent \/ desk[s] = NoDesk
          THEN UNCHANGED people
          ELSE /\ text' = [text EXCEPT ![s] = q.text]
               /\ desk' = [desk EXCEPT ![s].social = q.link, ![s].headshot = name]
               /\ avatar' = [avatar EXCEPT ![s] = IF q.image = "" THEN @ ELSE q.image]
               /\ UNCHANGED onStage
    /\ UNCHANGED <<work, revisions, mail>>

-----------------------------------------------------------------------------
(* The content pages.                                                      *)

Revision(x, image) == [of |-> x, text |-> text[x], image |-> image]

\* SessionContentEditView locks the session.
EditSession(t) ==
    /\ requests < MaxRequests
    /\ requests' = requests + 1
    /\ revisions' = Append(revisions, Revision(Session, ""))
    /\ text' = [text EXCEPT ![Session] = t]
    /\ UNCHANGED <<desk, avatar, onStage, work, mail, workers, crashes>>

\* SpeakerContentEditView loads the account, then locks the biography.
BeginEdit(w, s, t, image) ==
    /\ s \in onStage
    /\ Begin(w, [pc |-> "edit", speaker |-> s, text |-> t, image |-> image, avatar |-> avatar[s]])
    /\ UNCHANGED <<people, work, revisions, mail, crashes>>

\* Mutant: the version is kept after the new biography is in place.
CommitEdit_KeptAfter(w) ==
    /\ Step(w, "edit", Idle)
    /\ LET q == workers[w] IN
       /\ revisions' = Append(revisions, [Revision(q.speaker, q.avatar) EXCEPT !.text = q.text])
       /\ text' = [text EXCEPT ![q.speaker] = q.text]
       /\ UNCHANGED <<desk, avatar>>
    /\ UNCHANGED <<onStage, work, mail>>

CommitEdit(w) ==
    /\ Step(w, "edit", Idle)
    /\ LET q == workers[w] IN
       /\ revisions' = Append(revisions, [Revision(q.speaker, q.avatar) EXCEPT !.text = Got(@, "")])
       /\ text' = [text EXCEPT ![q.speaker] = q.text]
       /\ IF q.image = ""
          THEN UNCHANGED <<desk, avatar>>
          ELSE /\ desk' = [desk EXCEPT ![q.speaker] = [GotDesk(@) EXCEPT !.headshot = q.image]]
               /\ avatar' = [avatar EXCEPT ![q.speaker] = q.image]
    /\ UNCHANGED <<onStage, work, mail>>

\* ContentRevisionRestoreView: the version that is replaced is kept first.  A
\* version without a headshot leaves the one there is.
BeginRestore(w, i) ==
    /\ revisions[i].of \in Speakers
    /\ Begin(w, [pc |-> "restore", speaker |-> revisions[i].of, text |-> revisions[i].text,
                 image |-> revisions[i].image, avatar |-> avatar[revisions[i].of]])
    /\ UNCHANGED <<people, work, revisions, mail, crashes>>

CommitRestore(w) ==
    /\ Step(w, "restore", Idle)
    /\ LET q == workers[w] IN
       /\ revisions' = Append(revisions, [Revision(q.speaker, q.avatar) EXCEPT !.text = Got(@, "")])
       /\ text' = [text EXCEPT ![q.speaker] = q.text]
       /\ avatar' = [avatar EXCEPT ![q.speaker] = IF q.image = "" THEN @ ELSE q.image]
    /\ UNCHANGED <<desk, onStage, work, mail>>

RestoreSession(i) ==
    /\ revisions[i].of = Session /\ requests < MaxRequests
    /\ requests' = requests + 1
    /\ revisions' = Append(revisions, Revision(Session, ""))
    /\ text' = [text EXCEPT ![Session] = revisions[i].text]
    /\ UNCHANGED <<desk, avatar, onStage, work, mail, workers, crashes>>

-----------------------------------------------------------------------------
\* pretalx: a session of the event gets the speaker, or loses them.
Assign(s) ==
    /\ requests < MaxRequests
    /\ requests' = requests + 1
    /\ onStage' = IF s \in onStage THEN onStage \ {s} ELSE onStage \cup {s}
    /\ UNCHANGED <<text, desk, avatar, work, revisions, mail, workers, crashes>>

\* A request ends between two of its commits.
Crash(w) ==
    /\ crashes < MaxCrashes /\ workers[w] # Idle
    /\ crashes' = crashes + 1
    /\ Become(w, Idle)
    /\ UNCHANGED <<people, work, revisions, mail, requests>>

Init ==
    /\ text = [x \in Speakers \cup {Session} |-> IF x = Session THEN "" ELSE Absent]
    /\ desk = [s \in Speakers |-> NoDesk]
    /\ avatar = [s \in Speakers |-> ""]
    /\ onStage = {} /\ tasks = {} /\ slugs = {}
    /\ revisions = <<>> /\ log = <<>> /\ outbox = {}
    /\ workers = [w \in Workers |-> Idle]
    /\ requests = 0 /\ crashes = 0

Next ==
    \/ \E w \in Workers :
        \/ \E s \in Speakers :
            \/ \E t \in Texts :
                \/ BeginCreate(w, s, t)
                \/ \E link \in Links, status \in Statuses : BeginUpdate(w, s, t, status, link)
                \/ \E image \in Images \cup {""} :
                    \/ \E link \in Links : BeginPortal(w, s, t, link, image)
                    \/ BeginEdit(w, s, t, image)
            \/ \E file \in BOOLEAN : BeginTask(w, s, file)
            \/ BeginRemove(w, s) \/ BeginMail(w, s)
        \/ \E i \in DOMAIN revisions : BeginRestore(w, i)
        \/ \E taken, raised \in BOOLEAN : HandOver(w, taken, raised)
        \/ CommitCreate(w) \/ SaveBiography(w) \/ SaveRow(w) \/ CommitRemove(w)
        \/ CommitTask(w) \/ RecordMail(w) \/ LoadPortal(w) \/ CommitPortal(w)
        \/ CommitEdit(w) \/ CommitRestore(w) \/ Crash(w)
    \/ \E s \in Speakers :
        \/ Assign(s)
        \/ \E status \in Statuses \cup {""} : Import(s, status)
    \/ \E t \in Texts : EditSession(t)
    \/ \E i \in DOMAIN revisions : RestoreSession(i)

Spec == Init /\ [][Next]_vars

-----------------------------------------------------------------------------

\* "The prior version remains restorable": a content page that replaces a text
\* keeps the very text it replaces, and the headshot if that did not change
\* after the page loaded the account, whatever else wrote in between.
PriorVersionIsKept ==
    [][ \A x \in DOMAIN text : text'[x] # text[x] /\ revisions' # revisions =>
            /\ Last(revisions').of = x
            /\ Last(revisions').text = Got(text[x], "")
            /\ x \in Speakers => \E w \in Workers :
                    /\ workers[w] # Idle /\ workers'[w] = Idle
                    /\ \/ Last(revisions').image = avatar[x]
                       \/ workers[w].avatar # avatar[x] ]_vars
=============================================================================
