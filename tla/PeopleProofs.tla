----------------------------- MODULE PeopleProofs -----------------------------
(***************************************************************************)
(* Theorems about what is kept and told of the people of an event:         *)
(* SpeakerDesk, Contacts, Memory and Readiness as People has them, for     *)
(* every value of the constants.                                           *)
(***************************************************************************)
EXTENDS People, Sequences, FiniteSetTheorems, WellFoundedInduction, TLAPS

peopleVars == <<part, profiles, crm, editions, told>>

\* The part that runs takes steps of its own module, the others wait.
LEMMA PartSteps ==
    ASSUME [PeopleNext]_peopleVars
    PROVE  /\ UNCHANGED part
           /\ [Desk!Next]_(Desk!vars)
           /\ [Crm!Next]_(Crm!vars)
           /\ [Past!Next]_(Past!vars)
           /\ [Told!Next]_(Told!vars)
<1>1. UNCHANGED profiles => UNCHANGED Desk!vars
  BY DEF profiles, Desk!vars, Desk!people, Desk!work, Desk!mail
<1>2. UNCHANGED crm => UNCHANGED Crm!vars
  BY DEF crm, Crm!vars, Crm!about
<1>3. UNCHANGED editions => UNCHANGED Past!vars BY DEF editions, Past!vars
<1>4. UNCHANGED told => UNCHANGED Told!vars
  BY DEF told, Told!vars, Told!program, Told!work, Told!schedule, Told!outside
<1>5. CASE UNCHANGED peopleVars
  BY <1>1, <1>2, <1>3, <1>4, <1>5 DEF peopleVars
<1>6. CASE PeopleNext
  BY <1>1, <1>2, <1>3, <1>4, <1>6 DEF PeopleNext
<1>. QED BY <1>5, <1>6

-----------------------------------------------------------------------------
(* The desk: no version that is kept stands for a missing row, and the       *)
(* session always has its content.                                           *)

Portraits == Images \cup {""}
Readings  == Texts \cup {""}
DeskRows  == [status : DeskStatuses \cup {Desk!Absent}, social : Links \cup {""},
              headshot : Portraits]
Versions  == [of : Speakers \cup {Session}, text : Readings, image : Portraits]

Creating  == [pc : {"create"}, speaker : Speakers, text : Texts]
Updating  == [pc : {"update", "update_row"}, speaker : Speakers, text : Texts, row : DeskRows]
Removing  == [pc : {"remove"}, speaker : Speakers]
AtPortal  == [pc : {"portal", "portal_loaded"}, speaker : Speakers, text : Texts,
              link : Links, image : Portraits, loaded : Portraits]
Editing   == [pc : {"edit", "restore"}, speaker : Speakers, text : Readings,
              image : Portraits, avatar : Portraits]
Mailing   == [pc : {"mail", "mail_sent", "mail_failed"}, row : Nat]

\* What a request holds between its commits; a task's slug matters to nobody here.
IsDeskRequest(q) ==
    \/ q = Desk!Idle \/ q.pc = "task"
    \/ q \in Creating \cup Updating \cup Removing \cup AtPortal \cup Editing \cup Mailing

DeskInv ==
    /\ text \in [Speakers \cup {Session} -> Readings \cup {Desk!Absent}]
    /\ text[Session] # Desk!Absent
    /\ avatar \in [Speakers -> Portraits]
    /\ desk \in [Speakers -> DeskRows]
    /\ revisions \in Seq(Versions)
    /\ mailLog \in Seq([speaker : Speakers, outcome : {"not_attempted", "sent", "failed"}])
    /\ DOMAIN writers = Writers
    /\ \A w \in Writers : IsDeskRequest(writers[w])

LEMMA DeskFacts ==
    /\ Session \notin Speakers /\ "invited" \in DeskStatuses
    /\ Desk!Absent = "-" /\ Desk!Absent \notin Readings
    /\ Desk!NewDesk \in DeskRows /\ Desk!NoDesk \in DeskRows
    /\ \A row \in DeskRows : Desk!GotDesk(row) \in DeskRows
    /\ \A t \in Readings \cup {Desk!Absent} : Desk!Got(t, "") \in Readings
BY PeopleAssumption
   DEF Desk!SpeakerDeskAssumption, Desk!Absent, Desk!NewDesk, Desk!NoDesk, Desk!GotDesk,
       Desk!Got, DeskRows, Readings, Portraits

\* The request at a commit is one of those that the commit is for.
LEMMA DeskRequests ==
    ASSUME NEW q, IsDeskRequest(q)
    PROVE  /\ q.pc = "create" => q \in Creating
           /\ q.pc \in {"update", "update_row"} => q \in Updating
           /\ q.pc = "remove" => q \in Removing
           /\ q.pc \in {"portal", "portal_loaded"} => q \in AtPortal
           /\ q.pc \in {"edit", "restore"} => q \in Editing
           /\ q.pc \in {"mail", "mail_sent", "mail_failed"} => q \in Mailing
BY DEF IsDeskRequest, Desk!Idle, Creating, Updating, Removing, AtPortal, Editing, Mailing

LEMMA DeskBecome ==
    ASSUME DOMAIN writers = Writers, \A w \in Writers : IsDeskRequest(writers[w]),
           NEW w \in Writers, NEW q, IsDeskRequest(q), Desk!Become(w, q)
    PROVE  /\ DOMAIN writers' = Writers
           /\ \A v \in Writers : IsDeskRequest(writers'[v])
           /\ writers'[w] = q
<1>1. writers' = [writers EXCEPT ![w] = q] BY DEF Desk!Become
<1>2. /\ DOMAIN writers' = Writers /\ writers'[w] = q
      /\ \A v \in Writers : v # w => writers'[v] = writers[v]
  BY <1>1
<1>3. ASSUME NEW v \in Writers PROVE IsDeskRequest(writers'[v])
  <2>1. CASE v = w
    <3>1. writers'[v] = q BY <1>2, <2>1
    <3>. QED BY <3>1
  <2>2. CASE v # w
    <3>1. writers'[v] = writers[v] BY <1>2, <2>2
    <3>2. IsDeskRequest(writers[v]) OBVIOUS
    <3>. QED BY <3>1, <3>2
  <2>. QED BY <2>1, <2>2
<1>. QED BY <1>2, <1>3

LEMMA DeskIdle == IsDeskRequest(Desk!Idle)
BY DEF IsDeskRequest

LEMMA DeskStart == Desk!Init => DeskInv
<1>. SUFFICES ASSUME Desk!Init PROVE DeskInv
  OBVIOUS
<1>1. /\ text \in [Speakers \cup {Session} -> Readings \cup {Desk!Absent}]
      /\ text[Session] # Desk!Absent
  BY DEF Desk!Init, Desk!Absent, Readings
<1>2. /\ avatar \in [Speakers -> Portraits] /\ desk \in [Speakers -> DeskRows]
  BY DeskFacts DEF Desk!Init, Portraits
<1>3. /\ revisions = <<>> /\ mailLog = <<>> /\ DOMAIN writers = Writers
      /\ \A w \in Writers : writers[w] = Desk!Idle
  BY DEF Desk!Init
<1>4. \A w \in Writers : IsDeskRequest(writers[w])
  BY <1>3, DeskIdle
<1>. QED BY <1>1, <1>2, <1>3, <1>4 DEF DeskInv

\* A step that keeps no version and sets the texts within their type.
LEMMA DeskQuiet ==
    ASSUME DeskInv, UNCHANGED revisions,
           text' \in [Speakers \cup {Session} -> Readings \cup {Desk!Absent}],
           text'[Session] = text[Session],
           avatar' \in [Speakers -> Portraits], desk' \in [Speakers -> DeskRows],
           mailLog' \in Seq([speaker : Speakers,
                             outcome : {"not_attempted", "sent", "failed"}]),
           DOMAIN writers' = Writers, \A w \in Writers : IsDeskRequest(writers'[w])
    PROVE  DeskInv'
BY DEF DeskInv

\* A step that keeps one more version, of x, for the text t.
LEMMA DeskKeeps ==
    ASSUME DeskInv, NEW x \in Speakers \cup {Session}, NEW t \in Readings,
           NEW r \in Versions, revisions' = Append(revisions, r),
           text' = [text EXCEPT ![x] = t],
           avatar' \in [Speakers -> Portraits], desk' \in [Speakers -> DeskRows],
           UNCHANGED mailLog,
           DOMAIN writers' = Writers, \A w \in Writers : IsDeskRequest(writers'[w])
    PROVE  DeskInv'
<1>1. /\ text' \in [Speakers \cup {Session} -> Readings \cup {Desk!Absent}]
      /\ text'[Session] # Desk!Absent
  BY DeskFacts DEF DeskInv
<1>2. revisions' \in Seq(Versions) BY DEF DeskInv
<1>. QED BY <1>1, <1>2 DEF DeskInv

LEMMA DeskStep ==
    ASSUME DeskInv, [Desk!Next]_(Desk!vars)
    PROVE  DeskInv'
<1>0. /\ text \in [Speakers \cup {Session} -> Readings \cup {Desk!Absent}]
      /\ text[Session] # Desk!Absent
      /\ avatar \in [Speakers -> Portraits]
      /\ desk \in [Speakers -> DeskRows]
      /\ revisions \in Seq(Versions)
      /\ mailLog \in Seq([speaker : Speakers, outcome : {"not_attempted", "sent", "failed"}])
      /\ DOMAIN writers = Writers
      /\ \A w \in Writers : IsDeskRequest(writers[w])
  BY DEF DeskInv
<1>. USE DEF Desk!people, Desk!work, Desk!mail
<1>1. CASE UNCHANGED Desk!vars
  BY <1>1 DEF Desk!vars, DeskInv
<1>2. ASSUME NEW w \in Writers, NEW s \in Speakers, NEW t \in Texts, Desk!BeginCreate(w, s, t)
      PROVE  DeskInv'
  <2>. DEFINE q == [pc |-> "create", speaker |-> s, text |-> t]
  <2>1. IsDeskRequest(q) BY DEF IsDeskRequest, Creating
  <2>2. Desk!Become(w, q) /\ UNCHANGED <<text, desk, avatar, revisions, mailLog>>
    BY <1>2 DEF Desk!BeginCreate, Desk!Begin
  <2>. HIDE DEF q
  <2>3. DOMAIN writers' = Writers /\ \A v \in Writers : IsDeskRequest(writers'[v])
    BY <1>0, <2>1, <2>2, DeskBecome
  <2>. QED BY <1>0, <2>2, <2>3, DeskQuiet
<1>3. ASSUME NEW w \in Writers, Desk!CommitCreate(w) PROVE DeskInv'
  <2>1. writers[w] \in Creating BY <1>0, <1>3, DeskRequests DEF Desk!CommitCreate, Desk!Step
  <2>2. Desk!Become(w, Desk!Idle) /\ UNCHANGED <<avatar, revisions, mailLog>>
    BY <1>3 DEF Desk!CommitCreate, Desk!Step
  <2>3. DOMAIN writers' = Writers /\ \A v \in Writers : IsDeskRequest(writers'[v])
    BY <1>0, <2>2, DeskBecome, DeskIdle
  <2>. DEFINE s == writers[w].speaker
              t == writers[w].text
  <2>4. s \in Speakers /\ t \in Texts BY <2>1 DEF Creating
  <2>5. \/ UNCHANGED <<text, desk>>
        \/ text' = [text EXCEPT ![s] = t] /\ desk' = [desk EXCEPT ![s] = Desk!NewDesk]
    BY <1>3 DEF Desk!CommitCreate
  <2>. HIDE DEF s, t
  <2>6. /\ text' \in [Speakers \cup {Session} -> Readings \cup {Desk!Absent}]
        /\ text'[Session] = text[Session] /\ desk' \in [Speakers -> DeskRows]
    <3>1. CASE UNCHANGED <<text, desk>> BY <1>0, <3>1
    <3>2. CASE text' = [text EXCEPT ![s] = t] /\ desk' = [desk EXCEPT ![s] = Desk!NewDesk]
      <4>1. t \in Readings /\ s # Session /\ Desk!NewDesk \in DeskRows
        BY <2>4, DeskFacts DEF Readings
      <4>2. desk' \in [Speakers -> DeskRows] BY <1>0, <3>2, <4>1
      <4>3. /\ text' \in [Speakers \cup {Session} -> Readings \cup {Desk!Absent}]
            /\ text'[Session] = text[Session]
        BY <1>0, <2>4, <3>2, <4>1
      <4>. QED BY <4>2, <4>3
    <3>. QED BY <2>5, <3>1, <3>2
  <2>. QED BY <1>0, <2>2, <2>3, <2>6, DeskQuiet
<1>4. ASSUME NEW w \in Writers, NEW s \in Speakers, NEW t \in Texts, NEW link \in Links,
             NEW status \in DeskStatuses, Desk!BeginUpdate(w, s, t, status, link)
      PROVE  DeskInv'
  <2>. DEFINE got == Desk!GotDesk(desk[s])
              row == [got EXCEPT !.status = status, !.social = link]
              q == [pc |-> "update", speaker |-> s, text |-> t, row |-> row]
  <2>1. got \in DeskRows BY <1>0, DeskFacts
  <2>0. Desk!Become(w, q) BY <1>4 DEF Desk!BeginUpdate, Desk!Begin
  <2>2. /\ Desk!Become(w, q) /\ desk' = [desk EXCEPT ![s] = got]
        /\ UNCHANGED <<text, avatar, revisions, mailLog>>
    BY <1>4, <2>0 DEF Desk!BeginUpdate
  <2>. HIDE DEF got
  <2>3. row \in DeskRows BY <2>1 DEF DeskRows
  <2>. HIDE DEF row
  <2>4. IsDeskRequest(q) BY <2>3 DEF IsDeskRequest, Updating
  <2>. HIDE DEF q
  <2>5. DOMAIN writers' = Writers /\ \A v \in Writers : IsDeskRequest(writers'[v])
    BY <1>0, <2>2, <2>4, DeskBecome
  <2>6. desk' \in [Speakers -> DeskRows] BY <1>0, <2>1, <2>2
  <2>. QED BY <1>0, <2>2, <2>5, <2>6, DeskQuiet
<1>5. ASSUME NEW w \in Writers, Desk!SaveBiography(w) PROVE DeskInv'
  <2>. DEFINE q == writers[w]
              p == [q EXCEPT !.pc = "update_row"]
  <2>1. q \in Updating BY <1>0, <1>5, DeskRequests DEF Desk!SaveBiography, Desk!Step
  <2>2. /\ Desk!Become(w, p) /\ text' = [text EXCEPT ![q.speaker] = q.text]
        /\ UNCHANGED <<desk, avatar, revisions, mailLog>>
    BY <1>5 DEF Desk!SaveBiography, Desk!Step
  <2>. HIDE DEF q
  <2>3. p \in Updating BY <2>1 DEF Updating
  <2>4. IsDeskRequest(p) BY <2>3 DEF IsDeskRequest
  <2>5. q.speaker \in Speakers /\ q.text \in Texts BY <2>1 DEF Updating
  <2>. HIDE DEF p
  <2>6. DOMAIN writers' = Writers /\ \A v \in Writers : IsDeskRequest(writers'[v])
    BY <1>0, <2>2, <2>4, DeskBecome
  <2>7. /\ text' \in [Speakers \cup {Session} -> Readings \cup {Desk!Absent}]
        /\ text'[Session] = text[Session]
    BY <1>0, <2>2, <2>5, DeskFacts DEF Readings
  <2>. QED BY <1>0, <2>2, <2>6, <2>7, DeskQuiet
<1>6. ASSUME NEW w \in Writers, Desk!SaveRow(w) PROVE DeskInv'
  <2>. DEFINE q == writers[w]
  <2>1. q \in Updating BY <1>0, <1>6, DeskRequests DEF Desk!SaveRow, Desk!Step
  <2>2. /\ Desk!Become(w, Desk!Idle) /\ desk' = [desk EXCEPT ![q.speaker] = q.row]
        /\ UNCHANGED <<text, avatar, revisions, mailLog>>
    BY <1>6 DEF Desk!SaveRow, Desk!Step
  <2>. HIDE DEF q
  <2>3. q.row \in DeskRows BY <2>1 DEF Updating
  <2>4. desk' \in [Speakers -> DeskRows] BY <1>0, <2>2, <2>3
  <2>5. DOMAIN writers' = Writers /\ \A v \in Writers : IsDeskRequest(writers'[v])
    BY <1>0, <2>2, DeskBecome, DeskIdle
  <2>. QED BY <1>0, <2>2, <2>4, <2>5, DeskQuiet
<1>7. ASSUME NEW w \in Writers, NEW s \in Speakers, Desk!BeginRemove(w, s) PROVE DeskInv'
  <2>. DEFINE q == [pc |-> "remove", speaker |-> s]
  <2>1. IsDeskRequest(q) BY DEF IsDeskRequest, Removing
  <2>2. Desk!Become(w, q) /\ UNCHANGED <<text, desk, avatar, revisions, mailLog>>
    BY <1>7 DEF Desk!BeginRemove, Desk!Begin
  <2>. HIDE DEF q
  <2>3. DOMAIN writers' = Writers /\ \A v \in Writers : IsDeskRequest(writers'[v])
    BY <1>0, <2>1, <2>2, DeskBecome
  <2>. QED BY <1>0, <2>2, <2>3, DeskQuiet
<1>8. ASSUME NEW w \in Writers, Desk!CommitRemove(w) PROVE DeskInv'
  <2>. DEFINE q == writers[w]
  <2>1. q \in Removing BY <1>0, <1>8, DeskRequests DEF Desk!CommitRemove, Desk!Step
  <2>2. /\ Desk!Become(w, Desk!Idle)
        /\ desk' = [desk EXCEPT ![q.speaker] = Desk!NoDesk]
        /\ text' = [text EXCEPT ![q.speaker] = Desk!Absent]
        /\ UNCHANGED <<avatar, revisions, mailLog>>
    BY <1>8 DEF Desk!CommitRemove, Desk!Step
  <2>. HIDE DEF q
  <2>3. q.speaker \in Speakers BY <2>1 DEF Removing
  <2>4. /\ text' \in [Speakers \cup {Session} -> Readings \cup {Desk!Absent}]
        /\ text'[Session] = text[Session] /\ desk' \in [Speakers -> DeskRows]
    BY <1>0, <2>2, <2>3, DeskFacts
  <2>5. DOMAIN writers' = Writers /\ \A v \in Writers : IsDeskRequest(writers'[v])
    BY <1>0, <2>2, DeskBecome, DeskIdle
  <2>. QED BY <1>0, <2>2, <2>4, <2>5, DeskQuiet
<1>9. ASSUME NEW s \in Speakers, NEW status \in DeskStatuses \cup {""}, Desk!Import(s, status)
      PROVE  DeskInv'
  <2>. DEFINE got == Desk!GotDesk(desk[s])
  <2>1. got \in DeskRows BY <1>0, DeskFacts
  <2>2. /\ text' = [text EXCEPT ![s] = Desk!Got(text[s], "")]
        /\ desk' = [desk EXCEPT ![s] = IF status = "" THEN got ELSE [got EXCEPT !.status = status]]
        /\ UNCHANGED <<avatar, revisions, mailLog, writers>>
    BY <1>9 DEF Desk!Import
  <2>. HIDE DEF got
  <2>3. (IF status = "" THEN got ELSE [got EXCEPT !.status = status]) \in DeskRows
    BY <2>1 DEF DeskRows
  <2>4. desk' \in [Speakers -> DeskRows] BY <1>0, <2>2, <2>3
  <2>5. Desk!Got(text[s], "") \in Readings BY <1>0, DeskFacts
  <2>6. /\ text' \in [Speakers \cup {Session} -> Readings \cup {Desk!Absent}]
        /\ text'[Session] = text[Session]
    BY <1>0, <2>2, <2>5, DeskFacts
  <2>. QED BY <1>0, <2>2, <2>4, <2>6, DeskQuiet
<1>10. ASSUME NEW w \in Writers, NEW s \in Speakers, NEW file \in BOOLEAN,
              Desk!BeginTask(w, s, file)
       PROVE  DeskInv'
  <2>. DEFINE q == [pc |-> "task", speaker |-> s, slug |-> Desk!FreeSlug]
  <2>1. IsDeskRequest(q) BY DEF IsDeskRequest
  <2>2. Desk!Become(w, q) /\ UNCHANGED <<text, desk, avatar, revisions, mailLog>>
    BY <1>10 DEF Desk!BeginTask, Desk!Begin
  <2>. HIDE DEF q
  <2>3. DOMAIN writers' = Writers /\ \A v \in Writers : IsDeskRequest(writers'[v])
    BY <1>0, <2>1, <2>2, DeskBecome
  <2>. QED BY <1>0, <2>2, <2>3, DeskQuiet
<1>11. ASSUME NEW w \in Writers, Desk!CommitTask(w) PROVE DeskInv'
  <2>1. /\ Desk!Become(w, Desk!Idle)
        /\ UNCHANGED <<text, desk, avatar, revisions, mailLog>>
    BY <1>11 DEF Desk!CommitTask, Desk!Step
  <2>2. DOMAIN writers' = Writers /\ \A v \in Writers : IsDeskRequest(writers'[v])
    BY <1>0, <2>1, DeskBecome, DeskIdle
  <2>. QED BY <1>0, <2>1, <2>2, DeskQuiet
<1>12. ASSUME NEW w \in Writers, NEW s \in Speakers, Desk!BeginMail(w, s) PROVE DeskInv'
  <2>. DEFINE q == [pc |-> "mail", row |-> Len(mailLog) + 1]
  <2>1. Len(mailLog) + 1 \in Nat BY <1>0
  <2>2. IsDeskRequest(q) BY <2>1 DEF IsDeskRequest, Mailing
  <2>3. /\ Desk!Become(w, q)
        /\ mailLog' = Append(mailLog, [speaker |-> s, outcome |-> "not_attempted"])
        /\ UNCHANGED <<text, desk, avatar, revisions>>
    BY <1>12 DEF Desk!BeginMail, Desk!Begin
  <2>. HIDE DEF q
  <2>4. mailLog' \in Seq([speaker : Speakers,
                          outcome : {"not_attempted", "sent", "failed"}])
    BY <1>0, <2>3
  <2>5. DOMAIN writers' = Writers /\ \A v \in Writers : IsDeskRequest(writers'[v])
    BY <1>0, <2>2, <2>3, DeskBecome
  <2>. QED BY <1>0, <2>3, <2>4, <2>5, DeskQuiet
<1>13. ASSUME NEW w \in Writers, NEW taken \in BOOLEAN, NEW raised \in BOOLEAN,
              Desk!HandOver(w, taken, raised)
       PROVE  DeskInv'
  <2>. DEFINE q == writers[w]
              pc == IF raised THEN "mail_failed" ELSE "mail_sent"
              p == [q EXCEPT !.pc = pc]
  <2>1. q \in Mailing BY <1>0, <1>13, DeskRequests DEF Desk!HandOver, Desk!Step
  <2>2. Desk!Become(w, p) /\ UNCHANGED <<text, desk, avatar, revisions, mailLog>>
    BY <1>13 DEF Desk!HandOver, Desk!Step
  <2>. HIDE DEF q
  <2>3. p \in Mailing BY <2>1 DEF Mailing
  <2>4. IsDeskRequest(p) BY <2>3 DEF IsDeskRequest
  <2>. HIDE DEF p
  <2>5. DOMAIN writers' = Writers /\ \A v \in Writers : IsDeskRequest(writers'[v])
    BY <1>0, <2>2, <2>4, DeskBecome
  <2>. QED BY <1>0, <2>2, <2>5, DeskQuiet
<1>14. ASSUME NEW w \in Writers, Desk!RecordMail(w) PROVE DeskInv'
  <2>. DEFINE i == writers[w].row
  <2>1. /\ Desk!Become(w, Desk!Idle) /\ UNCHANGED <<text, desk, avatar, revisions>>
        /\ \/ mailLog' = [mailLog EXCEPT ![i].outcome = "sent"]
           \/ mailLog' = [mailLog EXCEPT ![i].outcome = "failed"]
    BY <1>14 DEF Desk!RecordMail, Desk!Step
  <2>. HIDE DEF i
  <2>2. PICK said \in {"sent", "failed"} : mailLog' = [mailLog EXCEPT ![i].outcome = said]
    BY <2>1
  <2>. DEFINE Rows == [speaker : Speakers, outcome : {"not_attempted", "sent", "failed"}]
  <2>3. mailLog \in Seq(Rows) BY <1>0
  <2>4. \A r \in Rows : [r EXCEPT !.outcome = said] \in Rows OBVIOUS
  <2>. HIDE DEF Rows
  <2>0. /\ Len(mailLog) \in Nat /\ DOMAIN mailLog = 1..Len(mailLog)
        /\ \A k \in 1..Len(mailLog) : mailLog[k] \in Rows
    BY <2>3
  <2>5. mailLog' = [k \in 1..Len(mailLog) |->
               IF k = i THEN [mailLog[k] EXCEPT !.outcome = said] ELSE mailLog[k]]
    BY <2>0, <2>2
  <2>6. \A k \in 1..Len(mailLog) : mailLog'[k] \in Rows BY <2>0, <2>4, <2>5
  <2>7. mailLog' \in Seq(Rows) BY <2>0, <2>5, <2>6
  <2>8. DOMAIN writers' = Writers /\ \A v \in Writers : IsDeskRequest(writers'[v])
    BY <1>0, <2>1, DeskBecome, DeskIdle
  <2>. QED BY <1>0, <2>1, <2>7, <2>8, DeskQuiet DEF Rows
<1>15. ASSUME NEW w \in Writers, NEW s \in Speakers, NEW t \in Texts, NEW link \in Links,
              NEW image \in Images \cup {""}, Desk!BeginPortal(w, s, t, link, image)
       PROVE  DeskInv'
  <2>. DEFINE q == [pc |-> "portal", speaker |-> s, text |-> t, link |-> link,
                    image |-> image, loaded |-> ""]
              got == Desk!GotDesk(desk[s])
  <2>1. IsDeskRequest(q) BY DEF IsDeskRequest, AtPortal, Portraits
  <2>2. got \in DeskRows BY <1>0, DeskFacts
  <2>3. Desk!Got(text[s], "") \in Readings /\ s # Session BY <1>0, DeskFacts
  <2>4. Desk!Become(w, q) BY <1>15 DEF Desk!BeginPortal, Desk!Begin
  <2>5. /\ text' = [text EXCEPT ![s] = Desk!Got(text[s], "")]
        /\ desk' = [desk EXCEPT ![s] = got]
        /\ UNCHANGED <<avatar, revisions, mailLog>>
    BY <1>15 DEF Desk!BeginPortal
  <2>. HIDE DEF q, got
  <2>6. desk' \in [Speakers -> DeskRows] BY <1>0, <2>2, <2>5
  <2>7. /\ text' \in [Speakers \cup {Session} -> Readings \cup {Desk!Absent}]
        /\ text'[Session] = text[Session]
    BY <1>0, <2>3, <2>5
  <2>8. DOMAIN writers' = Writers /\ \A v \in Writers : IsDeskRequest(writers'[v])
    BY <1>0, <2>1, <2>4, DeskBecome
  <2>. QED BY <1>0, <2>5, <2>6, <2>7, <2>8, DeskQuiet
<1>16. ASSUME NEW w \in Writers, Desk!LoadPortal(w) PROVE DeskInv'
  <2>. DEFINE q == writers[w]
              s == q.speaker
              got == Desk!GotDesk(desk[s])
              p == [q EXCEPT !.pc = "portal_loaded", !.loaded = got.headshot]
  <2>1. q \in AtPortal BY <1>0, <1>16, DeskRequests DEF Desk!LoadPortal, Desk!Step
  <2>2. s \in Speakers BY <2>1 DEF AtPortal
  <2>3. got \in DeskRows BY <1>0, <2>2, DeskFacts
  <2>4. Desk!Got(text[s], "") \in Readings /\ s # Session BY <1>0, <2>2, DeskFacts
  <2>5. Desk!Become(w, p) BY <1>16 DEF Desk!LoadPortal, Desk!Step
  <2>6. /\ text' = [text EXCEPT ![s] = Desk!Got(text[s], "")]
        /\ desk' = [desk EXCEPT ![s] = got]
        /\ UNCHANGED <<avatar, revisions, mailLog>>
    BY <1>16 DEF Desk!LoadPortal
  <2>. HIDE DEF q, got
  <2>7. p \in AtPortal BY <2>1, <2>3 DEF AtPortal, DeskRows
  <2>8. IsDeskRequest(p) BY <2>7 DEF IsDeskRequest
  <2>. HIDE DEF p, s
  <2>9. desk' \in [Speakers -> DeskRows] BY <1>0, <2>3, <2>6
  <2>10. /\ text' \in [Speakers \cup {Session} -> Readings \cup {Desk!Absent}]
         /\ text'[Session] = text[Session]
    BY <1>0, <2>4, <2>6
  <2>11. DOMAIN writers' = Writers /\ \A v \in Writers : IsDeskRequest(writers'[v])
    BY <1>0, <2>5, <2>8, DeskBecome
  <2>. QED BY <1>0, <2>6, <2>9, <2>10, <2>11, DeskQuiet
<1>17. ASSUME NEW w \in Writers, Desk!CommitPortal(w) PROVE DeskInv'
  <2>. DEFINE q == writers[w]
              s == q.speaker
              name == IF q.image = "" THEN q.loaded ELSE q.image
              shown == IF q.image = "" THEN avatar[s] ELSE q.image
  <2>1. q \in AtPortal BY <1>0, <1>17, DeskRequests DEF Desk!CommitPortal, Desk!Step
  <2>2. /\ s \in Speakers /\ s # Session /\ q.text \in Readings /\ q.link \in Links
        /\ name \in Portraits /\ shown \in Portraits
    BY <1>0, <2>1, DeskFacts DEF AtPortal, Readings
  <2>3. Desk!Become(w, Desk!Idle) /\ UNCHANGED <<revisions, mailLog>>
    BY <1>17 DEF Desk!CommitPortal, Desk!Step
  <2>4. \/ UNCHANGED <<text, desk, avatar>>
        \/ /\ text' = [text EXCEPT ![s] = q.text]
           /\ desk' = [desk EXCEPT ![s].social = q.link, ![s].headshot = name]
           /\ avatar' = [avatar EXCEPT ![s] = shown]
    BY <1>17 DEF Desk!CommitPortal
  <2>5. DOMAIN writers' = Writers /\ \A v \in Writers : IsDeskRequest(writers'[v])
    BY <1>0, <2>3, DeskBecome, DeskIdle
  <2>. DEFINE t == q.text
              l == q.link
  <2>6. t \in Readings /\ l \in Links BY <2>2
  <2>7. \/ UNCHANGED <<text, desk, avatar>>
        \/ /\ text' = [text EXCEPT ![s] = t]
           /\ desk' = [desk EXCEPT ![s].social = l, ![s].headshot = name]
           /\ avatar' = [avatar EXCEPT ![s] = shown]
    BY <2>4
  <2>. HIDE DEF t, l, s, name, shown, q
  <2>8. CASE UNCHANGED <<text, desk, avatar>> BY <1>0, <2>3, <2>5, <2>8, DeskQuiet
  <2>9. CASE /\ text' = [text EXCEPT ![s] = t]
             /\ desk' = [desk EXCEPT ![s].social = l, ![s].headshot = name]
             /\ avatar' = [avatar EXCEPT ![s] = shown]
    <3>1. /\ text' \in [Speakers \cup {Session} -> Readings \cup {Desk!Absent}]
          /\ text'[Session] = text[Session]
      BY <1>0, <2>2, <2>6, <2>9
    <3>2. avatar' \in [Speakers -> Portraits] BY <1>0, <2>2, <2>9
    <3>3. desk[s] \in DeskRows BY <1>0, <2>2
    <3>. DEFINE row == [desk[s] EXCEPT !.social = l, !.headshot = name]
    <3>4. row \in DeskRows BY <2>2, <2>6, <3>3 DEF DeskRows
    <3>5. desk' = [desk EXCEPT ![s] = row] BY <1>0, <2>2, <2>9
    <3>. HIDE DEF row
    <3>6. desk' \in [Speakers -> DeskRows] BY <1>0, <3>4, <3>5
    <3>. QED BY <1>0, <2>3, <2>5, <3>1, <3>2, <3>6, DeskQuiet
  <2>. QED BY <2>7, <2>8, <2>9
<1>18. ASSUME NEW t \in Texts, Desk!EditSession(t) PROVE DeskInv'
  <2>. DEFINE r == Desk!Revision(Session, "")
  <2>1. /\ revisions' = Append(revisions, r)
        /\ text' = [text EXCEPT ![Session] = t]
        /\ UNCHANGED <<desk, avatar, mailLog, writers>>
    BY <1>18 DEF Desk!EditSession
  <2>2. r \in Versions BY <1>0 DEF Desk!Revision, Versions, Portraits
  <2>3. t \in Readings BY DEF Readings
  <2>. HIDE DEF r
  <2>. QED BY <1>0, <2>1, <2>2, <2>3, DeskKeeps
<1>19. ASSUME NEW w \in Writers, NEW s \in Speakers, NEW t \in Texts,
              NEW image \in Images \cup {""}, Desk!BeginEdit(w, s, t, image)
       PROVE  DeskInv'
  <2>. DEFINE q == [pc |-> "edit", speaker |-> s, text |-> t, image |-> image,
                    avatar |-> avatar[s]]
  <2>1. IsDeskRequest(q) BY <1>0 DEF IsDeskRequest, Editing, Portraits, Readings
  <2>2. Desk!Become(w, q) /\ UNCHANGED <<text, desk, avatar, revisions, mailLog>>
    BY <1>19 DEF Desk!BeginEdit, Desk!Begin
  <2>. HIDE DEF q
  <2>3. DOMAIN writers' = Writers /\ \A v \in Writers : IsDeskRequest(writers'[v])
    BY <1>0, <2>1, <2>2, DeskBecome
  <2>. QED BY <1>0, <2>2, <2>3, DeskQuiet
<1>20. ASSUME NEW w \in Writers, Desk!CommitEdit(w) PROVE DeskInv'
  <2>. DEFINE q == writers[w]
  <2>1. q \in Editing BY <1>0, <1>20, DeskRequests DEF Desk!CommitEdit, Desk!Step
  <2>2. PICK s \in Speakers : s = q.speaker BY <2>1 DEF Editing
  <2>3. PICK t \in Readings : t = q.text BY <2>1 DEF Editing
  <2>4. q.avatar \in Portraits /\ q.image \in Portraits BY <2>1 DEF Editing
  <2>. DEFINE r == [Desk!Revision(s, q.avatar) EXCEPT !.text = Desk!Got(text[s], "")]
  <2>5. r \in Versions
    <3>1. Desk!Got(text[s], "") \in Readings BY <1>0, DeskFacts
    <3>. QED BY <2>4, <3>1 DEF Desk!Revision, Versions
  <2>6. /\ Desk!Become(w, Desk!Idle) /\ UNCHANGED mailLog
        /\ text' = [text EXCEPT ![s] = t]
        /\ \/ UNCHANGED <<desk, avatar>>
           \/ /\ desk' = [desk EXCEPT ![s] = [Desk!GotDesk(desk[s]) EXCEPT !.headshot = q.image]]
              /\ avatar' = [avatar EXCEPT ![s] = q.image]
    BY <1>20, <2>2, <2>3 DEF Desk!CommitEdit, Desk!Step
  <2>7. revisions' = Append(revisions, r)
    BY <1>20, <2>2 DEF Desk!CommitEdit, Desk!Revision
  <2>8. DOMAIN writers' = Writers /\ \A v \in Writers : IsDeskRequest(writers'[v])
    BY <1>0, <2>6, DeskBecome, DeskIdle
  <2>. DEFINE row == [Desk!GotDesk(desk[s]) EXCEPT !.headshot = q.image]
  <2>9. row \in DeskRows
    <3>1. Desk!GotDesk(desk[s]) \in DeskRows BY <1>0, DeskFacts
    <3>. QED BY <2>4, <3>1 DEF DeskRows
  <2>. HIDE DEF r, row
  <2>10. avatar' \in [Speakers -> Portraits] BY <1>0, <2>4, <2>6
  <2>11. desk' \in [Speakers -> DeskRows] BY <1>0, <2>6, <2>9 DEF row
  <2>. QED BY <1>0, <2>5, <2>6, <2>7, <2>8, <2>10, <2>11, DeskKeeps
<1>21. ASSUME NEW w \in Writers, NEW i \in DOMAIN revisions, Desk!BeginRestore(w, i)
       PROVE  DeskInv'
  <2>. DEFINE r == revisions[i]
              q == [pc |-> "restore", speaker |-> r.of, text |-> r.text,
                    image |-> r.image, avatar |-> avatar[r.of]]
  <2>1. r \in Versions BY <1>0
  <2>2. /\ r.of \in Speakers /\ Desk!Become(w, q)
        /\ UNCHANGED <<text, desk, avatar, revisions, mailLog>>
    BY <1>21 DEF Desk!BeginRestore, Desk!Begin
  <2>. HIDE DEF r
  <2>3. IsDeskRequest(q) BY <1>0, <2>1, <2>2 DEF IsDeskRequest, Editing, Versions
  <2>. HIDE DEF q
  <2>4. DOMAIN writers' = Writers /\ \A v \in Writers : IsDeskRequest(writers'[v])
    BY <1>0, <2>2, <2>3, DeskBecome
  <2>. QED BY <1>0, <2>2, <2>4, DeskQuiet
<1>22. ASSUME NEW w \in Writers, Desk!CommitRestore(w) PROVE DeskInv'
  <2>. DEFINE q == writers[w]
  <2>1. q \in Editing BY <1>0, <1>22, DeskRequests DEF Desk!CommitRestore, Desk!Step
  <2>2. PICK s \in Speakers : s = q.speaker BY <2>1 DEF Editing
  <2>3. PICK t \in Readings : t = q.text BY <2>1 DEF Editing
  <2>4. q.avatar \in Portraits /\ q.image \in Portraits BY <2>1 DEF Editing
  <2>. DEFINE r == [Desk!Revision(s, q.avatar) EXCEPT !.text = Desk!Got(text[s], "")]
  <2>5. r \in Versions
    <3>1. Desk!Got(text[s], "") \in Readings BY <1>0, DeskFacts
    <3>. QED BY <2>4, <3>1 DEF Desk!Revision, Versions
  <2>6. /\ Desk!Become(w, Desk!Idle) /\ UNCHANGED <<desk, mailLog>>
        /\ text' = [text EXCEPT ![s] = t]
        /\ avatar' = [avatar EXCEPT ![s] = IF q.image = "" THEN avatar[s] ELSE q.image]
    BY <1>22, <2>2, <2>3 DEF Desk!CommitRestore, Desk!Step
  <2>7. revisions' = Append(revisions, r)
    BY <1>22, <2>2 DEF Desk!CommitRestore, Desk!Revision
  <2>8. DOMAIN writers' = Writers /\ \A v \in Writers : IsDeskRequest(writers'[v])
    BY <1>0, <2>6, DeskBecome, DeskIdle
  <2>. HIDE DEF r
  <2>9. avatar' \in [Speakers -> Portraits] BY <1>0, <2>4, <2>6
  <2>. QED BY <1>0, <2>5, <2>6, <2>7, <2>8, <2>9, DeskKeeps
<1>23. ASSUME NEW i \in DOMAIN revisions, Desk!RestoreSession(i) PROVE DeskInv'
  <2>. DEFINE r == Desk!Revision(Session, "")
  <2>1. revisions[i] \in Versions BY <1>0
  <2>2. PICK t \in Readings : t = revisions[i].text BY <2>1 DEF Versions
  <2>3. /\ revisions' = Append(revisions, r)
        /\ text' = [text EXCEPT ![Session] = t]
        /\ UNCHANGED <<desk, avatar, mailLog, writers>>
    BY <1>23, <2>2 DEF Desk!RestoreSession
  <2>4. r \in Versions BY <1>0 DEF Desk!Revision, Versions, Portraits
  <2>. HIDE DEF r
  <2>. QED BY <1>0, <2>3, <2>4, DeskKeeps
<1>24. ASSUME NEW s \in Speakers, Desk!Assign(s) PROVE DeskInv'
  BY <1>0, <1>24, DeskQuiet DEF Desk!Assign
<1>25. ASSUME NEW w \in Writers, Desk!Crash(w) PROVE DeskInv'
  <2>1. /\ Desk!Become(w, Desk!Idle)
        /\ UNCHANGED <<text, desk, avatar, revisions, mailLog>>
    BY <1>25 DEF Desk!Crash
  <2>2. DOMAIN writers' = Writers /\ \A v \in Writers : IsDeskRequest(writers'[v])
    BY <1>0, <2>1, DeskBecome, DeskIdle
  <2>. QED BY <1>0, <2>1, <2>2, DeskQuiet
<1>. QED
  BY <1>1, <1>2, <1>3, <1>4, <1>5, <1>6, <1>7, <1>8, <1>9, <1>10, <1>11, <1>12, <1>13,
     <1>14, <1>15, <1>16, <1>17, <1>18, <1>19, <1>20, <1>21, <1>22, <1>23, <1>24, <1>25
  DEF Desk!Next

-----------------------------------------------------------------------------
(* The desk: what is kept.                                                   *)

\* The last version is x's as it was, and a speaker's is what a request kept that
\* ends with this step.
Keeps(x) ==
    /\ Desk!Last(revisions').of = x
    /\ Desk!Last(revisions').text = Desk!Got(text[x], "")
    /\ x \in Speakers => \E w \in Writers :
            /\ writers[w] # Desk!Idle /\ writers'[w] = Desk!Idle
            /\ \/ Desk!Last(revisions').image = avatar[x]
               \/ writers[w].avatar # avatar[x]

LEMMA LastKept ==
    ASSUME NEW S, revisions \in Seq(S), NEW r, revisions' = Append(revisions, r)
    PROVE  Desk!Last(revisions') = r
BY DEF Desk!Last

\* The content page of the session.
LEMMA SessionKept ==
    ASSUME DeskInv, NEW t, text' = [text EXCEPT ![Session] = t],
           revisions' = Append(revisions, Desk!Revision(Session, "")),
           NEW x \in DOMAIN text, text'[x] # text[x]
    PROVE  Keeps(x)
<1>1. x = Session /\ x \notin Speakers BY DeskFacts
<1>. DEFINE r == Desk!Revision(Session, "")
<1>2. r.of = Session /\ r.text = text[Session] BY DEF Desk!Revision
<1>3. Desk!Last(revisions') = r BY LastKept DEF DeskInv
<1>. HIDE DEF r
<1>4. /\ Desk!Last(revisions').of = x
      /\ Desk!Last(revisions').text = Desk!Got(text[x], "")
  BY <1>1, <1>2, <1>3 DEF DeskInv, Desk!Got
<1>. QED BY <1>1, <1>4 DEF Keeps

\* The content page of a speaker.
LEMMA SpeakerKept ==
    ASSUME DeskInv, NEW w \in Writers, writers[w].pc \in {"edit", "restore"},
           Desk!Become(w, Desk!Idle),
           NEW t, text' = [text EXCEPT ![writers[w].speaker] = t],
           revisions' = Append(revisions,
               [Desk!Revision(writers[w].speaker, writers[w].avatar) EXCEPT
                   !.text = Desk!Got(text[writers[w].speaker], "")]),
           NEW x \in DOMAIN text, text'[x] # text[x]
    PROVE  Keeps(x)
<1>1. x = writers[w].speaker OBVIOUS
<1>2. Desk!Last(revisions') = [Desk!Revision(x, writers[w].avatar) EXCEPT
                                  !.text = Desk!Got(text[x], "")]
  BY <1>1, LastKept DEF DeskInv
<1>3. /\ Desk!Last(revisions').of = x
      /\ Desk!Last(revisions').text = Desk!Got(text[x], "")
      /\ Desk!Last(revisions').image = writers[w].avatar
  BY <1>2 DEF Desk!Revision
<1>4. writers[w] # Desk!Idle
  <2>1. Desk!Idle.pc = "idle" BY DEF Desk!Idle
  <2>. QED BY <2>1
<1>5. writers'[w] = Desk!Idle BY DEF Desk!Become, DeskInv
<1>. QED BY <1>3, <1>4, <1>5 DEF Keeps

LEMMA DeskKeepsPrior ==
    ASSUME DeskInv, [Desk!Next]_(Desk!vars), NEW x \in DOMAIN text,
           text'[x] # text[x], revisions' # revisions
    PROVE  Keeps(x)
<1>. USE DEF Desk!people
<1>1. CASE UNCHANGED Desk!vars BY <1>1 DEF Desk!vars
<1>2. ASSUME NEW w \in Writers, Desk!CommitEdit(w) PROVE Keeps(x)
  BY <1>2, SpeakerKept DEF Desk!CommitEdit, Desk!Step, Desk!Revision
<1>3. ASSUME NEW w \in Writers, Desk!CommitRestore(w) PROVE Keeps(x)
  BY <1>3, SpeakerKept DEF Desk!CommitRestore, Desk!Step, Desk!Revision
<1>4. ASSUME NEW t \in Texts, Desk!EditSession(t) PROVE Keeps(x)
  BY <1>4, SessionKept DEF Desk!EditSession
<1>5. ASSUME NEW i \in DOMAIN revisions, Desk!RestoreSession(i) PROVE Keeps(x)
  BY <1>5, SessionKept DEF Desk!RestoreSession
<1>6. ASSUME NEW w \in Writers, NEW s \in Speakers, NEW t \in Texts,
             \/ Desk!BeginCreate(w, s, t)
             \/ \E link \in Links, status \in DeskStatuses : Desk!BeginUpdate(w, s, t, status, link)
             \/ \E image \in Images \cup {""} :
                 \/ \E link \in Links : Desk!BeginPortal(w, s, t, link, image)
                 \/ Desk!BeginEdit(w, s, t, image)
      PROVE  FALSE
  BY <1>6 DEF Desk!BeginCreate, Desk!BeginUpdate, Desk!BeginPortal, Desk!BeginEdit
<1>7. ASSUME NEW w \in Writers, NEW s \in Speakers,
             \/ \E file \in BOOLEAN : Desk!BeginTask(w, s, file)
             \/ Desk!BeginRemove(w, s) \/ Desk!BeginMail(w, s)
      PROVE  FALSE
  BY <1>7 DEF Desk!BeginTask, Desk!BeginRemove, Desk!BeginMail
<1>8. ASSUME NEW w \in Writers,
             \/ \E i \in DOMAIN revisions : Desk!BeginRestore(w, i)
             \/ \E taken, raised \in BOOLEAN : Desk!HandOver(w, taken, raised)
             \/ Desk!CommitCreate(w) \/ Desk!SaveBiography(w) \/ Desk!SaveRow(w)
             \/ Desk!CommitRemove(w) \/ Desk!CommitTask(w) \/ Desk!RecordMail(w)
             \/ Desk!LoadPortal(w) \/ Desk!CommitPortal(w) \/ Desk!Crash(w)
      PROVE  FALSE
  BY <1>8 DEF Desk!BeginRestore, Desk!HandOver, Desk!CommitCreate, Desk!SaveBiography,
       Desk!SaveRow, Desk!CommitRemove, Desk!CommitTask, Desk!RecordMail, Desk!LoadPortal,
       Desk!CommitPortal, Desk!Crash
<1>9. ASSUME NEW s \in Speakers,
             \/ Desk!Assign(s)
             \/ \E status \in DeskStatuses \cup {""} : Desk!Import(s, status)
      PROVE  FALSE
  BY <1>9 DEF Desk!Assign, Desk!Import
<1>. QED BY <1>1, <1>2, <1>3, <1>4, <1>5, <1>6, <1>7, <1>8, <1>9 DEF Desk!Next

\* The desk's rows have their types and no version that is kept stands for a missing
\* row, so that every one of them can be restored.
THEOREM DeskIsSound == PeopleSpec => []DeskInv
<1>1. PeopleInit => DeskInv BY DeskStart DEF PeopleInit
<1>2. DeskInv /\ [PeopleNext]_peopleVars => DeskInv' BY PartSteps, DeskStep
<1>. QED BY <1>1, <1>2, PTL DEF PeopleSpec, peopleVars

\* "The prior version remains restorable": whatever else is written in between, a
\* content page that replaces a text keeps the very text it replaces.
THEOREM PriorVersionIsRestorable == PeopleSpec => PriorVersionIsKept
<1>. DEFINE A == \A x \in DOMAIN text :
                    text'[x] # text[x] /\ revisions' # revisions => Keeps(x)
<1>1. DeskInv /\ [PeopleNext]_peopleVars => [A]_(Desk!vars)
  BY PartSteps, DeskKeepsPrior
<1>2. [][A]_(Desk!vars) => PriorVersionIsKept
  BY DEF PriorVersionIsKept, Desk!PriorVersionIsKept, Keeps
<1>. HIDE DEF A
<1>. QED BY <1>1, <1>2, DeskIsSound, PTL DEF PeopleSpec, peopleVars

-----------------------------------------------------------------------------
(* The contacts: no merge closes a circle, and who is shown has a card, or   *)
(* is known to have lost it.                                                 *)

ContactRows == [facts : SUBSET Facts, into : Nat]

Saving    == [pc : {"save"}, contact : Crm!Ids, facts : SUBSET Facts]
Carding   == [pc : {"card"}, contact : Crm!Ids]
Importing == [pc : {"import"}, facts : SUBSET Facts]
Merging   == {q \in [pc : {"merge"}, primary : Crm!Ids, duplicate : Crm!Ids,
                     facts : SUBSET Facts] : q.primary # q.duplicate}
Moving    == [pc : {"move", "note"}, contact : Crm!Ids, from : Stages, to : Stages]

\* What a request holds between its commits.
IsCrmRequest(q) ==
    \/ q = Crm!Idle \/ q.pc \in {"link", "outreach"}
    \/ q \in Saving \cup Carding \cup Importing \cup Merging \cup Moving

CrmTypes ==
    /\ contacts \in Seq(ContactRows)
    /\ \A c \in DOMAIN cards : cards[c] \in Stages
    /\ DOMAIN keepers = Keepers
    /\ \A w \in Keepers : IsCrmRequest(keepers[w])

NoCircle == \A S \in (SUBSET Crm!Ids) \ {{}} : \E c \in S : contacts[c].into \notin S

\* The card of c is still to come.
CardDue(c) == \E w \in Keepers : keepers[w].pc = "card" /\ keepers[w].contact = c
Listed     == \A c \in Crm!Active : c \in DOMAIN cards \/ c \in unlisted \/ CardDue(c)

CrmInv == CrmTypes /\ NoCircle /\ Listed

LEMMA CrmInvShows == ASSUME CrmInv PROVE Crm!NobodyDisappears
<1>1. \A S \in (SUBSET Crm!Ids) \ {{}} : \E c \in S : contacts[c].into \notin S
  BY DEF CrmInv, NoCircle
<1>2. ASSUME NEW c \in Crm!Active \ unlisted
      PROVE  \/ \E stage \in Stages : c \in Crm!Column(stage)
             \/ \E w \in Keepers : keepers[w].pc = "card" /\ keepers[w].contact = c
  <2>1. c \in DOMAIN cards \/ CardDue(c) BY DEF CrmInv, Listed
  <2>2. ASSUME c \in DOMAIN cards PROVE \E stage \in Stages : c \in Crm!Column(stage)
    BY <2>2 DEF Crm!Column, CrmInv, CrmTypes
  <2>. QED BY <2>1, <2>2 DEF CardDue
<1>. QED BY <1>1, <1>2 DEF Crm!NobodyDisappears

LEMMA CrmFacts ==
    /\ "email" \in Facts /\ "prospect" \in Stages /\ Known \in Nat
    /\ Crm!Nobody = 0 /\ Crm!Idle.pc = "idle"
BY PeopleAssumption DEF Crm!ContactsAssumption, Crm!Nobody, Crm!Idle

LEMMA CrmRequests ==
    ASSUME NEW q, IsCrmRequest(q)
    PROVE  /\ q.pc = "save" => q \in Saving
           /\ q.pc = "card" => q \in Carding
           /\ q.pc = "import" => q \in Importing
           /\ q.pc = "merge" => q \in Merging
           /\ q.pc \in {"move", "note"} => q \in Moving
BY DEF IsCrmRequest, Crm!Idle, Saving, Carding, Importing, Merging, Moving

LEMMA CrmIdle == IsCrmRequest(Crm!Idle)
BY DEF IsCrmRequest

\* Contacts are never deleted, so requests keep what they hold.
LEMMA CrmRequestStays ==
    ASSUME NEW q, IsCrmRequest(q), Crm!Ids \subseteq Crm!Ids'
    PROVE  IsCrmRequest(q)'
BY DEF IsCrmRequest, Saving, Carding, Importing, Merging, Moving

LEMMA CrmBecome ==
    ASSUME CrmTypes, Crm!Ids \subseteq Crm!Ids',
           NEW w \in Keepers, NEW q, IsCrmRequest(q)', Crm!Become(w, q)
    PROVE  /\ DOMAIN keepers' = Keepers
           /\ \A v \in Keepers : IsCrmRequest(keepers[v])'
           /\ keepers'[w] = q
           /\ \A v \in Keepers : v # w => keepers'[v] = keepers[v]
<1>1. keepers' = [keepers EXCEPT ![w] = q] BY DEF Crm!Become
<1>2. /\ DOMAIN keepers' = Keepers /\ keepers'[w] = q
      /\ \A v \in Keepers : v # w => keepers'[v] = keepers[v]
  BY <1>1 DEF CrmTypes
<1>3. ASSUME NEW v \in Keepers PROVE IsCrmRequest(keepers[v])'
  <2>1. PICK p : p = keepers'[v] OBVIOUS
  <2>2. IsCrmRequest(p)'
    <3>1. CASE v = w BY <1>2, <2>1, <3>1
    <3>2. CASE v # w
      <4>1. p = keepers[v] BY <1>2, <2>1, <3>2
      <4>2. IsCrmRequest(keepers[v]) BY DEF CrmTypes
      <4>3. IsCrmRequest(p) BY <4>1, <4>2
      <4>. QED BY <4>3, CrmRequestStays
    <3>. QED BY <3>1, <3>2
  <2>. QED BY <2>1, <2>2
<1>. QED BY <1>2, <1>3

LEMMA CrmStart == Crm!Init => CrmInv
<1>. SUFFICES ASSUME Crm!Init PROVE CrmInv
  OBVIOUS
<1>1. /\ contacts = [c \in 1..Known |-> [facts |-> {"email"}, into |-> 0]]
      /\ cards = [c \in 1..Known |-> "prospect"]
      /\ DOMAIN keepers = Keepers /\ \A w \in Keepers : keepers[w] = Crm!Idle
  BY DEF Crm!Init, Crm!New, Crm!Nobody
<1>2. contacts \in Seq(ContactRows)
  <2>1. [facts |-> {"email"}, into |-> 0] \in ContactRows BY CrmFacts DEF ContactRows
  <2>. QED BY <1>1, <2>1, CrmFacts
<1>3. \A w \in Keepers : IsCrmRequest(keepers[w]) BY <1>1, CrmIdle
<1>4. CrmTypes BY <1>1, <1>2, <1>3, CrmFacts DEF CrmTypes
<1>5. NoCircle
  <2>1. \A c \in 1..Known : contacts[c].into = 0 BY <1>1
  <2>. QED BY <1>1, <2>1, CrmFacts DEF NoCircle, Crm!Ids
<1>6. Listed BY <1>1 DEF Listed, Crm!Active, Crm!Ids
<1>. QED BY <1>4, <1>5, <1>6 DEF CrmInv

\* A step of w's request that leaves the contacts alone.
LEMMA CrmQuiet ==
    ASSUME CrmInv, NEW w \in Keepers, keepers[w].pc # "card",
           NEW q, IsCrmRequest(q)', Crm!Become(w, q),
           UNCHANGED <<contacts, unlisted>>,
           DOMAIN cards \subseteq DOMAIN cards', \A c \in DOMAIN cards' : cards'[c] \in Stages
    PROVE  CrmInv'
<1>1. CrmTypes /\ Crm!Ids' = Crm!Ids BY DEF CrmInv, Crm!Ids
<1>2. /\ DOMAIN keepers' = Keepers
      /\ \A v \in Keepers : IsCrmRequest(keepers[v])'
      /\ \A v \in Keepers : v # w => keepers'[v] = keepers[v]
  BY <1>1, CrmBecome
<1>3. CrmTypes' BY <1>1, <1>2 DEF CrmTypes
<1>4. NoCircle' BY DEF CrmInv, NoCircle, Crm!Ids
<1>5. Listed'
  <2>1. ASSUME NEW c \in Crm!Active'
        PROVE  c \in DOMAIN cards' \/ c \in unlisted' \/ CardDue(c)'
    <3>1. c \in Crm!Active BY <2>1 DEF Crm!Active, Crm!Ids
    <3>2. c \in DOMAIN cards \/ c \in unlisted \/ CardDue(c) BY <3>1 DEF CrmInv, Listed
    <3>3. CardDue(c) => CardDue(c)' BY <1>2 DEF CardDue
    <3>. QED BY <3>2, <3>3
  <2>. QED BY <2>1 DEF Listed
<1>. QED BY <1>3, <1>4, <1>5 DEF CrmInv

\* One more contact, shown and merged into nobody.
LEMMA CrmAppend ==
    ASSUME CrmInv, NEW facts \in SUBSET Facts, contacts' = Append(contacts, Crm!New(facts))
    PROVE  /\ contacts' \in Seq(ContactRows)
           /\ Crm!Ids' = Crm!Ids \cup {Len(contacts) + 1} /\ Len(contacts) + 1 \notin Crm!Ids
           /\ NoCircle'
           /\ Crm!Active' = Crm!Active \cup {Len(contacts) + 1}
<1>. DEFINE r == Crm!New(facts)
            n == Len(contacts) + 1
<1>1. r \in ContactRows /\ r.into = 0 BY DEF Crm!New, Crm!Nobody, ContactRows
<1>2. contacts \in Seq(ContactRows) BY DEF CrmInv, CrmTypes
<1>3. contacts' = Append(contacts, r) OBVIOUS
<1>. HIDE DEF r
<1>4. /\ contacts' \in Seq(ContactRows)
      /\ Crm!Ids = 1..Len(contacts) /\ Crm!Ids' = 1..n /\ n \in Nat
      /\ Len(contacts) \in Nat
      /\ contacts'[n] = r /\ \A c \in Crm!Ids : contacts'[c] = contacts[c]
  BY <1>1, <1>2, <1>3 DEF Crm!Ids
<1>5. Crm!Ids' = Crm!Ids \cup {n} /\ n \notin Crm!Ids /\ 0 \notin Crm!Ids' BY <1>4
<1>. HIDE DEF n
<1>6. NoCircle'
  <2>1. ASSUME NEW S \in (SUBSET Crm!Ids') \ {{}} PROVE \E c \in S : contacts'[c].into \notin S
    <3>1. CASE n \in S BY <1>1, <1>4, <1>5, <3>1
    <3>2. CASE n \notin S
      <4>1. S \in (SUBSET Crm!Ids) \ {{}} BY <1>5, <3>2
      <4>2. PICK c \in S : contacts[c].into \notin S BY <4>1 DEF CrmInv, NoCircle
      <4>. QED BY <1>4, <4>1, <4>2
    <3>. QED BY <3>1, <3>2
  <2>. QED BY <2>1 DEF NoCircle
<1>7. Crm!Active' = Crm!Active \cup {n}
  BY <1>1, <1>4, <1>5 DEF Crm!Active, Crm!Nobody
<1>. QED BY <1>4, <1>5, <1>6, <1>7 DEF n

LEMMA WithCardAdds ==
    ASSUME \A d \in DOMAIN cards : cards[d] \in Stages, NEW c, NEW stage \in Stages,
           cards' = Crm!WithCard(c, stage)
    PROVE  /\ DOMAIN cards' = DOMAIN cards \cup {c}
           /\ \A d \in DOMAIN cards' : cards'[d] \in Stages
BY DEF Crm!WithCard

LEMMA StageTyped ==
    ASSUME \A d \in DOMAIN cards : cards[d] \in Stages, NEW c
    PROVE  Crm!StageOf(c) \in Stages
BY CrmFacts DEF Crm!StageOf

LEMMA SaveStep ==
    ASSUME CrmInv, NEW w \in Keepers, Crm!CommitSave(w)
    PROVE  CrmInv'
<1>0. /\ CrmTypes /\ contacts \in Seq(ContactRows) /\ DOMAIN keepers = Keepers
      /\ Crm!Ids = 1..Len(contacts) /\ Len(contacts) \in Nat
  BY DEF CrmInv, CrmTypes, Crm!Ids
<1>1. keepers[w] \in Saving
  BY <1>0, CrmRequests DEF CrmTypes, Crm!CommitSave, Crm!Step
<1>2. PICK c \in Crm!Ids : c = keepers[w].contact BY <1>1 DEF Saving
<1>3. PICK facts \in SUBSET Facts : facts = keepers[w].facts BY <1>1 DEF Saving
<1>4. /\ keepers[w].pc = "save" /\ Crm!Become(w, Crm!Idle)
      /\ contacts' = [contacts EXCEPT ![c] = Crm!New(facts)]
      /\ unlisted' = (IF c \in Crm!Active THEN unlisted ELSE unlisted \cup {c})
      /\ UNCHANGED cards
  BY <1>2, <1>3 DEF Crm!CommitSave, Crm!Step, Crm!about
<1>5. Crm!New(facts) \in ContactRows /\ Crm!New(facts).into = 0
  BY DEF Crm!New, Crm!Nobody, ContactRows
<1>6. PICK r \in ContactRows : r = Crm!New(facts) BY <1>5
<1>7. contacts' = [contacts EXCEPT ![c] = r] /\ r.into = 0 BY <1>4, <1>5, <1>6
<1>8. /\ contacts' \in Seq(ContactRows) /\ Crm!Ids' = Crm!Ids
      /\ contacts'[c] = r /\ \A d \in Crm!Ids : d # c => contacts'[d] = contacts[d]
  BY <1>0, <1>7 DEF Crm!Ids
<1>9. /\ DOMAIN keepers' = Keepers
      /\ \A v \in Keepers : IsCrmRequest(keepers[v])'
      /\ \A v \in Keepers : v # w => keepers'[v] = keepers[v]
  <2>1. IsCrmRequest(Crm!Idle)' BY DEF IsCrmRequest
  <2>. QED BY <1>0, <1>4, <1>8, <2>1, CrmBecome
<1>10. CrmTypes' BY <1>0, <1>4, <1>8, <1>9 DEF CrmTypes
<1>11. NoCircle'
  <2>1. ASSUME NEW S \in (SUBSET Crm!Ids') \ {{}} PROVE \E d \in S : contacts'[d].into \notin S
    <3>1. 0 \notin S BY <1>0, <1>8
    <3>2. CASE c \in S BY <1>7, <1>8, <3>1, <3>2
    <3>3. CASE c \notin S
      <4>1. PICK d \in S : contacts[d].into \notin S BY <1>8 DEF CrmInv, NoCircle
      <4>. QED BY <1>8, <3>3, <4>1
    <3>. QED BY <3>2, <3>3
  <2>. QED BY <2>1 DEF NoCircle
<1>12. Listed'
  <2>1. ASSUME NEW d \in Crm!Active'
        PROVE  d \in DOMAIN cards' \/ d \in unlisted' \/ CardDue(d)'
    <3>1. d = c \/ d \in Crm!Active BY <1>8, <2>1 DEF Crm!Active
    <3>2. d = c => d \in Crm!Active \/ d \in unlisted' BY <1>4
    <3>3. d \in Crm!Active => d \in DOMAIN cards \/ d \in unlisted \/ CardDue(d)
      BY DEF CrmInv, Listed
    <3>4. CardDue(d) => CardDue(d)' BY <1>4, <1>9 DEF CardDue
    <3>. QED BY <1>4, <3>1, <3>2, <3>3, <3>4
  <2>. QED BY <2>1 DEF Listed
<1>. QED BY <1>10, <1>11, <1>12 DEF CrmInv

LEMMA MergeStep ==
    ASSUME CrmInv, NEW w \in Keepers, Crm!CommitMerge(w)
    PROVE  CrmInv'
<1>0. /\ CrmTypes /\ contacts \in Seq(ContactRows) /\ DOMAIN keepers = Keepers
      /\ Crm!Ids = 1..Len(contacts) /\ Len(contacts) \in Nat
      /\ \A c \in DOMAIN cards : cards[c] \in Stages
  BY DEF CrmInv, CrmTypes, Crm!Ids
<1>1. keepers[w] \in Merging
  BY <1>0, CrmRequests DEF CrmTypes, Crm!CommitMerge, Crm!Step
<1>2. PICK p \in Crm!Ids : p = keepers[w].primary BY <1>1 DEF Merging
<1>3. PICK d \in Crm!Ids : d = keepers[w].duplicate BY <1>1 DEF Merging
<1>4. PICK facts \in SUBSET Facts : facts = keepers[w].facts BY <1>1 DEF Merging
<1>5. p # d BY <1>1, <1>2, <1>3 DEF Merging
<1>6. /\ keepers[w].pc = "merge" /\ Crm!Become(w, Crm!Idle)
      /\ contacts' = Crm!Merged(p, d, facts)
      /\ cards' = [c \in (DOMAIN cards \cup {p}) \ {d} |-> Crm!StageOf(c)]
      /\ UNCHANGED unlisted
  BY <1>2, <1>3, <1>4 DEF Crm!CommitMerge, Crm!Step
<1>7. PICK r \in ContactRows : r = Crm!New(facts) /\ r.into = 0
  <2>1. Crm!New(facts) \in ContactRows /\ Crm!New(facts).into = 0
    BY DEF Crm!New, Crm!Nobody, ContactRows
  <2>. QED BY <2>1
<1>8. PICK s \in ContactRows : s = [contacts[d] EXCEPT !.into = p] /\ s.into = p
  <2>1. contacts[d] \in ContactRows /\ p \in Nat BY <1>0
  <2>2. /\ [contacts[d] EXCEPT !.into = p] \in ContactRows
        /\ [contacts[d] EXCEPT !.into = p].into = p
    BY <2>1 DEF ContactRows
  <2>. QED BY <2>2
<1>9. contacts' = [c \in DOMAIN contacts |-> IF c = d THEN s ELSE IF c = p THEN r ELSE contacts[c]]
  BY <1>0, <1>5, <1>6, <1>7, <1>8 DEF Crm!Merged, Crm!Ids
<1>10. /\ contacts' \in Seq(ContactRows) /\ Crm!Ids' = Crm!Ids
       /\ contacts'[p] = r /\ contacts'[d] = s
       /\ \A c \in Crm!Ids : c # p /\ c # d => contacts'[c] = contacts[c]
  <2>1. \A c \in 1..Len(contacts) : contacts[c] \in ContactRows BY <1>0
  <2>2. contacts' = [c \in 1..Len(contacts) |->
                        IF c = d THEN s ELSE IF c = p THEN r ELSE contacts[c]]
    BY <1>0, <1>9
  <2>. QED BY <1>0, <1>5, <2>1, <2>2 DEF Crm!Ids
<1>11. /\ DOMAIN keepers' = Keepers
       /\ \A v \in Keepers : IsCrmRequest(keepers[v])'
       /\ \A v \in Keepers : v # w => keepers'[v] = keepers[v]
  <2>1. IsCrmRequest(Crm!Idle)' BY DEF IsCrmRequest
  <2>. QED BY <1>0, <1>6, <1>10, <2>1, CrmBecome
<1>12. \A c \in DOMAIN cards' : cards'[c] \in Stages BY <1>0, <1>6, StageTyped
<1>13. CrmTypes' BY <1>10, <1>11, <1>12 DEF CrmTypes
<1>14. NoCircle'
  <2>1. ASSUME NEW S \in (SUBSET Crm!Ids') \ {{}} PROVE \E c \in S : contacts'[c].into \notin S
    <3>1. 0 \notin S BY <1>0, <1>10
    <3>2. CASE p \in S BY <1>7, <1>10, <3>1, <3>2
    <3>3. CASE p \notin S /\ d \in S BY <1>8, <1>10, <3>3
    <3>4. CASE p \notin S /\ d \notin S
      <4>1. PICK c \in S : contacts[c].into \notin S BY <1>10 DEF CrmInv, NoCircle
      <4>. QED BY <1>10, <3>4, <4>1
    <3>. QED BY <3>2, <3>3, <3>4
  <2>. QED BY <2>1 DEF NoCircle
<1>15. Listed'
  <2>1. ASSUME NEW c \in Crm!Active'
        PROVE  c \in DOMAIN cards' \/ c \in unlisted' \/ CardDue(c)'
    <3>1. c # d
      <4>1. contacts'[c].into = 0 BY <2>1 DEF Crm!Active, Crm!Nobody
      <4>2. contacts'[d].into # 0 BY <1>0, <1>8, <1>10
      <4>. QED BY <4>1, <4>2
    <3>2. c = p \/ c \in Crm!Active BY <1>10, <2>1, <3>1 DEF Crm!Active
    <3>3. c = p => c \in DOMAIN cards' BY <1>5, <1>6
    <3>4. c \in Crm!Active => c \in DOMAIN cards \/ c \in unlisted \/ CardDue(c)
      BY DEF CrmInv, Listed
    <3>5. c \in DOMAIN cards => c \in DOMAIN cards' BY <1>6, <3>1
    <3>6. CardDue(c) => CardDue(c)' BY <1>6, <1>11 DEF CardDue
    <3>. QED BY <1>6, <3>2, <3>3, <3>4, <3>5, <3>6
  <2>. QED BY <2>1 DEF Listed
<1>. QED BY <1>13, <1>14, <1>15 DEF CrmInv

LEMMA LeastNumber ==
    ASSUME NEW S \in SUBSET Nat, S # {}
    PROVE  \E m \in S : \A n \in S : m <= n
<1>1. PICK m \in S : \A n \in S : ~(<<n, m>> \in OpToRel(<, Nat))
  BY NatLessThanWellFounded, WFMin
<1>2. \A n \in S : n \in Nat /\ m \in Nat OBVIOUS
<1>3. \A n \in S : ~(n < m) BY <1>1, <1>2, Zenon DEF OpToRel
<1>. QED BY <1>2, <1>3

LEMMA ContactsStep ==
    ASSUME CrmInv, [Crm!Next]_(Crm!vars)
    PROVE  CrmInv'
<1>0. /\ CrmTypes /\ contacts \in Seq(ContactRows) /\ DOMAIN keepers = Keepers
      /\ Crm!Ids = 1..Len(contacts) /\ Len(contacts) \in Nat
      /\ \A c \in DOMAIN cards : cards[c] \in Stages
  BY DEF CrmInv, CrmTypes, Crm!Ids
<1>. USE DEF Crm!about
<1>1. CASE UNCHANGED Crm!vars
  BY <1>1
  DEF Crm!vars, CrmInv, CrmTypes, NoCircle, Listed, CardDue, Crm!Active, Crm!Ids, IsCrmRequest,
      Saving, Carding, Importing, Merging, Moving
\* A request that begins, on contacts that stay as they are.
<1>2. ASSUME NEW w \in Keepers, NEW q, IsCrmRequest(q), Crm!Begin(w, q), UNCHANGED cards
      PROVE  CrmInv'
  <2>1. /\ keepers[w].pc # "card" /\ Crm!Become(w, q)
        /\ UNCHANGED <<contacts, unlisted>>
    BY <1>2, CrmFacts DEF Crm!Begin
  <2>2. IsCrmRequest(q)' BY <1>2, <2>1, CrmRequestStays DEF Crm!Ids
  <2>. QED BY <1>0, <1>2, <2>1, <2>2, CrmQuiet
<1>3. ASSUME NEW w \in Keepers, NEW facts \in SUBSET Facts, NEW c \in Crm!Ids,
             Crm!BeginSave(w, c, facts)
      PROVE  CrmInv'
  <2>. DEFINE q == [pc |-> "save", contact |-> c, facts |-> facts]
  <2>1. IsCrmRequest(q) BY DEF IsCrmRequest, Saving
  <2>2. Crm!Begin(w, q) /\ UNCHANGED cards BY <1>3 DEF Crm!BeginSave
  <2>. HIDE DEF q
  <2>. QED BY <1>2, <2>1, <2>2
<1>4. ASSUME NEW w \in Keepers, Crm!CommitSave(w) PROVE CrmInv'
  BY <1>4, SaveStep
<1>5. ASSUME NEW w \in Keepers, NEW facts \in SUBSET Facts, Crm!CreateContact(w, facts)
      PROVE  CrmInv'
  <2>. DEFINE n == Len(contacts) + 1
              q == [pc |-> "card", contact |-> n]
  <2>1. /\ keepers[w] = Crm!Idle /\ contacts' = Append(contacts, Crm!New(facts))
        /\ Crm!Become(w, q) /\ UNCHANGED <<cards, unlisted>>
    BY <1>5 DEF Crm!CreateContact
  <2>2. /\ contacts' \in Seq(ContactRows) /\ NoCircle'
        /\ Crm!Ids' = Crm!Ids \cup {n} /\ n \notin Crm!Ids
        /\ Crm!Active' = Crm!Active \cup {n}
    BY <2>1, CrmAppend
  <2>3. q.pc = "card" /\ q.contact = n OBVIOUS
  <2>5. PICK p : p = q OBVIOUS
  <2>6. PICK k : k = n OBVIOUS
  <2>7. /\ p.pc = "card" /\ p.contact = k /\ Crm!Become(w, p)
        /\ Crm!Active' = Crm!Active \cup {k}
    BY <2>1, <2>2, <2>3, <2>5, <2>6
  <2>8. IsCrmRequest(p)'
    <3>1. [pc |-> "card", contact |-> k] \in [pc : {"card"}, contact : Crm!Ids'] BY <2>2, <2>6
    <3>2. p = [pc |-> "card", contact |-> k] BY <2>5, <2>6
    <3>. QED BY <3>1, <3>2 DEF IsCrmRequest, Carding
  <2>9. /\ DOMAIN keepers' = Keepers
        /\ \A v \in Keepers : IsCrmRequest(keepers[v])'
        /\ keepers'[w] = p /\ \A v \in Keepers : v # w => keepers'[v] = keepers[v]
    BY <1>0, <2>2, <2>7, <2>8, CrmBecome
  <2>10. CrmTypes' BY <1>0, <2>1, <2>2, <2>9 DEF CrmTypes
  <2>11. Listed'
    <3>1. ASSUME NEW c \in Crm!Active'
          PROVE  c \in DOMAIN cards' \/ c \in unlisted' \/ CardDue(c)'
      <4>1. CASE c = k BY <2>7, <2>9, <4>1 DEF CardDue
      <4>2. CASE c \in Crm!Active
        <5>1. c \in DOMAIN cards \/ c \in unlisted \/ CardDue(c) BY <4>2 DEF CrmInv, Listed
        <5>2. CardDue(c) => CardDue(c)' BY <2>1, <2>9, CrmFacts DEF CardDue
        <5>. QED BY <2>1, <5>1, <5>2
      <4>. QED BY <2>7, <4>1, <4>2
    <3>. QED BY <3>1 DEF Listed
  <2>. QED BY <2>2, <2>10, <2>11 DEF CrmInv
<1>6. ASSUME NEW w \in Keepers, Crm!CreateCard(w) PROVE CrmInv'
  <2>1. keepers[w] \in Carding
    BY <1>0, <1>6, CrmRequests DEF CrmTypes, Crm!CreateCard, Crm!Step
  <2>2. PICK c \in Crm!Ids : c = keepers[w].contact BY <2>1 DEF Carding
  <2>3. PICK stage \in Stages : stage = Crm!StageOf(c) BY <1>0, StageTyped
  <2>4. /\ Crm!Become(w, Crm!Idle) /\ cards' = Crm!WithCard(c, stage)
        /\ UNCHANGED <<contacts, unlisted>>
    BY <1>6, <2>2, <2>3 DEF Crm!CreateCard, Crm!Step
  <2>5. /\ DOMAIN cards' = DOMAIN cards \cup {c} /\ \A d \in DOMAIN cards' : cards'[d] \in Stages
    BY <1>0, <2>4, WithCardAdds
  <2>6. /\ DOMAIN keepers' = Keepers
        /\ \A v \in Keepers : IsCrmRequest(keepers[v])'
        /\ \A v \in Keepers : v # w => keepers'[v] = keepers[v]
    <3>1. IsCrmRequest(Crm!Idle)' BY DEF IsCrmRequest
    <3>2. Crm!Ids \subseteq Crm!Ids' BY <2>4 DEF Crm!Ids
    <3>. QED BY <1>0, <2>4, <3>1, <3>2, CrmBecome
  <2>7. CrmTypes' BY <1>0, <2>4, <2>5, <2>6 DEF CrmTypes
  <2>8. NoCircle' BY <2>4 DEF CrmInv, NoCircle, Crm!Ids
  <2>9. Listed'
    <3>1. ASSUME NEW d \in Crm!Active'
          PROVE  d \in DOMAIN cards' \/ d \in unlisted' \/ CardDue(d)'
      <4>1. d \in Crm!Active BY <2>4, <3>1 DEF Crm!Active, Crm!Ids
      <4>2. d \in DOMAIN cards \/ d \in unlisted \/ CardDue(d) BY <4>1 DEF CrmInv, Listed
      <4>3. CardDue(d) => d = c \/ CardDue(d)' BY <2>2, <2>6 DEF CardDue
      <4>. QED BY <2>4, <2>5, <4>2, <4>3
    <3>. QED BY <3>1 DEF Listed
  <2>. QED BY <2>7, <2>8, <2>9 DEF CrmInv
<1>7. ASSUME NEW w \in Keepers, NEW facts \in SUBSET Facts, Crm!BeginImport(w, facts)
      PROVE  CrmInv'
  <2>. DEFINE found == {c \in Crm!Active : "email" \in facts \cap contacts[c].facts}
              save == [pc |-> "save", contact |-> Crm!Lowest(found),
                       facts |-> contacts[Crm!Lowest(found)].facts \cup facts]
              new == [pc |-> "import", facts |-> facts]
  <2>1. CASE found # {}
    <3>1. found \subseteq Nat BY <1>0 DEF Crm!Active
    <3>2. PICK k \in found : \A d \in found : k <= d BY <2>1, <3>1, LeastNumber
    <3>3. Crm!Lowest(found) \in found BY <3>2 DEF Crm!Lowest
    <3>4. Crm!Lowest(found) \in Crm!Ids BY <3>3 DEF Crm!Active
    <3>5. PICK c \in Crm!Ids : c = Crm!Lowest(found) BY <3>4
    <3>6. contacts[c].facts \in SUBSET Facts
      <4>1. contacts[c] \in ContactRows BY <1>0
      <4>. QED BY <4>1 DEF ContactRows
    <3>7. PICK more \in SUBSET Facts : more = contacts[c].facts \cup facts BY <3>6
    <3>8. Crm!Begin(w, [pc |-> "save", contact |-> c, facts |-> more]) /\ UNCHANGED cards
      BY <1>7, <2>1, <3>5, <3>7 DEF Crm!BeginImport
    <3>9. IsCrmRequest([pc |-> "save", contact |-> c, facts |-> more])
      BY DEF IsCrmRequest, Saving
    <3>. QED BY <1>2, <3>8, <3>9
  <2>2. CASE found = {}
    <3>1. IsCrmRequest(new) BY DEF IsCrmRequest, Importing
    <3>2. Crm!Begin(w, new) /\ UNCHANGED cards BY <1>7, <2>2 DEF Crm!BeginImport
    <3>. HIDE DEF new
    <3>. QED BY <1>2, <3>1, <3>2
  <2>. QED BY <2>1, <2>2
<1>8. ASSUME NEW w \in Keepers, Crm!CommitImport(w) PROVE CrmInv'
  <2>1. keepers[w] \in Importing
    BY <1>0, <1>8, CrmRequests DEF CrmTypes, Crm!CommitImport, Crm!Step
  <2>2. PICK facts \in SUBSET Facts : facts = keepers[w].facts BY <2>1 DEF Importing
  <2>3. PICK k : k = Len(contacts) + 1 OBVIOUS
  <2>4. /\ keepers[w].pc = "import" /\ Crm!Become(w, Crm!Idle)
        /\ contacts' = Append(contacts, Crm!New(facts))
        /\ cards' = Crm!WithCard(k, "prospect") /\ UNCHANGED unlisted
    BY <1>8, <2>2, <2>3 DEF Crm!CommitImport, Crm!Step
  <2>5. /\ contacts' \in Seq(ContactRows) /\ NoCircle'
        /\ Crm!Ids' = Crm!Ids \cup {k} /\ Crm!Active' = Crm!Active \cup {k}
    BY <2>3, <2>4, CrmAppend
  <2>6. /\ DOMAIN cards' = DOMAIN cards \cup {k} /\ \A d \in DOMAIN cards' : cards'[d] \in Stages
    BY <1>0, <2>4, CrmFacts, WithCardAdds
  <2>7. /\ DOMAIN keepers' = Keepers
        /\ \A v \in Keepers : IsCrmRequest(keepers[v])'
        /\ \A v \in Keepers : v # w => keepers'[v] = keepers[v]
    <3>1. IsCrmRequest(Crm!Idle)' BY DEF IsCrmRequest
    <3>2. Crm!Ids \subseteq Crm!Ids' BY <2>5
    <3>. QED BY <1>0, <2>4, <3>1, <3>2, CrmBecome
  <2>8. CrmTypes' BY <2>5, <2>6, <2>7 DEF CrmTypes
  <2>9. Listed'
    <3>1. ASSUME NEW c \in Crm!Active'
          PROVE  c \in DOMAIN cards' \/ c \in unlisted' \/ CardDue(c)'
      <4>1. CASE c = k BY <2>6, <4>1
      <4>2. CASE c \in Crm!Active
        <5>1. c \in DOMAIN cards \/ c \in unlisted \/ CardDue(c) BY <4>2 DEF CrmInv, Listed
        <5>2. CardDue(c) => CardDue(c)' BY <2>4, <2>7 DEF CardDue
        <5>. QED BY <2>4, <2>6, <5>1, <5>2
      <4>. QED BY <2>5, <4>1, <4>2
    <3>. QED BY <3>1 DEF Listed
  <2>. QED BY <2>5, <2>8, <2>9 DEF CrmInv
<1>9. ASSUME NEW w \in Keepers, NEW p \in Crm!Ids, NEW d \in Crm!Ids, Crm!BeginMerge(w, p, d)
      PROVE  CrmInv'
  <2>0. contacts[p] \in ContactRows /\ contacts[d] \in ContactRows BY <1>0
  <2>1. PICK facts \in SUBSET Facts : facts = contacts[p].facts \cup contacts[d].facts
    BY <2>0 DEF ContactRows
  <2>. DEFINE q == [pc |-> "merge", primary |-> p, duplicate |-> d, facts |-> facts]
  <2>2. p # d /\ Crm!Begin(w, q) /\ UNCHANGED cards BY <1>9, <2>1 DEF Crm!BeginMerge
  <2>3. IsCrmRequest(q)
    <3>1. q \in Merging BY <2>2 DEF Merging
    <3>. QED BY <3>1 DEF IsCrmRequest
  <2>. HIDE DEF q
  <2>. QED BY <1>2, <2>2, <2>3
<1>10. ASSUME NEW w \in Keepers, Crm!CommitMerge(w) PROVE CrmInv'
  BY <1>10, MergeStep
<1>11. ASSUME NEW g \in Segments, NEW S \in SUBSET Crm!Ids, Crm!SaveSegment(g, S) PROVE CrmInv'
  BY <1>11
  DEF Crm!SaveSegment, CrmInv, CrmTypes, NoCircle, Listed, CardDue, Crm!Active, Crm!Ids,
      IsCrmRequest, Saving, Carding, Importing, Merging, Moving
<1>12. ASSUME NEW w \in Keepers, NEW c \in Crm!Ids, NEW stage \in Stages,
              Crm!BeginMove(w, c, stage)
       PROVE  CrmInv'
  <2>1. PICK from \in Stages : from = Crm!StageOf(c) BY <1>0, StageTyped
  <2>. DEFINE q == [pc |-> "move", contact |-> c, from |-> from, to |-> stage]
  <2>2. /\ keepers[w].pc # "card" /\ Crm!Become(w, q)
        /\ cards' = Crm!WithCard(c, from) /\ UNCHANGED <<contacts, unlisted>>
    BY <1>12, <2>1, CrmFacts DEF Crm!BeginMove, Crm!Begin
  <2>3. IsCrmRequest(q)
    <3>1. q \in Moving BY DEF Moving
    <3>. QED BY <3>1 DEF IsCrmRequest
  <2>. HIDE DEF q
  <2>4. IsCrmRequest(q)'
    <3>1. PICK p : p = q OBVIOUS
    <3>2. IsCrmRequest(p)' BY <2>2, <2>3, <3>1, CrmRequestStays DEF Crm!Ids
    <3>. QED BY <3>1, <3>2 DEF q
  <2>5. /\ DOMAIN cards' = DOMAIN cards \cup {c} /\ \A d \in DOMAIN cards' : cards'[d] \in Stages
    BY <1>0, <2>2, WithCardAdds
  <2>. QED BY <2>2, <2>4, <2>5, CrmQuiet
<1>13. ASSUME NEW w \in Keepers, Crm!SaveCard(w) PROVE CrmInv'
  <2>1. keepers[w] \in Moving
    BY <1>0, <1>13, CrmRequests DEF CrmTypes, Crm!SaveCard, Crm!Step
  <2>2. PICK c \in Crm!Ids : c = keepers[w].contact BY <2>1 DEF Moving
  <2>3. PICK to \in Stages : to = keepers[w].to BY <2>1 DEF Moving
  <2>4. PICK q : q = [keepers[w] EXCEPT !.pc = "note"] OBVIOUS
  <2>5. q \in Moving BY <2>1, <2>4 DEF Moving
  <2>6. /\ keepers[w].pc = "move" /\ Crm!Become(w, q)
        /\ cards' = Crm!WithCard(c, to) /\ UNCHANGED <<contacts, unlisted>>
    BY <1>13, <2>2, <2>3, <2>4 DEF Crm!SaveCard, Crm!Step
  <2>7. IsCrmRequest(q) BY <2>5 DEF IsCrmRequest
  <2>8. IsCrmRequest(q)' BY <2>6, <2>7, CrmRequestStays DEF Crm!Ids
  <2>9. /\ DOMAIN cards' = DOMAIN cards \cup {c} /\ \A d \in DOMAIN cards' : cards'[d] \in Stages
    BY <1>0, <2>6, WithCardAdds
  <2>. QED BY <2>6, <2>8, <2>9, CrmQuiet
\* A request that ends and leaves contacts and cards as they are.
<1>14. ASSUME NEW w \in Keepers, keepers[w].pc # "card", Crm!Become(w, Crm!Idle),
              UNCHANGED <<contacts, cards, unlisted>>
       PROVE  CrmInv'
  <2>1. IsCrmRequest(Crm!Idle)' BY DEF IsCrmRequest
  <2>. QED BY <1>0, <1>14, <2>1, CrmQuiet
<1>15. ASSUME NEW w \in Keepers, Crm!NoteMove(w) \/ Crm!CommitLink(w) \/ Crm!CommitOutreach(w)
       PROVE  CrmInv'
  BY <1>14, <1>15 DEF Crm!NoteMove, Crm!CommitLink, Crm!CommitOutreach, Crm!Step
<1>16. ASSUME NEW w \in Keepers, NEW c \in Crm!Ids, NEW e \in Events, Crm!BeginLink(w, c, e)
       PROVE  CrmInv'
  <2>. DEFINE q == [pc |-> "link", contact |-> c, event |-> e]
  <2>1. IsCrmRequest(q) BY DEF IsCrmRequest
  <2>2. Crm!Begin(w, q) /\ UNCHANGED cards BY <1>16 DEF Crm!BeginLink
  <2>. HIDE DEF q
  <2>. QED BY <1>2, <2>1, <2>2
<1>17. ASSUME NEW w \in Keepers, NEW c \in Crm!Ids, Crm!BeginOutreach(w, c) PROVE CrmInv'
  <2>. DEFINE q == [pc |-> "outreach", contact |-> c]
  <2>1. IsCrmRequest(q) BY DEF IsCrmRequest
  <2>2. Crm!Begin(w, q) /\ UNCHANGED cards BY <1>17 DEF Crm!BeginOutreach
  <2>. HIDE DEF q
  <2>. QED BY <1>2, <2>1, <2>2
<1>18. ASSUME NEW w \in Keepers, Crm!Crash(w) PROVE CrmInv'
  <2>1. CASE keepers[w].pc # "card"
    BY <1>14, <1>18, <2>1 DEF Crm!Crash
  <2>2. CASE keepers[w].pc = "card"
    <3>1. PICK c : c = keepers[w].contact OBVIOUS
    <3>2. /\ Crm!Become(w, Crm!Idle) /\ unlisted' = unlisted \cup {c}
          /\ UNCHANGED <<contacts, cards>>
      BY <1>18, <2>2, <3>1 DEF Crm!Crash
    <3>3. /\ DOMAIN keepers' = Keepers
          /\ \A v \in Keepers : IsCrmRequest(keepers[v])'
          /\ \A v \in Keepers : v # w => keepers'[v] = keepers[v]
      <4>1. IsCrmRequest(Crm!Idle)' BY DEF IsCrmRequest
      <4>2. Crm!Ids \subseteq Crm!Ids' BY <3>2 DEF Crm!Ids
      <4>. QED BY <1>0, <3>2, <4>1, <4>2, CrmBecome
    <3>4. CrmTypes' BY <1>0, <3>2, <3>3 DEF CrmTypes
    <3>5. NoCircle' BY <3>2 DEF CrmInv, NoCircle, Crm!Ids
    <3>6. Listed'
      <4>1. ASSUME NEW d \in Crm!Active'
            PROVE  d \in DOMAIN cards' \/ d \in unlisted' \/ CardDue(d)'
        <5>1. d \in Crm!Active BY <3>2, <4>1 DEF Crm!Active, Crm!Ids
        <5>2. d \in DOMAIN cards \/ d \in unlisted \/ CardDue(d) BY <5>1 DEF CrmInv, Listed
        <5>3. CardDue(d) => d = c \/ CardDue(d)' BY <3>1, <3>3 DEF CardDue
        <5>. QED BY <3>2, <5>2, <5>3
      <4>. QED BY <4>1 DEF Listed
    <3>. QED BY <3>4, <3>5, <3>6 DEF CrmInv
  <2>. QED BY <2>1, <2>2
<1>. QED
  BY <1>1, <1>3, <1>4, <1>5, <1>6, <1>7, <1>8, <1>9, <1>10, <1>11, <1>12, <1>13, <1>15,
     <1>16, <1>17, <1>18
  DEF Crm!Next

\* Merges that cross close no circle: whoever is merged leads to a contact that is
\* shown, and who is shown has a card or is known to have lost it.
THEOREM ContactsAreFound == PeopleSpec => []NobodyDisappears
<1>1. PeopleInit => CrmInv BY CrmStart DEF PeopleInit
<1>2. CrmInv /\ [PeopleNext]_peopleVars => CrmInv' BY PartSteps, ContactsStep
<1>3. CrmInv => NobodyDisappears BY CrmInvShows DEF NobodyDisappears
<1>. QED BY <1>1, <1>2, <1>3, PTL DEF PeopleSpec, peopleVars

-----------------------------------------------------------------------------
(* Past editions: decisions outlive imports.  An import does not change who  *)
(* an identity is, so what it read of an identity that nobody decided since  *)
(* is still so when it writes; the bundled decisions confirm who it is.      *)

Persons == SpeakerKeys \cup Splits

MemoryTypes(m) ==
    /\ DOMAIN m = {"identities", "credits", "speakers", "decisions"}
    /\ DOMAIN m.identities \subseteq Past!Ids
    /\ \A d \in DOMAIN m.identities :
         /\ DOMAIN m.identities[d] = {"speaker", "name", "active", "status"}
         /\ m.identities[d].speaker \in Persons
    /\ \A c \in m.credits :
         /\ DOMAIN c = {"talk", "identity", "speaker"}
         /\ c.identity \in DOMAIN m.identities
    /\ m.decisions \in Seq([identity : Past!Ids, prior : Persons, resolved : Persons])
    /\ \A i \in DOMAIN m.decisions : m.decisions[i].identity \in DOMAIN m.identities

\* A credit names who its identity is, but for the identities of X.
Credited(m, X) ==
    \A c \in m.credits : c.identity \notin X => c.speaker = m.identities[c.identity].speaker

\* A talk shows who its credits name, but for the talks of those identities.
NamedIn(m, t) == {c \in m.credits : c.talk = t}
Shown(m, X) ==
    \A t \in DOMAIN m.speakers :
        {c.identity : c \in NamedIn(m, t)} \cap X = {} =>
            m.speakers[t] = {c.speaker : c \in NamedIn(m, t)}

\* The last decision about an identity stands, and who is verified was decided.
LastAbout(m, d, i) ==
    /\ m.decisions[i].identity = d
    /\ \A j \in DOMAIN m.decisions : m.decisions[j].identity = d => j <= i
Decided(m) ==
    \A d \in DOMAIN m.identities :
        /\ \A i \in DOMAIN m.decisions :
             LastAbout(m, d, i) => m.identities[d].speaker = m.decisions[i].resolved
        /\ m.identities[d].status = "verified" =>
             \E i \in DOMAIN m.decisions : m.decisions[i].resolved = m.identities[d].speaker

MemoryOK(m, X) == MemoryTypes(m) /\ Credited(m, X) /\ Shown(m, X) /\ Decided(m)

\* What an import under way read is so in the rows m, but for what was decided since.
HasRead(q, m, X) ==
    /\ q.edition \in Past!Editions /\ q.doc \in Past!Documents(q.edition)
    /\ q.known \subseteq DOMAIN m.identities
    /\ \A d \in Past!Named(q.doc) :
         /\ q.who[d] \in Persons
         /\ d \in q.known \ X => q.who[d] = m.identities[d].speaker
         /\ d \notin q.known => q.who[d] = Past!KeyOf(q.doc, d)

PastInv ==
    /\ MemoryOK(memory, crossed)
    /\ DOMAIN importers = Importers
    /\ \A w \in Importers :
         importers[w].pc = "import" => HasRead(importers[w], memory, crossed)

\* Steps of the rows do not change who an identity is, unless it is decided.
SpeakersKept(m, r) ==
    /\ DOMAIN m.identities \subseteq DOMAIN r.identities
    /\ \A d \in DOMAIN m.identities : r.identities[d].speaker = m.identities[d].speaker

\* A decision leaves rows as they are but for the identity, and is the last about it.
LEMMA ResolvedOK ==
    ASSUME NEW m, NEW X, MemoryOK(m, X), NEW d \in DOMAIN m.identities, NEW s \in Persons,
           NEW action
    PROVE  /\ MemoryOK(Past!Resolved(m, d, s, action), X)
           /\ DOMAIN Past!Resolved(m, d, s, action).identities = DOMAIN m.identities
           /\ \A x \in DOMAIN m.identities :
                Past!Resolved(m, d, s, action).identities[x].speaker =
                    IF x = d THEN s ELSE m.identities[x].speaker
<1>. DEFINE others  == Past!ActiveOf(m, s) \ {d}
            anchor  == IF others = {} THEN {} ELSE {CHOOSE a \in others : TRUE}
            redone(c) == IF c.identity = d THEN [c EXCEPT !.speaker = s] ELSE c
            credits == {redone(c) : c \in m.credits}
            touched == {c.talk : c \in {c \in m.credits : c.identity = d}}
            person(x) == IF x = d THEN [m.identities[x] EXCEPT !.speaker = s, !.status = "verified"]
                         ELSE IF x \in anchor THEN [m.identities[x] EXCEPT !.status = "verified"]
                         ELSE m.identities[x]
            shown(t) == IF t \in touched THEN {c.speaker : c \in {c \in credits : c.talk = t}}
                        ELSE m.speakers[t]
            said    == [identity |-> d, prior |-> m.identities[d].speaker, resolved |-> s]
            r       == Past!Resolved(m, d, s, action)
<1>1. r = [identities |-> [x \in DOMAIN m.identities |-> person(x)],
           credits    |-> credits,
           speakers   |-> [t \in DOMAIN m.speakers |-> shown(t)],
           decisions  |-> Append(m.decisions, said)]
  BY DEF Past!Resolved
<1>2. \A x \in anchor : x \in DOMAIN m.identities /\ x # d /\ m.identities[x].speaker = s
  BY DEF Past!ActiveOf
<1>3. MemoryTypes(m) /\ Credited(m, X) /\ Shown(m, X) /\ Decided(m) BY DEF MemoryOK
<1>. HIDE DEF anchor
<1>4. \A x \in DOMAIN m.identities :
        /\ DOMAIN person(x) = {"speaker", "name", "active", "status"}
        /\ person(x).speaker = IF x = d THEN s ELSE m.identities[x].speaker
        /\ person(x).status = IF x = d \/ x \in anchor THEN "verified" ELSE m.identities[x].status
  BY <1>3 DEF MemoryTypes
<1>5. \A c \in m.credits :
        /\ DOMAIN redone(c) = {"talk", "identity", "speaker"}
        /\ redone(c).talk = c.talk /\ redone(c).identity = c.identity
        /\ redone(c).speaker = IF c.identity = d THEN s ELSE c.speaker
  BY <1>3 DEF MemoryTypes
<1>. HIDE DEF person, redone
<1>6. /\ DOMAIN r = {"identities", "credits", "speakers", "decisions"}
      /\ DOMAIN r.identities = DOMAIN m.identities
      /\ \A x \in DOMAIN m.identities : r.identities[x] = person(x)
      /\ r.credits = credits
      /\ DOMAIN r.speakers = DOMAIN m.speakers
      /\ \A t \in DOMAIN m.speakers : r.speakers[t] = shown(t)
      /\ r.decisions = Append(m.decisions, said)
  <2>. HIDE DEF credits, shown, said
  <2>. QED BY <1>1
<1>. DEFINE Words == [identity : Past!Ids, prior : Persons, resolved : Persons]
<1>7. m.decisions \in Seq(Words) /\ said \in Words BY <1>3 DEF MemoryTypes
<1>8. /\ r.decisions \in Seq(Words)
      /\ Len(m.decisions) \in Nat
      /\ DOMAIN m.decisions = 1..Len(m.decisions)
      /\ DOMAIN r.decisions = 1..(Len(m.decisions) + 1)
      /\ \A i \in DOMAIN m.decisions : r.decisions[i] = m.decisions[i]
      /\ r.decisions[Len(m.decisions) + 1] = said
  <2>. HIDE DEF Words, said
  <2>. QED BY <1>6, <1>7
<1>. HIDE DEF r
<1>9. MemoryTypes(r)
  <2>1. \A c \in credits : DOMAIN c = {"talk", "identity", "speaker"}
                           /\ c.identity \in DOMAIN m.identities
    BY <1>3, <1>5 DEF MemoryTypes
  <2>2. \A x \in DOMAIN m.identities : person(x).speaker \in Persons
    BY <1>3, <1>4 DEF MemoryTypes
  <2>3. \A i \in DOMAIN r.decisions : r.decisions[i].identity \in DOMAIN m.identities
    BY <1>3, <1>8 DEF MemoryTypes
  <2>. QED BY <1>3, <1>4, <1>6, <1>8, <2>1, <2>2, <2>3 DEF MemoryTypes
<1>10. Credited(r, X)
  <2>1. \A c \in credits : c.identity \notin X => c.speaker = person(c.identity).speaker
    BY <1>3, <1>4, <1>5 DEF Credited, MemoryTypes
  <2>. QED BY <1>6, <2>1, <1>9 DEF Credited, MemoryTypes
<1>11. Shown(r, X)
  <2>1. SUFFICES ASSUME NEW t \in DOMAIN m.speakers,
                        {c.identity : c \in NamedIn(r, t)} \cap X = {}
                 PROVE  shown(t) = {c.speaker : c \in NamedIn(r, t)}
    BY <1>6 DEF Shown
  <2>2. NamedIn(r, t) = {c \in credits : c.talk = t} BY <1>6 DEF NamedIn
  <2>3. CASE t \in touched BY <2>2, <2>3
  <2>4. CASE t \notin touched
    <3>1. \A c \in m.credits : c.talk = t => c.identity # d BY <2>4
    <3>2. NamedIn(r, t) = NamedIn(m, t) BY <3>1, <1>5, <2>2 DEF NamedIn, redone
    <3>3. m.speakers[t] = {c.speaker : c \in NamedIn(m, t)}
      BY <1>3, <2>1, <3>2 DEF Shown
    <3>. QED BY <2>4, <3>2, <3>3
  <2>. QED BY <2>3, <2>4
<1>12. Decided(r)
  <2>1. SUFFICES ASSUME NEW x \in DOMAIN m.identities
                 PROVE  /\ \A i \in DOMAIN r.decisions : LastAbout(r, x, i) =>
                              person(x).speaker = r.decisions[i].resolved
                        /\ person(x).status = "verified" =>
                              \E i \in DOMAIN r.decisions :
                                  r.decisions[i].resolved = person(x).speaker
    BY <1>6 DEF Decided
  <2>. DEFINE n == Len(m.decisions) + 1
  <2>2. n \in DOMAIN r.decisions /\ r.decisions[n].identity = d /\ r.decisions[n].resolved = s
    BY <1>8
  <2>3. ASSUME NEW i \in DOMAIN r.decisions, LastAbout(r, x, i)
        PROVE  person(x).speaker = r.decisions[i].resolved
    <3>1. CASE x = d
      <4>1. n <= i BY <2>2, <2>3, <3>1 DEF LastAbout
      <4>2. i = n BY <1>8, <4>1
      <4>. QED BY <1>4, <2>2, <3>1, <4>2
    <3>2. CASE x # d
      <4>1. i # n BY <2>2, <2>3, <3>2 DEF LastAbout
      <4>2. i \in DOMAIN m.decisions BY <1>8, <4>1
      <4>3. LastAbout(m, x, i) BY <1>8, <2>3, <4>2 DEF LastAbout
      <4>. QED BY <1>3, <1>4, <1>8, <3>2, <4>2, <4>3 DEF Decided
    <3>. QED BY <3>1, <3>2
  <2>4. ASSUME person(x).status = "verified"
        PROVE  \E i \in DOMAIN r.decisions : r.decisions[i].resolved = person(x).speaker
    <3>1. CASE x = d \/ x \in anchor BY <1>2, <1>4, <2>2, <3>1
    <3>2. CASE ~(x = d \/ x \in anchor)
      <4>1. PICK i \in DOMAIN m.decisions : m.decisions[i].resolved = m.identities[x].speaker
        BY <1>3, <1>4, <2>4, <3>2 DEF Decided
      <4>2. i \in DOMAIN r.decisions BY <1>8
      <4>. QED BY <1>4, <1>8, <3>2, <4>1, <4>2
    <3>. QED BY <3>1, <3>2
  <2>. QED BY <2>3, <2>4
<1>13. \A x \in DOMAIN m.identities :
         r.identities[x].speaker = IF x = d THEN s ELSE m.identities[x].speaker
  BY <1>4, <1>6
<1>14. MemoryOK(r, X) BY <1>9, <1>10, <1>11, <1>12 DEF MemoryOK
<1>. QED BY <1>6, <1>13, <1>14 DEF r

\* Talks that go leave the others as they are.
LEMMA PrunedOK ==
    ASSUME NEW m, NEW X, MemoryOK(m, X), NEW e, NEW doc
    PROVE  MemoryOK(Past!Pruned(m, e, doc), X) /\ SpeakersKept(m, Past!Pruned(m, e, doc))
<1>. DEFINE gone == Past!TalksOf(e) \ DOMAIN doc
            left == {c \in m.credits : c.talk \notin gone}
            person(d) == IF Past!EditionOfIdentity(d) = e /\ ~\E c \in left : c.identity = d
                         THEN [m.identities[d] EXCEPT !.active = FALSE] ELSE m.identities[d]
            r    == Past!Pruned(m, e, doc)
<1>1. MemoryTypes(m) /\ Credited(m, X) /\ Shown(m, X) /\ Decided(m) BY DEF MemoryOK
<1>2. r = [m EXCEPT !.credits = left,
                    !.speakers = [t \in DOMAIN m.speakers \ gone |-> m.speakers[t]],
                    !.identities = [d \in DOMAIN m.identities |-> person(d)]]
  BY DEF Past!Pruned
<1>3. \A d \in DOMAIN m.identities :
        /\ DOMAIN person(d) = DOMAIN m.identities[d]
        /\ person(d).speaker = m.identities[d].speaker
        /\ person(d).status = m.identities[d].status
  BY <1>1 DEF MemoryTypes
<1>4. left \subseteq m.credits OBVIOUS
<1>. HIDE DEF person
<1>5. /\ DOMAIN r = {"identities", "credits", "speakers", "decisions"}
      /\ DOMAIN r.identities = DOMAIN m.identities
      /\ \A d \in DOMAIN m.identities : r.identities[d] = person(d)
      /\ r.credits = left
      /\ DOMAIN r.speakers = DOMAIN m.speakers \ gone
      /\ \A t \in DOMAIN r.speakers : r.speakers[t] = m.speakers[t]
      /\ r.decisions = m.decisions
  <2>. HIDE DEF left, gone
  <2>. QED BY <1>1, <1>2 DEF MemoryTypes
<1>. HIDE DEF r
<1>6. MemoryTypes(r) BY <1>1, <1>3, <1>4, <1>5 DEF MemoryTypes
<1>7. Credited(r, X) BY <1>1, <1>3, <1>4, <1>5 DEF Credited, MemoryTypes
<1>8. Shown(r, X)
  <2>1. SUFFICES ASSUME NEW t \in DOMAIN m.speakers \ gone,
                        {c.identity : c \in NamedIn(r, t)} \cap X = {}
                 PROVE  m.speakers[t] = {c.speaker : c \in NamedIn(r, t)}
    BY <1>5 DEF Shown
  <2>2. NamedIn(r, t) = NamedIn(m, t) BY <1>5 DEF NamedIn
  <2>. QED BY <1>1, <2>1, <2>2 DEF Shown
<1>9. Decided(r) BY <1>1, <1>3, <1>5 DEF Decided, LastAbout
<1>10. SpeakersKept(m, r) BY <1>3, <1>5 DEF SpeakersKept
<1>11. MemoryOK(r, X) BY <1>6, <1>7, <1>8, <1>9 DEF MemoryOK
<1>. QED BY <1>10, <1>11 DEF r

\* What a document holds: for its talks the keys of at most two speakers.
LEMMA DocumentFacts ==
    ASSUME NEW e \in Past!Editions, NEW doc \in Past!Documents(e)
    PROVE  /\ \A t \in DOMAIN doc :
                /\ t \in Talks /\ DOMAIN doc[t] \subseteq {1, 2}
                /\ \A i \in DOMAIN doc[t] :
                     /\ doc[t][i] \in SpeakerKeys
                     /\ Past!Identity(t, i, doc[t][i]) \in Past!Named(doc)
           /\ \A d \in Past!Named(doc) : d \in Past!Ids /\ Past!KeyOf(doc, d) \in SpeakerKeys
<1>1. \A t \in DOMAIN doc : t \in Talks /\ doc[t] \in Past!Bills
  BY DEF Past!Documents, Past!TalksOf
<1>2. \A b \in Past!Bills : DOMAIN b \subseteq {1, 2} /\ \A i \in DOMAIN b : b[i] \in SpeakerKeys
  BY DEF Past!Bills
<1>3. \A t \in DOMAIN doc : DOMAIN doc[t] \subseteq {1, 2}
                           /\ \A i \in DOMAIN doc[t] : doc[t][i] \in SpeakerKeys
  BY <1>1, <1>2
<1>4. \A x : x \in Past!Entries(doc) <=>
               \E t \in DOMAIN doc : \E i \in DOMAIN doc[t] : x = <<t, i>>
  BY DEF Past!Entries
<1>5. \A d : d \in Past!Named(doc) <=>
               \E t \in DOMAIN doc : \E i \in DOMAIN doc[t] :
                   d = Past!Identity(t, i, doc[t][i])
  <2>1. \A d : d \in Past!Named(doc) <=>
                 \E x \in Past!Entries(doc) : d = Past!Identity(x[1], x[2], doc[x[1]][x[2]])
    BY DEF Past!Named
  <2>2. ASSUME NEW t \in DOMAIN doc, NEW i \in DOMAIN doc[t]
        PROVE  Past!Identity(t, i, doc[t][i]) \in Past!Named(doc)
    <3>1. <<t, i>> \in Past!Entries(doc) /\ <<t, i>>[1] = t /\ <<t, i>>[2] = i BY <1>4
    <3>. QED BY <2>1, <3>1
  <2>3. ASSUME NEW d \in Past!Named(doc)
        PROVE  \E t \in DOMAIN doc : \E i \in DOMAIN doc[t] :
                   d = Past!Identity(t, i, doc[t][i])
    <3>1. PICK x \in Past!Entries(doc) : d = Past!Identity(x[1], x[2], doc[x[1]][x[2]])
      BY <2>1, <2>3
    <3>2. PICK t \in DOMAIN doc : \E i \in DOMAIN doc[t] : x = <<t, i>> BY <1>4
    <3>3. PICK i \in DOMAIN doc[t] : x = <<t, i>> BY <3>2
    <3>4. x[1] = t /\ x[2] = i BY <3>3
    <3>. QED BY <3>1, <3>4
  <2>. QED BY <2>2, <2>3
<1>6. ASSUME NEW d \in Past!Named(doc)
      PROVE  d \in Past!Ids /\ Past!KeyOf(doc, d) \in SpeakerKeys
  <2>1. PICK t \in DOMAIN doc : \E i \in DOMAIN doc[t] :
                   d = Past!Identity(t, i, doc[t][i])
    BY <1>5
  <2>2. PICK i \in DOMAIN doc[t] : d = Past!Identity(t, i, doc[t][i]) BY <2>1
  <2>3. d \in Past!Ids
    <3>1. EditionOf(t) \in Past!Editions BY <1>1 DEF Past!Editions
    <3>2. t \in Talks /\ i \in Nat /\ doc[t][i] \in SpeakerKeys BY <1>1, <1>3
    <3>. QED BY <2>2, <3>1, <3>2 DEF Past!Identity, Past!Ids
  <2>. DEFINE about(x) == x \in Past!Entries(doc)
                          /\ Past!Identity(x[1], x[2], doc[x[1]][x[2]]) = d
              x == CHOOSE x \in Past!Entries(doc) :
                       Past!Identity(x[1], x[2], doc[x[1]][x[2]]) = d
  <2>4. about(<<t, i>>) BY <1>4, <2>2
  <2>5. x \in Past!Entries(doc) BY <2>4
  <2>6. doc[x[1]][x[2]] \in SpeakerKeys
    <3>. HIDE DEF x
    <3>. QED BY <1>3, <1>4, <2>5
  <2>. QED BY <2>3, <2>6 DEF Past!KeyOf
<1>. QED BY <1>1, <1>3, <1>5, <1>6

\* What an import takes the identities of its document to be.
WhoFits(m, X, doc, who) ==
    \A d \in Past!Named(doc) :
        /\ who[d] \in Persons
        /\ d \in DOMAIN m.identities \ X => who[d] = m.identities[d].speaker
        /\ d \notin DOMAIN m.identities => who[d] = Past!KeyOf(doc, d)

\* What becomes of the identities m, with those of the document.
IdentitiesFit(m, doc, ids) ==
    /\ DOMAIN ids = DOMAIN m.identities \cup Past!Named(doc)
    /\ DOMAIN ids \subseteq Past!Ids
    /\ \A d \in DOMAIN ids :
         /\ DOMAIN ids[d] = {"speaker", "name", "active", "status"}
         /\ ids[d].speaker \in Persons
    /\ \A d \in DOMAIN m.identities :
         /\ ids[d].speaker = m.identities[d].speaker
         /\ ids[d].status = "verified" => m.identities[d].status = "verified"
    /\ \A d \in Past!Named(doc) \ DOMAIN m.identities :
         ids[d].speaker = Past!KeyOf(doc, d) /\ ids[d].status # "verified"

LEMMA ImportedIdentities ==
    ASSUME NEW m, MemoryTypes(m), NEW e \in Past!Editions, NEW doc \in Past!Documents(e)
    PROVE  IdentitiesFit(m, doc, Past!Identities(m, e, doc))
<1>. DEFINE new == Past!Named(doc) \ DOMAIN m.identities
            doubtful == {d \in DOMAIN m.identities : \E n \in new :
                            /\ Past!Elsewhere(m, e, Past!KeyOf(doc, n)) # {}
                            /\ d \in Past!ActiveOf(m, Past!KeyOf(doc, n))}
            person(d) == IF d \in new THEN Past!NewIdentity(m, e, Past!KeyOf(doc, d))
                         ELSE [m.identities[d] EXCEPT
                                  !.active = @ \/ d \in Past!Named(doc),
                                  !.status = IF d \in doubtful /\ @ # "verified"
                                             THEN "legacy_unverified" ELSE @]
            ids == Past!Identities(m, e, doc)
<1>1. ids = [d \in DOMAIN m.identities \cup new |-> person(d)] BY DEF Past!Identities
<1>2. \A d \in new :
        /\ DOMAIN person(d) = {"speaker", "name", "active", "status"}
        /\ person(d).speaker = Past!KeyOf(doc, d)
        /\ person(d).status # "verified"
  BY DEF Past!NewIdentity
<1>. HIDE DEF doubtful
<1>3. \A d \in DOMAIN m.identities :
        /\ DOMAIN person(d) = {"speaker", "name", "active", "status"}
        /\ person(d).speaker = m.identities[d].speaker
        /\ person(d).status = "verified" => m.identities[d].status = "verified"
  BY DEF MemoryTypes
<1>. HIDE DEF person
<1>4. /\ DOMAIN ids = DOMAIN m.identities \cup Past!Named(doc)
      /\ \A d \in DOMAIN ids : ids[d] = person(d)
  BY <1>1
<1>. HIDE DEF ids
<1>5. \A d \in Past!Named(doc) : d \in Past!Ids /\ Past!KeyOf(doc, d) \in Persons
  BY DocumentFacts DEF Persons
<1>6. DOMAIN ids \subseteq Past!Ids BY <1>4, <1>5 DEF MemoryTypes
<1>7. \A d \in DOMAIN ids : d \in DOMAIN m.identities \/ d \in new BY <1>4
<1>8. \A d \in DOMAIN ids :
        /\ DOMAIN ids[d] = {"speaker", "name", "active", "status"}
        /\ ids[d].speaker \in Persons
  BY <1>2, <1>3, <1>4, <1>5, <1>7 DEF MemoryTypes
<1>9. IdentitiesFit(m, doc, ids) BY <1>2, <1>3, <1>4, <1>6, <1>8 DEF IdentitiesFit
<1>. QED BY <1>9 DEF ids

\* The credits an import writes.
At(doc, t, i) == Past!Identity(t, i, doc[t][i])

LEMMA ImportedCredits ==
    ASSUME NEW m, MemoryTypes(m), NEW e \in Past!Editions, NEW doc \in Past!Documents(e),
           NEW who
    PROVE  LET cs == Past!Credits(m, doc, who) IN
           /\ \A c \in cs :
                \/ /\ c.talk \in DOMAIN doc
                   /\ DOMAIN c = {"talk", "identity", "speaker"}
                   /\ c.identity \in Past!Named(doc) /\ c.speaker = who[c.identity]
                   /\ \E i \in DOMAIN doc[c.talk] : c.identity = At(doc, c.talk, i)
                \/ /\ c \in m.credits
                   /\ c.talk \in DOMAIN doc =>
                        \E i \in DOMAIN doc[c.talk] :
                            c.identity = At(doc, c.talk, i) /\ who[c.identity] # c.speaker
           /\ \A c \in m.credits : c.talk \notin DOMAIN doc => c \in cs
           /\ \A t \in DOMAIN doc : \A i \in DOMAIN doc[t] :
                \E c \in cs : c.talk = t /\ c.speaker = who[At(doc, t, i)]
<1>. DEFINE lastOf(t, i) == \A j \in DOMAIN doc[t] :
                                j > i => who[At(doc, t, j)] # who[At(doc, t, i)]
            credit(t, i) == [talk |-> t, identity |-> At(doc, t, i),
                             speaker |-> who[At(doc, t, i)]]
            cs == Past!Credits(m, doc, who)
<1>0. \A x : x \in Past!Entries(doc) <=>
               \E t \in DOMAIN doc : \E i \in DOMAIN doc[t] : x = <<t, i>>
  BY DEF Past!Entries
<1>1. \A c : c \in cs <=>
        \/ \E t \in DOMAIN doc : \E i \in DOMAIN doc[t] : lastOf(t, i) /\ c = credit(t, i)
        \/ /\ c \in m.credits
           /\ \/ c.talk \notin DOMAIN doc
              \/ /\ \E i \in DOMAIN doc[c.talk] : At(doc, c.talk, i) = c.identity
                 /\ \A i \in DOMAIN doc[c.talk] : who[At(doc, c.talk, i)] # c.speaker
  <2>. DEFINE new  == {[talk |-> x[1], identity |-> At(doc, x[1], x[2]),
                        speaker |-> who[At(doc, x[1], x[2])]] :
                           x \in {y \in Past!Entries(doc) : lastOf(y[1], y[2])}}
              stays == {c \in m.credits :
                          \/ c.talk \notin DOMAIN doc
                          \/ /\ \E i \in DOMAIN doc[c.talk] : At(doc, c.talk, i) = c.identity
                             /\ \A i \in DOMAIN doc[c.talk] :
                                   who[At(doc, c.talk, i)] # c.speaker}
  <2>1. cs = new \cup stays BY DEF Past!Credits, At
  <2>2. \A c : c \in new <=> \E x \in Past!Entries(doc) :
                                 lastOf(x[1], x[2]) /\ c = credit(x[1], x[2])
    OBVIOUS
  <2>. HIDE DEF lastOf, credit, new, cs
  <2>3. \A c : c \in new <=> \E t \in DOMAIN doc : \E i \in DOMAIN doc[t] :
                                 lastOf(t, i) /\ c = credit(t, i)
    <3>1. ASSUME NEW c \in new
          PROVE  \E t \in DOMAIN doc : \E i \in DOMAIN doc[t] : lastOf(t, i) /\ c = credit(t, i)
      <4>1. PICK x \in Past!Entries(doc) : lastOf(x[1], x[2]) /\ c = credit(x[1], x[2])
        BY <2>2
      <4>2. PICK t \in DOMAIN doc : \E i \in DOMAIN doc[t] : x = <<t, i>> BY <1>0
      <4>3. PICK i \in DOMAIN doc[t] : x = <<t, i>> BY <4>2
      <4>4. x[1] = t /\ x[2] = i BY <4>3
      <4>. QED BY <4>1, <4>4
    <3>2. ASSUME NEW c, NEW t \in DOMAIN doc, NEW i \in DOMAIN doc[t],
                 lastOf(t, i), c = credit(t, i)
          PROVE  c \in new
      <4>1. <<t, i>> \in Past!Entries(doc) /\ <<t, i>>[1] = t /\ <<t, i>>[2] = i BY <1>0
      <4>. QED BY <2>2, <3>2, <4>1
    <3>. QED BY <3>1, <3>2
  <2>. QED BY <2>1, <2>3 DEF stays
<1>. HIDE DEF cs
<1>2. ASSUME NEW c \in cs
      PROVE  \/ /\ c.talk \in DOMAIN doc
                /\ DOMAIN c = {"talk", "identity", "speaker"}
                /\ c.identity \in Past!Named(doc) /\ c.speaker = who[c.identity]
                /\ \E i \in DOMAIN doc[c.talk] : c.identity = At(doc, c.talk, i)
             \/ /\ c \in m.credits
                /\ c.talk \in DOMAIN doc =>
                     \E i \in DOMAIN doc[c.talk] :
                         c.identity = At(doc, c.talk, i) /\ who[c.identity] # c.speaker
  <2>1. ASSUME NEW t \in DOMAIN doc, NEW i \in DOMAIN doc[t], c = credit(t, i)
        PROVE  /\ c.talk \in DOMAIN doc
               /\ DOMAIN c = {"talk", "identity", "speaker"}
               /\ c.identity \in Past!Named(doc) /\ c.speaker = who[c.identity]
               /\ \E j \in DOMAIN doc[c.talk] : c.identity = At(doc, c.talk, j)
    <3>1. At(doc, t, i) \in Past!Named(doc) BY DocumentFacts DEF At
    <3>. QED BY <2>1, <3>1
  <2>. HIDE DEF lastOf, credit
  <2>. QED BY <1>1, <2>1
<1>3. ASSUME NEW t \in DOMAIN doc, NEW i \in DOMAIN doc[t]
      PROVE  \E c \in cs : c.talk = t /\ c.speaker = who[At(doc, t, i)]
  <2>1. \E j \in DOMAIN doc[t] : lastOf(t, j) /\ who[At(doc, t, j)] = who[At(doc, t, i)]
    <3>1. DOMAIN doc[t] \subseteq {1, 2} BY DocumentFacts
    <3>2. CASE lastOf(t, i) BY <3>2
    <3>3. CASE ~lastOf(t, i)
      <4>1. PICK j \in DOMAIN doc[t] : j > i /\ who[At(doc, t, j)] = who[At(doc, t, i)] BY <3>3
      <4>2. j = 2 BY <3>1, <4>1
      <4>3. lastOf(t, j) BY <3>1, <4>2
      <4>. QED BY <4>1, <4>3
    <3>. QED BY <3>2, <3>3
  <2>2. PICK j \in DOMAIN doc[t] : lastOf(t, j) /\ who[At(doc, t, j)] = who[At(doc, t, i)]
    BY <2>1
  <2>3. credit(t, j) \in cs
    <3>. HIDE DEF lastOf, credit
    <3>. QED BY <1>1, <2>2
  <2>4. credit(t, j).talk = t /\ credit(t, j).speaker = who[At(doc, t, i)] BY <2>2
  <2>. QED BY <2>3, <2>4
<1>. QED BY <1>1, <1>2, <1>3 DEF cs

\* An import writes what it took the identities to be, and they are that.
LEMMA ImportedOK ==
    ASSUME NEW m, NEW X, MemoryOK(m, X), NEW e \in Past!Editions, NEW doc \in Past!Documents(e),
           NEW who, WhoFits(m, X, doc, who)
    PROVE  MemoryOK(Past!Imported(m, e, doc, who), X)
           /\ SpeakersKept(m, Past!Imported(m, e, doc, who))
<1>. DEFINE ids == Past!Identities(m, e, doc)
            cs  == Past!Credits(m, doc, who)
            billed(t) == {who[Past!Identity(t, i, doc[t][i])] : i \in DOMAIN doc[t]}
            shown(t) == IF t \in DOMAIN doc THEN billed(t) ELSE m.speakers[t]
            r   == Past!Imported(m, e, doc, who)
<1>1. MemoryTypes(m) /\ Credited(m, X) /\ Shown(m, X) /\ Decided(m) BY DEF MemoryOK
<1>2. r = [m EXCEPT !.identities = ids, !.credits = cs,
                    !.speakers = [t \in DOMAIN m.speakers \cup DOMAIN doc |-> shown(t)]]
  BY DEF Past!Imported
<1>3. IdentitiesFit(m, doc, ids) BY <1>1, ImportedIdentities
<1>4. /\ \A c \in cs :
           \/ /\ c.talk \in DOMAIN doc
              /\ DOMAIN c = {"talk", "identity", "speaker"}
              /\ c.identity \in Past!Named(doc) /\ c.speaker = who[c.identity]
              /\ \E i \in DOMAIN doc[c.talk] : c.identity = At(doc, c.talk, i)
           \/ /\ c \in m.credits
              /\ c.talk \in DOMAIN doc =>
                   \E i \in DOMAIN doc[c.talk] :
                       c.identity = At(doc, c.talk, i) /\ who[c.identity] # c.speaker
      /\ \A c \in m.credits : c.talk \notin DOMAIN doc => c \in cs
      /\ \A t \in DOMAIN doc : \A i \in DOMAIN doc[t] :
           \E c \in cs : c.talk = t /\ c.speaker = who[At(doc, t, i)]
  BY <1>1, ImportedCredits
<1>. HIDE DEF ids, cs
<1>5. /\ DOMAIN r = {"identities", "credits", "speakers", "decisions"}
      /\ r.identities = ids /\ r.credits = cs /\ r.decisions = m.decisions
      /\ DOMAIN r.speakers = DOMAIN m.speakers \cup DOMAIN doc
      /\ \A t \in DOMAIN r.speakers : r.speakers[t] = shown(t)
  <2>. HIDE DEF shown
  <2>. QED BY <1>1, <1>2 DEF MemoryTypes
<1>. HIDE DEF r
<1>6. \A d \in Past!Named(doc) \ X : who[d] = ids[d].speaker
  BY <1>3 DEF WhoFits, IdentitiesFit
<1>7. MemoryTypes(r)
  <2>1. \A c \in cs : DOMAIN c = {"talk", "identity", "speaker"} /\ c.identity \in DOMAIN ids
    BY <1>1, <1>3, <1>4 DEF MemoryTypes, IdentitiesFit
  <2>. QED BY <1>1, <1>3, <1>5, <2>1 DEF MemoryTypes, IdentitiesFit
<1>8. Credited(r, X)
  <2>1. ASSUME NEW c \in cs, c.identity \notin X PROVE c.speaker = ids[c.identity].speaker
    <3>1. CASE c.identity \in Past!Named(doc) /\ c.speaker = who[c.identity]
      BY <1>6, <2>1, <3>1
    <3>2. CASE c \in m.credits
      BY <1>1, <1>3, <2>1, <3>2 DEF MemoryTypes, Credited, IdentitiesFit
    <3>. QED BY <1>4, <3>1, <3>2
  <2>. QED BY <1>5, <2>1 DEF Credited
<1>9. Shown(r, X)
  <2>1. SUFFICES ASSUME NEW t \in DOMAIN m.speakers \cup DOMAIN doc,
                        {c.identity : c \in NamedIn(r, t)} \cap X = {}
                 PROVE  shown(t) = {c.speaker : c \in NamedIn(r, t)}
    BY <1>5 DEF Shown
  <2>2. NamedIn(r, t) = {c \in cs : c.talk = t} BY <1>5 DEF NamedIn
  <2>3. CASE t \notin DOMAIN doc
    <3>1. NamedIn(r, t) = NamedIn(m, t) BY <1>4, <2>2, <2>3 DEF NamedIn
    <3>2. m.speakers[t] = {c.speaker : c \in NamedIn(m, t)}
      BY <1>1, <2>1, <2>3, <3>1 DEF Shown
    <3>. QED BY <2>3, <3>1, <3>2
  <2>4. CASE t \in DOMAIN doc
    <3>1. ASSUME NEW c \in NamedIn(r, t) PROVE c.speaker \in billed(t)
      <4>1. c \in cs /\ c.talk = t /\ c.identity \notin X BY <2>1, <2>2
      <4>2. ASSUME NEW i \in DOMAIN doc[t], c.identity = At(doc, t, i),
                   c.speaker # who[c.identity], c \in m.credits
            PROVE  FALSE
        <5>1. c.identity \in Past!Named(doc) BY <2>4, <4>2, DocumentFacts DEF At
        <5>2. c.speaker = m.identities[c.identity].speaker /\ c.identity \in DOMAIN m.identities
          BY <1>1, <4>1, <4>2 DEF Credited, MemoryTypes
        <5>3. who[c.identity] = m.identities[c.identity].speaker
          BY <4>1, <5>1, <5>2 DEF WhoFits
        <5>. QED BY <4>2, <5>2, <5>3
      <4>3. /\ c.speaker = who[c.identity]
            /\ \E i \in DOMAIN doc[t] : c.identity = At(doc, t, i)
        BY <1>4, <2>4, <4>1, <4>2
      <4>. QED BY <4>3 DEF At
    <3>2. ASSUME NEW s \in billed(t) PROVE \E c \in NamedIn(r, t) : c.speaker = s
      <4>1. PICK i \in DOMAIN doc[t] : s = who[At(doc, t, i)] BY DEF At
      <4>2. PICK c \in cs : c.talk = t /\ c.speaker = who[At(doc, t, i)] BY <1>4, <2>4
      <4>. QED BY <2>2, <4>1, <4>2
    <3>3. billed(t) = {c.speaker : c \in NamedIn(r, t)}
      <4>. HIDE DEF billed
      <4>. QED BY <3>1, <3>2
    <3>. QED BY <2>4, <3>3
  <2>. QED BY <2>3, <2>4
<1>10. Decided(r)
  <2>1. SUFFICES ASSUME NEW d \in DOMAIN ids
                 PROVE  /\ \A i \in DOMAIN m.decisions : LastAbout(m, d, i) =>
                              ids[d].speaker = m.decisions[i].resolved
                        /\ ids[d].status = "verified" =>
                              \E i \in DOMAIN m.decisions :
                                  m.decisions[i].resolved = ids[d].speaker
    BY <1>5 DEF Decided, LastAbout
  <2>2. CASE d \in DOMAIN m.identities BY <1>1, <1>3, <2>2 DEF Decided, IdentitiesFit
  <2>3. CASE d \notin DOMAIN m.identities
    <3>1. \A i \in DOMAIN m.decisions : ~LastAbout(m, d, i)
      BY <1>1, <2>3 DEF MemoryTypes, LastAbout
    <3>. QED BY <1>3, <2>1, <2>3, <3>1 DEF IdentitiesFit
  <2>. QED BY <2>2, <2>3
<1>11. SpeakersKept(m, r) BY <1>3, <1>5 DEF SpeakersKept, IdentitiesFit
<1>12. MemoryOK(r, X) BY <1>7, <1>8, <1>9, <1>10 DEF MemoryOK
<1>. QED BY <1>11, <1>12 DEF r

\* The bundled decisions find every member known as the speaker, and confirm it.
LEMMA CuratedOK ==
    ASSUME NEW m, NEW X, MemoryOK(m, X), Past!Curatable(m)
    PROVE  MemoryOK(Past!Curated(m), X) /\ SpeakersKept(m, Past!Curated(m))
<1>. DEFINE N       == Len(Group)
            B(f, i) == IF i = 0 THEN m ELSE Past!Linked(f[i - 1], Group[i])
            Is(f, k) == f = [i \in 0..k |-> B(f, i)]
            F       == CHOOSE f : Is(f, N)
            Fine(r) == /\ MemoryOK(r, X) /\ SpeakersKept(m, r)
                       /\ DOMAIN r.identities = DOMAIN m.identities
<1>0. /\ N \in Nat /\ DOMAIN Group = 1..N
      /\ GroupKey \in Persons
      /\ \A i \in 1..N : Group[i] \in DOMAIN m.identities
                         /\ m.identities[Group[i]].speaker = GroupKey
  <2>1. Group \in Seq(Past!Ids) /\ GroupKey \in SpeakerKeys
    BY PeopleAssumption DEF Past!MemoryAssumption
  <2>2. N \in Nat /\ DOMAIN Group = 1..N BY <2>1
  <2>. QED BY <2>1, <2>2 DEF Past!Curatable, Past!ActiveOf, Persons
<1>1. Past!Curated(m) = F[N] BY DEF Past!Curated, Past!Curation
<1>2. \E f : Is(f, N)
  <2>. DEFINE Bad == {k \in Nat : ~\E f : Is(f, k)}
  <2>1. ASSUME Bad # {} PROVE FALSE
    <3>1. PICK k \in Bad : \A j \in Bad : k <= j
      <4>1. Bad \subseteq Nat OBVIOUS
      <4>. HIDE DEF Bad
      <4>. QED BY <2>1, <4>1, LeastNumber
    <3>2. CASE k = 0
      <4>. DEFINE f == [i \in 0..0 |-> m]
      <4>1. Is(f, 0) OBVIOUS
      <4>. QED BY <3>2, <4>1
    <3>3. CASE k # 0
      <4>1. k \in Nat /\ k - 1 \in Nat /\ k - 1 \notin Bad
        <5>1. Bad \subseteq Nat OBVIOUS
        <5>. HIDE DEF Bad
        <5>. QED BY <3>1, <3>3, <5>1
      <4>2. PICK f : Is(f, k - 1) BY <4>1
      <4>. DEFINE x == Past!Linked(f[k - 1], Group[k])
                  g == [i \in 0..k |-> IF i = k THEN x ELSE f[i]]
      <4>3. \A i \in 0..(k - 1) : f[i] = B(f, i) BY <4>2
      <4>4. \A i \in 0..k : g[i] = B(g, i) BY <3>3, <4>1, <4>3
      <4>5. Is(g, k) BY <4>4
      <4>. QED BY <4>5
    <3>. QED BY <3>2, <3>3
  <2>. QED BY <1>0, <2>1
<1>3. Is(F, N) BY <1>2
<1>4. \A i \in 0..N : F[i] = B(F, i) BY <1>3
<1>. HIDE DEF F
<1>5. \A i \in 0..N : Fine(F[i])
  <2>. DEFINE Bad == {i \in 0..N : ~Fine(F[i])}
  <2>1. ASSUME Bad # {} PROVE FALSE
    <3>1. PICK i \in Bad : \A j \in Bad : i <= j
      <4>1. Bad \subseteq Nat BY <1>0
      <4>. HIDE DEF Bad
      <4>. QED BY <2>1, <4>1, LeastNumber
    <3>2. CASE i = 0
      <4>1. F[0] = m BY <1>4, <3>1, <3>2
      <4>2. Fine(m) BY DEF SpeakersKept
      <4>. QED BY <3>1, <3>2, <4>1, <4>2
    <3>3. CASE i # 0
      <4>. DEFINE n == F[i - 1]
                  d == Group[i]
      <4>1. i - 1 \in 0..N /\ i - 1 \notin Bad /\ i \in 1..N BY <1>0, <3>1, <3>3
      <4>2. Fine(n) BY <4>1
      <4>3. F[i] = Past!Linked(n, d) BY <1>4, <3>1, <3>3
      <4>4. d \in DOMAIN n.identities /\ n.identities[d].speaker = GroupKey
        BY <1>0, <4>1, <4>2 DEF SpeakersKept
      <4>. HIDE DEF n, d
      <4>. DEFINE r == Past!Resolved(n, d, GroupKey, "link")
      <4>5. /\ MemoryOK(r, X) /\ DOMAIN r.identities = DOMAIN n.identities
            /\ \A x \in DOMAIN n.identities : r.identities[x].speaker =
                   IF x = d THEN GroupKey ELSE n.identities[x].speaker
        BY <1>0, <4>2, <4>4, ResolvedOK
      <4>6. Fine(r)
        <5>. HIDE DEF r
        <5>. QED BY <4>2, <4>4, <4>5 DEF SpeakersKept
      <4>7. Past!Linked(n, d) = n \/ Past!Linked(n, d) = r BY DEF Past!Linked
      <4>. HIDE DEF Fine, r
      <4>8. Fine(F[i]) BY <4>2, <4>3, <4>6, <4>7
      <4>. QED BY <3>1, <4>8
    <3>. QED BY <3>2, <3>3
  <2>. QED BY <2>1
<1>. QED BY <1>0, <1>1, <1>5

LEMMA MemoryFacts == \A S : Past!Cardinality(S) = Cardinality(S)
BY DEF Past!Cardinality, Cardinality, Past!IsFiniteSet, IsFiniteSet

\* More identities decided beside an import excuse more.
LEMMA MemoryExcused ==
    ASSUME NEW m, NEW X, NEW Y, X \subseteq Y, MemoryOK(m, X)
    PROVE  MemoryOK(m, Y)
BY DEF MemoryOK, Credited, Shown

\* Rows that keep who the identities are do not disturb the imports under way.
LEMMA ImportsStay ==
    ASSUME NEW q, NEW m, NEW X, HasRead(q, m, X),
           NEW r, SpeakersKept(m, r), NEW Y, X \subseteq Y
    PROVE  HasRead(q, r, Y)
BY DEF HasRead, SpeakersKept

LEMMA PastStart == Past!Init => PastInv
<1>. SUFFICES ASSUME Past!Init PROVE PastInv OBVIOUS
<1>1. /\ memory = [identities |-> <<>>, credits |-> {}, speakers |-> <<>>, decisions |-> <<>>]
      /\ importers = [w \in Importers |-> Past!Idle] /\ crossed = {}
  BY DEF Past!Init
<1>2. MemoryTypes(memory) BY <1>1 DEF MemoryTypes
<1>3. MemoryOK(memory, crossed)
  BY <1>1, <1>2 DEF MemoryOK, Credited, Shown, Decided
<1>. QED BY <1>1, <1>3 DEF PastInv, Past!Idle

LEMMA PastStep ==
    ASSUME PastInv, [Past!Next]_(Past!vars)
    PROVE  PastInv'
<1>0. /\ MemoryOK(memory, crossed) /\ DOMAIN importers = Importers
      /\ \A w \in Importers : importers[w].pc = "import" => HasRead(importers[w], memory, crossed)
  BY DEF PastInv
<1>1. CASE UNCHANGED Past!vars
  <2>1. memory' = memory /\ crossed' = crossed /\ importers' = importers BY <1>1 DEF Past!vars
  <2>2. SpeakersKept(memory, memory') BY <2>1 DEF SpeakersKept
  <2>3. \A w \in Importers :
           importers'[w].pc = "import" => HasRead(importers'[w], memory', crossed')
    BY <1>0, <2>1, <2>2, ImportsStay
  <2>. QED BY <1>0, <2>1, <2>3 DEF PastInv
<1>2. ASSUME NEW w \in Importers, NEW e \in Past!Editions, NEW prune \in BOOLEAN,
             NEW curated \in BOOLEAN, NEW doc \in Past!Documents(e),
             Past!BeginImport(w, e, doc, prune, curated)
      PROVE  PastInv'
  <2>. DEFINE q == [pc |-> "import", edition |-> e, doc |-> doc, prune |-> prune,
                    curated |-> curated, known |-> DOMAIN memory.identities,
                    who |-> [d \in Past!Named(doc) |-> IF d \in DOMAIN memory.identities
                             THEN memory.identities[d].speaker ELSE Past!KeyOf(doc, d)]]
  <2>1. /\ importers' = [importers EXCEPT ![w] = q]
        /\ memory' = memory /\ crossed' = crossed
    BY <1>2 DEF Past!BeginImport, Past!Become
  <2>2. /\ q.edition = e /\ q.doc = doc /\ q.known = DOMAIN memory.identities
        /\ \A d \in Past!Named(doc) : q.who[d] = IF d \in DOMAIN memory.identities
                             THEN memory.identities[d].speaker ELSE Past!KeyOf(doc, d)
    OBVIOUS
  <2>. HIDE DEF q
  <2>3. \A d \in Past!Named(doc) : q.who[d] \in Persons
    BY <1>0, <2>2, DocumentFacts DEF MemoryOK, MemoryTypes, Persons
  <2>4. HasRead(q, memory, crossed) BY <2>2, <2>3 DEF HasRead
  <2>5. SpeakersKept(memory, memory') BY <2>1 DEF SpeakersKept
  <2>6. \A v \in Importers :
           importers'[v].pc = "import" => HasRead(importers'[v], memory, crossed)
    BY <1>0, <2>1, <2>4
  <2>7. \A v \in Importers :
           importers'[v].pc = "import" => HasRead(importers'[v], memory', crossed')
    BY <2>1, <2>5, <2>6, ImportsStay
  <2>. QED BY <1>0, <2>1, <2>7 DEF PastInv
<1>3. ASSUME NEW w \in Importers, Past!CommitImport(w) PROVE PastInv'
  <2>. DEFINE q == importers[w]
              i == Past!Imported(memory, q.edition, q.doc, q.who)
              m == IF q.prune THEN Past!Pruned(i, q.edition, q.doc) ELSE i
  <2>1. /\ q.pc = "import"
        /\ importers' = [importers EXCEPT ![w] = Past!Idle] /\ crossed' = crossed
        /\ \/ memory' = memory
           \/ /\ Past!Named(q.doc) \cap DOMAIN memory.identities \subseteq q.known
              /\ \/ memory' = m
                 \/ Past!Curatable(m) /\ memory' = Past!Curated(m)
    BY <1>3 DEF Past!CommitImport, Past!Become
  <2>2. HasRead(q, memory, crossed) BY <1>0, <2>1
  <2>3. MemoryOK(memory', crossed) /\ SpeakersKept(memory, memory')
    <3>1. CASE memory' = memory BY <1>0, <3>1 DEF SpeakersKept
    <3>2. CASE /\ Past!Named(q.doc) \cap DOMAIN memory.identities \subseteq q.known
               /\ \/ memory' = m
                  \/ Past!Curatable(m) /\ memory' = Past!Curated(m)
      <4>1. WhoFits(memory, crossed, q.doc, q.who) BY <2>2, <3>2 DEF WhoFits, HasRead
      <4>2. q.edition \in Past!Editions /\ q.doc \in Past!Documents(q.edition)
        BY <2>2 DEF HasRead
      <4>3. MemoryOK(i, crossed) /\ SpeakersKept(memory, i) BY <1>0, <4>1, <4>2, ImportedOK
      <4>. HIDE DEF i
      <4>4. MemoryOK(m, crossed) /\ SpeakersKept(memory, m)
        <5>1. MemoryOK(Past!Pruned(i, q.edition, q.doc), crossed)
              /\ SpeakersKept(i, Past!Pruned(i, q.edition, q.doc))
          BY <4>3, PrunedOK
        <5>. QED BY <4>3, <5>1 DEF SpeakersKept
      <4>. HIDE DEF m
      <4>5. Past!Curatable(m) =>
              MemoryOK(Past!Curated(m), crossed) /\ SpeakersKept(memory, Past!Curated(m))
        BY <4>4, CuratedOK DEF SpeakersKept
      <4>. QED BY <3>2, <4>4, <4>5
    <3>. HIDE DEF m
    <3>. QED BY <2>1, <3>1, <3>2
  <2>4. ASSUME NEW v \in Importers, importers'[v].pc = "import"
        PROVE  importers'[v] = importers[v] /\ HasRead(importers[v], memory, crossed)
    BY <1>0, <2>1, <2>4 DEF Past!Idle
  <2>5. \A v \in Importers :
           importers'[v].pc = "import" => HasRead(importers'[v], memory', crossed')
    BY <2>1, <2>3, <2>4, ImportsStay
  <2>. QED BY <1>0, <2>1, <2>3, <2>5 DEF PastInv
<1>4. ASSUME NEW d \in DOMAIN memory.identities, NEW s \in SpeakerKeys \cup Splits,
             NEW action \in {"link", "relink", "split"}, Past!Resolve(d, s, action)
      PROVE  PastInv'
  <2>1. /\ memory' = Past!Resolved(memory, d, s, action)
        /\ importers' = importers /\ crossed \subseteq crossed'
        /\ \A w \in Importers : importers[w].pc = "import" /\ d \in Past!Named(importers[w].doc)
             => d \in crossed'
    BY <1>4 DEF Past!Resolve
  <2>2. /\ MemoryOK(memory', crossed)
        /\ DOMAIN memory'.identities = DOMAIN memory.identities
        /\ \A x \in DOMAIN memory.identities :
             x # d => memory'.identities[x].speaker = memory.identities[x].speaker
    BY <1>0, <2>1, ResolvedOK DEF Persons
  <2>3. MemoryOK(memory', crossed') BY <2>1, <2>2, MemoryExcused
  <2>4. ASSUME NEW w \in Importers, importers[w].pc = "import"
        PROVE  HasRead(importers[w], memory', crossed')
    <3>1. HasRead(importers[w], memory, crossed) BY <1>0, <2>4
    <3>2. d \in Past!Named(importers[w].doc) => d \in crossed' BY <2>1, <2>4
    <3>. QED BY <2>1, <2>2, <3>1, <3>2 DEF HasRead
  <2>. QED BY <1>0, <2>1, <2>3, <2>4 DEF PastInv
<1>. QED BY <1>1, <1>2, <1>3, <1>4 DEF Past!Next

\* The latest of the decisions about an identity exists if there is any.
LEMMA LastExists ==
    ASSUME NEW n \in Nat, NEW S \in SUBSET (1..n), S # {}
    PROVE  \E i \in S : \A j \in S : j <= i
<1>. DEFINE Left == {n - i : i \in S}
<1>0. \A i \in S : n - i \in Nat OBVIOUS
<1>1. Left \subseteq Nat /\ Left # {} BY <1>0
<1>2. PICK k \in Left : \A l \in Left : k <= l
  <2>. HIDE DEF Left
  <2>. QED BY <1>1, LeastNumber
<1>3. PICK i \in S : k = n - i OBVIOUS
<1>4. \A j \in S : k <= n - j BY <1>2
<1>. QED BY <1>3, <1>4

LEMMA PastInvStands == ASSUME PastInv PROVE Past!DecisionsStand
<1>1. /\ MemoryTypes(memory) /\ Credited(memory, crossed) /\ Shown(memory, crossed)
      /\ Decided(memory)
  BY DEF PastInv, MemoryOK
<1>. DEFINE Words == [identity : Past!Ids, prior : Persons, resolved : Persons]
<1>2. /\ Len(memory.decisions) \in Nat
      /\ DOMAIN memory.decisions = 1..Len(memory.decisions)
  <2>1. memory.decisions \in Seq(Words) BY <1>1 DEF MemoryTypes
  <2>. HIDE DEF Words
  <2>. QED BY <2>1
<1>3. ASSUME NEW d \in DOMAIN memory.identities
      PROVE  LET about == {i \in DOMAIN memory.decisions : memory.decisions[i].identity = d}
                 last  == CHOOSE i \in about : \A j \in about : j <= i
             IN about # {} => memory.identities[d].speaker = memory.decisions[last].resolved
  <2>. DEFINE about == {i \in DOMAIN memory.decisions : memory.decisions[i].identity = d}
              last  == CHOOSE i \in about : \A j \in about : j <= i
  <2>1. SUFFICES ASSUME about # {}
                 PROVE  memory.identities[d].speaker = memory.decisions[last].resolved
    OBVIOUS
  <2>2. about \in SUBSET (1..Len(memory.decisions)) BY <1>2
  <2>3. \E i \in about : \A j \in about : j <= i
    <3>. HIDE DEF about
    <3>. QED BY <1>2, <2>1, <2>2, LastExists
  <2>4. last \in about /\ \A j \in about : j <= last
    <3>. HIDE DEF about
    <3>. QED BY <2>3
  <2>. HIDE DEF last
  <2>5. last \in DOMAIN memory.decisions /\ LastAbout(memory, d, last)
    BY <2>4 DEF LastAbout
  <2>. QED BY <1>1, <2>5 DEF Decided
<1>4. \A d \in DOMAIN memory.identities \ crossed : \A c \in memory.credits :
        c.identity = d => c.speaker = memory.identities[d].speaker
  BY <1>1 DEF Credited
<1>5. \A t \in DOMAIN memory.speakers :
        LET named == {c \in memory.credits : c.talk = t}
        IN {c.identity : c \in named} \cap crossed = {} =>
              memory.speakers[t] = {c.speaker : c \in named}
  BY <1>1 DEF Shown, NamedIn
<1>6. ASSUME NEW s \in Past!Returning
      PROVE  \E i \in DOMAIN memory.decisions : memory.decisions[i].resolved = s
  <2>. DEFINE sure == {a \in Past!ActiveOf(memory, s) : memory.identities[a].status = "verified"}
              held == {Past!EditionOfIdentity(a) : a \in sure}
  <2>1. Cardinality(held) >= 2 BY MemoryFacts DEF Past!Returning
  <2>2. held # {}
    <3>. HIDE DEF held
    <3>. QED BY <2>1, FS_EmptySet
  <2>3. PICK a \in sure : TRUE BY <2>2
  <2>4. a \in DOMAIN memory.identities /\ memory.identities[a].speaker = s
        /\ memory.identities[a].status = "verified"
    BY <2>3 DEF Past!ActiveOf
  <2>. QED BY <1>1, <2>4 DEF Decided
<1>. QED BY <1>3, <1>4, <1>5, <1>6 DEF Past!DecisionsStand

\* What operators decided about past speakers stands after every import, with or
\* without the bundled decisions; a talk shows who its credits name, and a returning
\* speaker was decided to be one.
THEOREM DecisionsOutliveImports == PeopleSpec => []DecisionsStand
<1>1. PeopleInit => PastInv BY PastStart DEF PeopleInit
<1>2. PastInv /\ [PeopleNext]_peopleVars => PastInv' BY PartSteps, PastStep
<1>3. PastInv => DecisionsStand BY PastInvStands DEF DecisionsStand
<1>. QED BY <1>1, <1>2, <1>3, PTL DEF PeopleSpec, peopleVars

-----------------------------------------------------------------------------
(* What is told: the rows that the answers' queries take for granted.        *)

Statuses == {"none", "pending", "reopened", "complete", "waived"}
Reviews  == {"pending", "approved", "changes_requested"}

ReadyTypes ==
    /\ state \in [Proposals -> {"draft", "submitted", "accepted", "confirmed", "rejected",
                                "withdrawn"}]
    /\ wip \in [Proposals -> Nat]
    /\ duties \in [Told!Duties -> Statuses]
    /\ files \in [Told!Files -> Seq(Reviews)]
    /\ items \in [Proposals -> Seq({"failed", "succeeded"})]

\* Nothing is done to a draft, and work is only on what was handed in.
NoDraft ==
    /\ decided \subseteq Told!Submitted /\ current \subseteq Told!Submitted
    /\ \A p \in Proposals : wip[p] # 0 => p \in Told!Submitted
    /\ \A t \in Told!Duties : duties[t] # "none" => t[1] \in Told!Submitted

\* A file has a task, and the file of a completed task is not sent back.
FilesAsked ==
    \A f \in Told!Files :
        /\ files[f] # <<>> => duties[f] # "none"
        /\ duties[f] = "complete" => files[f] # <<>> /\ Told!Latest(f) # "changes_requested"

ReadyInv == ReadyTypes /\ NoDraft /\ FilesAsked

LEMMA ToldFacts ==
    /\ IsFiniteSet(Proposals) /\ Spoken \subseteq Proposals
    /\ Told!Files \subseteq Told!Duties
    /\ \A t \in Told!Duties : t[1] \in Proposals
    /\ Starts \subseteq Nat \ {0}
BY PeopleAssumption
   DEF Told!ReadinessAssumption, Told!Files, Told!Duties, Told!IsFiniteSet, IsFiniteSet

LEMMA SameCardinality == \A S : Told!Cardinality(S) = Cardinality(S)
BY DEF Told!Cardinality, Cardinality, Told!IsFiniteSet, IsFiniteSet

LEMMA Updated ==
    ASSUME NEW S, NEW s \in Seq(S), NEW n, NEW r \in S
    PROVE  [s EXCEPT ![n] = r] \in Seq(S)
<1>1. [s EXCEPT ![n] = r] = [k \in 1..Len(s) |-> IF k = n THEN r ELSE s[k]]
  OBVIOUS
<1>2. \A k \in 1..Len(s) : (IF k = n THEN r ELSE s[k]) \in S OBVIOUS
<1>3. Len(s) \in Nat OBVIOUS
<1>4. [k \in 1..Len(s) |-> IF k = n THEN r ELSE s[k]] \in [1..Len(s) -> S] BY <1>2
<1>5. \A m \in Nat : \A t \in [1..m -> S] : t \in Seq(S) OBVIOUS
<1>. QED BY <1>1, <1>3, <1>4, <1>5

\* One version reviewed.
LEMMA Reviewed ==
    ASSUME NEW s \in Seq(Reviews), NEW n \in DOMAIN s, NEW r \in Reviews
    PROVE  /\ [s EXCEPT ![n] = r] \in Seq(Reviews)
           /\ Len([s EXCEPT ![n] = r]) = Len(s)
           /\ [s EXCEPT ![n] = r] # <<>>
           /\ \A k \in DOMAIN s : [s EXCEPT ![n] = r][k] = IF k = n THEN r ELSE s[k]
OBVIOUS

LEMMA Handed ==
    ASSUME NEW s \in Seq(Reviews)
    PROVE  /\ Append(s, "pending") \in Seq(Reviews)
           /\ Append(s, "pending") # <<>>
           /\ Append(s, "pending")[Len(Append(s, "pending"))] = "pending"
BY DEF Reviews

LEMMA ReadyStart == Told!Init => ReadyInv
<1>. SUFFICES ASSUME Told!Init PROVE ReadyInv
  OBVIOUS
<1>1. /\ state = [p \in Proposals |-> IF p \in Seeded THEN "accepted" ELSE "draft"]
      /\ decided = {} /\ current = {}
      /\ duties = [t \in Told!Duties |->
                      IF t \in Seeded \X Planned THEN "pending" ELSE "none"]
      /\ files = [f \in Told!Files |-> <<>>]
      /\ wip = [p \in Proposals |-> 0]
      /\ items = [p \in Proposals |-> <<>>]
  BY DEF Told!Init
<1>2. ReadyTypes BY <1>1 DEF ReadyTypes, Statuses
<1>3. NoDraft
  <2>1. \A t \in Told!Duties : duties[t] # "none" => t[1] \in Seeded BY <1>1
  <2>. QED BY <1>1, <2>1, ToldFacts DEF NoDraft, Told!Submitted
<1>4. FilesAsked BY <1>1, ToldFacts DEF FilesAsked
<1>. QED BY <1>2, <1>3, <1>4 DEF ReadyInv

\* What a step of a proposal on its way does to its state, if anything.
LEMMA Onward ==
    ASSUME ReadyTypes, NEW p \in Proposals, NEW from,
           NEW to \in {"submitted", "accepted", "confirmed", "rejected", "withdrawn"},
           Told!Become(p, from, to)
    PROVE  /\ state' \in [Proposals -> {"draft", "submitted", "accepted", "confirmed",
                                        "rejected", "withdrawn"}]
           /\ Told!Submitted' = Told!Submitted \cup {p}
BY DEF Told!Become, ReadyTypes, Told!Submitted

\* A step that leaves the state of the proposals.
LEMMA StateStays ==
    ASSUME UNCHANGED state PROVE Told!Submitted' = Told!Submitted
BY DEF Told!Submitted

\* A step that adds no file and completes no task.
LEMMA FilesWait ==
    ASSUME FilesAsked, UNCHANGED files,
           \A f \in Told!Files : \/ duties'[f] = duties[f]
                                 \/ duties'[f] \notin {"none", "complete"}
    PROVE  FilesAsked'
BY DEF FilesAsked, Told!Latest

\* A step of the proposals, their decisions and the schedule.
LEMMA ProgramMoves ==
    ASSUME ReadyInv, UNCHANGED <<duties, files, items>>,
           state' \in [Proposals -> {"draft", "submitted", "accepted", "confirmed",
                                     "rejected", "withdrawn"}],
           Told!Submitted \subseteq Told!Submitted',
           decided' \subseteq Told!Submitted', current' \subseteq Told!Submitted',
           wip' \in [Proposals -> Nat],
           \A p \in Proposals : wip'[p] # 0 => p \in Told!Submitted'
    PROVE  ReadyInv'
<1>1. ReadyTypes' BY DEF ReadyInv, ReadyTypes
<1>2. NoDraft' BY DEF ReadyInv, NoDraft
<1>3. FilesAsked' BY FilesWait DEF ReadyInv
<1>. QED BY <1>1, <1>2, <1>3 DEF ReadyInv

\* A step of the tasks and their files.
LEMMA WorkMoves ==
    ASSUME ReadyInv, UNCHANGED <<state, decided, current, wip, items>>,
           duties' \in [Told!Duties -> Statuses], files' \in [Told!Files -> Seq(Reviews)],
           \A t \in Told!Duties :
               duties'[t] # "none" => duties[t] # "none" \/ t[1] \in Told!Submitted,
           FilesAsked'
    PROVE  ReadyInv'
<1>1. ReadyTypes' BY DEF ReadyInv, ReadyTypes
<1>2. NoDraft' BY StateStays DEF ReadyInv, NoDraft
<1>. QED BY <1>1, <1>2 DEF ReadyInv

LEMMA ReadyStep ==
    ASSUME ReadyInv, [Told!Next]_(Told!vars)
    PROVE  ReadyInv'
<1>0. /\ ReadyTypes /\ NoDraft /\ FilesAsked
      /\ state \in [Proposals -> {"draft", "submitted", "accepted", "confirmed", "rejected",
                                  "withdrawn"}]
      /\ wip \in [Proposals -> Nat]
      /\ duties \in [Told!Duties -> Statuses]
      /\ files \in [Told!Files -> Seq(Reviews)]
      /\ decided \subseteq Told!Submitted /\ current \subseteq Told!Submitted
      /\ \A p \in Proposals : wip[p] # 0 => p \in Told!Submitted
      /\ \A t \in Told!Duties : duties[t] # "none" => t[1] \in Told!Submitted
  BY DEF ReadyInv, ReadyTypes, NoDraft
<1>. USE DEF Told!program, Told!work, Told!schedule, Told!outside
<1>1. CASE UNCHANGED Told!vars
  <2>1. /\ UNCHANGED <<state, wip, duties, files, items, decided, current>>
    BY <1>1 DEF Told!vars
  <2>. QED BY <1>0, <2>1, StateStays, ProgramMoves
\* One proposal moves on.
<1>2. ASSUME NEW p \in Proposals, Told!Submit(p) \/ Told!Confirm(p) PROVE ReadyInv'
  <2>1. \/ Told!Become(p, {"draft"}, "submitted") \/ Told!Become(p, {"accepted"}, "confirmed")
    BY <1>2 DEF Told!Submit, Told!Confirm
  <2>2. UNCHANGED <<decided, duties, files, wip, current, items>>
    BY <1>2 DEF Told!Submit, Told!Confirm
  <2>3. /\ state' \in [Proposals -> {"draft", "submitted", "accepted", "confirmed",
                                     "rejected", "withdrawn"}]
        /\ Told!Submitted' = Told!Submitted \cup {p}
    BY <1>0, <2>1, Onward
  <2>. QED BY <1>0, <2>2, <2>3, ProgramMoves
<1>3. ASSUME NEW p \in Proposals, Told!Leave(p) PROVE ReadyInv'
  <2>1. \/ Told!Become(p, {"submitted"}, "rejected")
        \/ Told!Become(p, Told!Accepted, "withdrawn")
    BY <1>3 DEF Told!Leave
  <2>2. /\ wip' = [wip EXCEPT ![p] = 0]
        /\ UNCHANGED <<decided, duties, files, current, items>>
    BY <1>3 DEF Told!Leave
  <2>3. /\ state' \in [Proposals -> {"draft", "submitted", "accepted", "confirmed",
                                     "rejected", "withdrawn"}]
        /\ Told!Submitted' = Told!Submitted \cup {p}
    BY <1>0, <2>1, Onward
  <2>4. wip' \in [Proposals -> Nat] /\ \A r \in Proposals : wip'[r] # 0 => wip[r] # 0
    BY <1>0, <2>2
  <2>. QED BY <1>0, <2>2, <2>3, <2>4, ProgramMoves
<1>4. ASSUME NEW p \in Proposals, Told!Review(p) PROVE ReadyInv'
  <2>1. UNCHANGED <<state, decided, duties, files, wip, current, items>>
    BY <1>4 DEF Told!Review
  <2>. QED BY <1>0, <2>1, StateStays, ProgramMoves
<1>5. ASSUME NEW p \in Proposals, Told!Stage(p) PROVE ReadyInv'
  <2>1. /\ p \in Told!Submitted /\ decided' = decided \cup {p}
        /\ UNCHANGED <<state, duties, files, wip, current, items>>
    BY <1>5 DEF Told!Stage, Told!Submitted
  <2>. QED BY <1>0, <2>1, StateStays, ProgramMoves
<1>6. ASSUME NEW p \in Proposals, NEW start \in Starts, Told!Place(p, start) PROVE ReadyInv'
  <2>1. /\ p \in Told!Submitted /\ wip' = [wip EXCEPT ![p] = start]
        /\ UNCHANGED <<state, decided, duties, files, current, items>>
    BY <1>6 DEF Told!Place, Told!Submitted, Told!Accepted
  <2>2. /\ wip' \in [Proposals -> Nat]
        /\ \A r \in Proposals : wip'[r] # 0 => r = p \/ wip[r] # 0
    BY <1>0, <2>1, ToldFacts
  <2>. QED BY <1>0, <2>1, <2>2, StateStays, ProgramMoves
<1>7. ASSUME Told!Release PROVE ReadyInv'
  <2>1. /\ current' = {p \in Proposals : wip[p] # 0}
        /\ UNCHANGED <<state, decided, duties, files, wip, items>>
    BY <1>7 DEF Told!Release
  <2>. QED BY <1>0, <2>1, StateStays, ProgramMoves
\* The plan comes with the acceptance.
<1>8. ASSUME NEW p \in Proposals, Told!Accept(p) PROVE ReadyInv'
  <2>1. /\ Told!Become(p, {"submitted"}, "accepted")
        /\ duties' = [t \in Told!Duties |->
                         IF t \in {p} \X Planned THEN "pending" ELSE duties[t]]
        /\ UNCHANGED <<decided, files, wip, current, items>>
    BY <1>8 DEF Told!Accept
  <2>2. /\ state' \in [Proposals -> {"draft", "submitted", "accepted", "confirmed",
                                     "rejected", "withdrawn"}]
        /\ Told!Submitted' = Told!Submitted \cup {p}
    BY <1>0, <2>1, Onward
  <2>3. duties' \in [Told!Duties -> Statuses] BY <1>0, <2>1 DEF Statuses
  <2>4. ReadyTypes' BY <1>0, <2>1, <2>2, <2>3 DEF ReadyTypes
  <2>5. \A t \in Told!Duties : duties'[t] = duties[t] \/ (duties'[t] = "pending" /\ t[1] = p)
    BY <2>1
  <2>6. NoDraft' BY <1>0, <2>1, <2>2, <2>5 DEF NoDraft
  <2>7. FilesAsked' BY <1>0, <2>1, <2>5, FilesWait, ToldFacts
  <2>. QED BY <2>4, <2>6, <2>7 DEF ReadyInv
\* A task changes, no file does.
<1>9. ASSUME NEW t \in Told!Duties, NEW to \in {"pending", "reopened", "waived"},
             duties' = [duties EXCEPT ![t] = to],
             duties[t] # "none" \/ t[1] \in Told!Submitted,
             UNCHANGED <<state, decided, files, wip, current, items>>
      PROVE  ReadyInv'
  <2>1. duties' \in [Told!Duties -> Statuses] BY <1>0, <1>9 DEF Statuses
  <2>2. FilesAsked' BY <1>0, <1>9, FilesWait, ToldFacts
  <2>. QED BY <1>0, <1>9, <2>1, <2>2, WorkMoves
<1>10. ASSUME NEW t \in Told!Duties, Told!Reopen(t) \/ Told!Waive(t) PROVE ReadyInv'
  <2>1. \/ duties' = [duties EXCEPT ![t] = "reopened"] \/ duties' = [duties EXCEPT ![t] = "waived"]
    BY <1>10 DEF Told!Reopen, Told!Waive
  <2>2. duties[t] # "none" /\ UNCHANGED <<state, decided, files, wip, current, items>>
    BY <1>10 DEF Told!Reopen, Told!Waive, Told!Active
  <2>. QED BY <1>9, <2>1, <2>2
<1>11. ASSUME NEW f \in Told!Files, Told!RequestFile(f) PROVE ReadyInv'
  <2>1. f[1] \in Told!Submitted /\ f \in Told!Duties
    BY <1>11, ToldFacts DEF Told!RequestFile, Told!Accepted, Told!Submitted
  <2>. QED BY <1>9, <1>11, <2>1 DEF Told!RequestFile
<1>12. ASSUME NEW t \in Told!Duties, Told!Complete(t) PROVE ReadyInv'
  <2>1. /\ duties[t] \in Told!Active /\ duties' = [duties EXCEPT ![t] = "complete"]
        /\ files' = IF t \in Told!Files THEN [files EXCEPT ![t] = Append(files[t], "pending")]
                    ELSE files
        /\ UNCHANGED <<state, decided, wip, current, items>>
    BY <1>12 DEF Told!Complete
  <2>2. duties' \in [Told!Duties -> Statuses] BY <1>0, <2>1 DEF Statuses
  <2>3. CASE t \in Told!Files
    <3>1. PICK s \in Seq(Reviews) :
              /\ s = Append(files[t], "pending")
              /\ s # <<>> /\ s[Len(s)] = "pending"
      BY <1>0, <2>3, Handed
    <3>2. files' = [files EXCEPT ![t] = s] BY <2>1, <2>3, <3>1
    <3>3. files' \in [Told!Files -> Seq(Reviews)] BY <1>0, <3>2
    <3>4. FilesAsked'
      <4>1. ASSUME NEW f \in Told!Files
            PROVE  /\ files'[f] # <<>> => duties'[f] # "none"
                   /\ duties'[f] = "complete" =>
                         files'[f] # <<>> /\ files'[f][Len(files'[f])] # "changes_requested"
        <5>1. CASE f = t
          <6>1. files'[f] = s /\ duties'[f] = "complete" BY <1>0, <2>1, <2>3, <3>2, <5>1
          <6>. QED BY <3>1, <6>1
        <5>2. CASE f # t
          <6>1. files'[f] = files[f] /\ duties'[f] = duties[f]
            BY <1>0, <2>1, <3>2, <5>2, ToldFacts
          <6>. QED BY <1>0, <6>1 DEF FilesAsked, Told!Latest
        <5>. QED BY <5>1, <5>2
      <4>. QED BY <4>1 DEF FilesAsked, Told!Latest
    <3>. QED BY <1>0, <2>1, <2>2, <3>3, <3>4, WorkMoves DEF Told!Active
  <2>4. CASE t \notin Told!Files
    <3>1. UNCHANGED files /\ \A f \in Told!Files : duties'[f] = duties[f]
      BY <1>0, <2>1, <2>4, ToldFacts
    <3>2. FilesAsked' BY <1>0, <3>1, FilesWait
    <3>. QED BY <1>0, <2>1, <2>2, <3>1, <3>2, WorkMoves DEF Told!Active
  <2>. QED BY <2>3, <2>4
<1>13. ASSUME NEW f \in Told!Files, Told!Replace(f) PROVE ReadyInv'
  <2>1. /\ duties[f] = "complete" /\ files' = [files EXCEPT ![f] = Append(files[f], "pending")]
        /\ UNCHANGED <<state, decided, duties, wip, current, items>>
    BY <1>13 DEF Told!Replace
  <2>2. PICK s \in Seq(Reviews) :
            /\ s = Append(files[f], "pending")
            /\ s # <<>> /\ s[Len(s)] = "pending"
    BY <1>0, Handed
  <2>3. files' = [files EXCEPT ![f] = s] BY <2>1, <2>2
  <2>4. files' \in [Told!Files -> Seq(Reviews)] BY <1>0, <2>3
  <2>5. FilesAsked'
    <3>1. \A g \in Told!Files : files'[g] = IF g = f THEN s ELSE files[g] BY <1>0, <2>3
    <3>. QED BY <1>0, <2>1, <2>2, <3>1 DEF FilesAsked, Told!Latest
  <2>. QED BY <1>0, <2>1, <2>4, <2>5, WorkMoves
<1>14. ASSUME NEW f \in Told!Files, NEW n \in DOMAIN files[f], Told!ApproveFile(f, n)
       PROVE  ReadyInv'
  <2>1. /\ files' = [files EXCEPT ![f] = [files[f] EXCEPT ![n] = "approved"]]
        /\ UNCHANGED <<state, decided, duties, wip, current, items>>
    BY <1>14 DEF Told!ApproveFile
  <2>2. files[f] \in Seq(Reviews) /\ "approved" \in Reviews BY <1>0 DEF Reviews
  <2>3. PICK s \in Seq(Reviews) :
            /\ s = [files[f] EXCEPT ![n] = "approved"] /\ s # <<>> /\ Len(s) = Len(files[f])
            /\ \A k \in DOMAIN files[f] : s[k] = IF k = n THEN "approved" ELSE files[f][k]
    <3>1. PICK h \in Seq(Reviews) : h = files[f] BY <2>2
    <3>2. PICK ok \in Reviews : ok = "approved" BY <2>2
    <3>3. n \in DOMAIN h BY <3>1
    <3>4. /\ [h EXCEPT ![n] = ok] \in Seq(Reviews) /\ Len([h EXCEPT ![n] = ok]) = Len(h)
          /\ [h EXCEPT ![n] = ok] # <<>>
          /\ \A k \in DOMAIN h : [h EXCEPT ![n] = ok][k] = IF k = n THEN ok ELSE h[k]
      BY <3>3, Reviewed
    <3>5. [h EXCEPT ![n] = ok] = [files[f] EXCEPT ![n] = "approved"] BY <3>1, <3>2
    <3>. QED BY <3>1, <3>2, <3>4, <3>5
  <2>4. files' = [files EXCEPT ![f] = s] BY <2>1, <2>3
  <2>5. files' \in [Told!Files -> Seq(Reviews)] BY <1>0, <2>4
  <2>6. files[f] # <<>> /\ Len(files[f]) \in DOMAIN files[f] BY <2>2
  <2>7. FilesAsked'
    <3>1. \A g \in Told!Files : files'[g] = IF g = f THEN s ELSE files[g] BY <1>0, <2>4
    <3>2. /\ s[Len(s)] = "changes_requested" => Told!Latest(f) = "changes_requested"
      BY <2>3, <2>6 DEF Told!Latest
    <3>. QED BY <1>0, <2>1, <2>3, <2>6, <3>1, <3>2 DEF FilesAsked, Told!Latest
  <2>. QED BY <1>0, <2>1, <2>5, <2>7, WorkMoves
<1>15. ASSUME NEW f \in Told!Files, NEW n \in DOMAIN files[f], Told!RequestChanges(f, n)
       PROVE  ReadyInv'
  <2>1. /\ files' = [files EXCEPT ![f] = [files[f] EXCEPT ![n] = "changes_requested"]]
        /\ duties' = [duties EXCEPT ![f] =
                         IF duties[f] = "complete" THEN "reopened" ELSE duties[f]]
        /\ UNCHANGED <<state, decided, wip, current, items>>
    BY <1>15 DEF Told!RequestChanges
  <2>2. files[f] \in Seq(Reviews) /\ "changes_requested" \in Reviews BY <1>0 DEF Reviews
  <2>3. PICK s \in Seq(Reviews) : s = [files[f] EXCEPT ![n] = "changes_requested"] /\ s # <<>>
    BY <2>2, Reviewed
  <2>4. files' = [files EXCEPT ![f] = s] BY <2>1, <2>3
  <2>5. files' \in [Told!Files -> Seq(Reviews)] BY <1>0, <2>4
  <2>6. files[f] # <<>> BY <2>2
  <2>7. f \in Told!Duties BY ToldFacts
  <2>8. /\ duties' \in [Told!Duties -> Statuses]
        /\ \A t \in Told!Duties : t # f => duties'[t] = duties[t]
        /\ duties'[f] # "complete" /\ (duties'[f] = "none" <=> duties[f] = "none")
    BY <1>0, <2>1, <2>7 DEF Statuses
  <2>9. FilesAsked'
    <3>1. \A g \in Told!Files : files'[g] = IF g = f THEN s ELSE files[g] BY <1>0, <2>4
    <3>. QED BY <1>0, <2>6, <2>8, <3>1, ToldFacts DEF FilesAsked, Told!Latest
  <2>10. \A t \in Told!Duties : duties'[t] # "none" => duties[t] # "none" BY <2>8
  <2>. QED BY <1>0, <2>1, <2>5, <2>8, <2>9, <2>10, WorkMoves
<1>16. ASSUME NEW p \in Proposals, NEW status, Told!Approve(p, status) PROVE ReadyInv'
  <2>1. UNCHANGED <<state, decided, duties, files, wip, current, items>>
    BY <1>16 DEF Told!Approve
  <2>. QED BY <1>0, <2>1, StateStays, ProgramMoves
<1>17. ASSUME Told!DueDate PROVE ReadyInv'
  <2>1. UNCHANGED <<state, decided, duties, files, wip, current, items>>
    BY <1>17 DEF Told!DueDate
  <2>. QED BY <1>0, <2>1, StateStays, ProgramMoves
\* The synchronization.
<1>18. ASSUME items' \in [Proposals -> Seq({"failed", "succeeded"})],
              UNCHANGED <<state, decided, duties, files, wip, current>>
       PROVE  ReadyInv'
  <2>1. ReadyTypes' BY <1>0, <1>18 DEF ReadyTypes
  <2>2. NoDraft' BY <1>0, <1>18, StateStays DEF NoDraft
  <2>3. FilesAsked' BY <1>0, <1>18, FilesWait
  <2>. QED BY <2>1, <2>2, <2>3 DEF ReadyInv
<1>19. ASSUME NEW failing \in SUBSET Proposals, Told!Sync(failing) PROVE ReadyInv'
  <2>1. items \in [Proposals -> Seq({"failed", "succeeded"})] BY <1>0 DEF ReadyTypes
  <2>. DEFINE sent == {p \in Spoken : state[p] = "accepted"}
              next(p) == IF p \in sent
                         THEN Append(items[p], IF p \in failing THEN "failed" ELSE "succeeded")
                         ELSE items[p]
  <2>2. \A p \in Proposals : next(p) \in Seq({"failed", "succeeded"}) BY <2>1
  <2>3. /\ items' = [p \in Proposals |-> next(p)]
        /\ UNCHANGED <<state, decided, duties, files, wip, current>>
    BY <1>19 DEF Told!Sync
  <2>. HIDE DEF next
  <2>. QED BY <1>18, <2>2, <2>3
<1>20. ASSUME NEW p \in Proposals, Told!Retry(p) PROVE ReadyInv'
  <2>1. items \in [Proposals -> Seq({"failed", "succeeded"})] BY <1>0 DEF ReadyTypes
  <2>2. PICK s \in Seq({"failed", "succeeded"}) :
            s = [items[p] EXCEPT ![Len(items[p])] = "succeeded"]
    <3>1. items[p] \in Seq({"failed", "succeeded"}) BY <2>1
    <3>2. [items[p] EXCEPT ![Len(items[p])] = "succeeded"] \in Seq({"failed", "succeeded"})
      BY <3>1, Updated
    <3>. QED BY <3>2
  <2>3. /\ items' = [items EXCEPT ![p] = s]
        /\ UNCHANGED <<state, decided, duties, files, wip, current>>
    BY <1>20, <2>2 DEF Told!Retry
  <2>. QED BY <1>18, <2>1, <2>3
<1>. QED
  <2>1. Moderated \subseteq Proposals BY PeopleAssumption DEF Told!ReadinessAssumption
  <2>. QED
    BY <1>1, <1>2, <1>3, <1>4, <1>5, <1>6, <1>7, <1>8, <1>10, <1>11, <1>12, <1>13, <1>14,
       <1>15, <1>16, <1>17, <1>19, <1>20, <2>1
    DEF Told!Next

-----------------------------------------------------------------------------
(* What is told: the answers.                                                *)

\* A stage of the funnel holds everything that was handed in.
LEMMA StageIsFull ==
    ASSUME NEW S, S \subseteq Told!Submitted, Cardinality(S) >= Cardinality(Told!Submitted)
    PROVE  S = Told!Submitted
<1>1. IsFiniteSet(Told!Submitted)
  <2>1. Told!Submitted \subseteq Proposals BY DEF Told!Submitted
  <2>. QED BY <2>1, FS_Subset, ToldFacts
<1>2. /\ IsFiniteSet(S) /\ Cardinality(S) <= Cardinality(Told!Submitted)
      /\ Cardinality(Told!Submitted) = Cardinality(S) => Told!Submitted = S
  BY <1>1, FS_Subset
<1>3. Cardinality(S) \in Nat /\ Cardinality(Told!Submitted) \in Nat
  BY <1>1, <1>2, FS_CardinalityType
<1>. QED BY <1>2, <1>3

LEMMA FileApproved ==
    ASSUME NEW f, Told!FileState(f) = "approved"
    PROVE  Told!HasFile(f) /\ Told!Latest(f) = "approved"
BY DEF Told!FileState

\* Whatever the file was, a completed task that nobody still has to look at has an
\* approved one.
LEMMA LookedAt ==
    ASSUME ReadyInv, NEW f \in Told!Files, duties[f] = "complete", Told!Unread = {}
    PROVE  Told!FileState(f) = "approved"
<1>1. files[f] \in Seq(Reviews) /\ files[f] # <<>> /\ Told!Latest(f) # "changes_requested"
  BY DEF ReadyInv, ReadyTypes, FilesAsked
<1>2. Len(files[f]) \in DOMAIN files[f] /\ Told!Latest(f) \in Reviews
  BY <1>1 DEF Told!Latest
<1>3. Told!Latest(f) # "pending"
  <2>1. SUFFICES ASSUME Told!Latest(f) = "pending" PROVE FALSE OBVIOUS
  <2>2. <<f, Len(files[f])>> \in Told!Unread BY <1>2, <2>1 DEF Told!Unread, Told!Latest
  <2>. QED BY <2>2
<1>4. Told!Latest(f) = "approved" BY <1>1, <1>2, <1>3 DEF Reviews
<1>. QED BY <1>1, <1>4 DEF Told!FileState, Told!HasFile

LEMMA ToldReady ==
    ASSUME ReadyInv, Told!Verdict = "ready"
    PROVE  /\ Told!ReleaseReasons = {} /\ Told!AttentionItems = {}
           /\ Told!Submitted \subseteq current
           /\ \A p \in Told!Submitted :
                 /\ Told!Checklist(p).pending = {}
                 /\ Told!Checklist(p).total = Told!Checklist(p).done
           /\ \A p \in Told!Sessions :
                 p \notin Told!Withheld /\ \A f \in Told!Blockers(p) : duties[f] = "waived"
           /\ Told!Status.done = Told!Status.total /\ ~Told!Status.backlog
<1>1. Told!FunnelComplete /\ Told!Risks = {} BY DEF Told!Verdict
<1>2. /\ Told!Warnings = {} /\ Told!Overdue = {} /\ Told!Missing = {} /\ Told!Withheld = {}
      /\ Told!Unread = {} /\ Told!Undecided = {} /\ Told!EverFailed = {} /\ ~stranded
  BY <1>1 DEF Told!Risks
<1>. DEFINE done(p) == \A t \in Told!Duties : t[1] = p => duties[t] \in Told!Done \cup {"none"}
            onboarded == {p \in Proposals :
                             /\ \E t \in Told!Duties : t[1] = p /\ duties[t] # "none"
                             /\ \A t \in Told!Duties : t[1] = p =>
                                    duties[t] \in Told!Done \cup {"none"}}
<1>3. /\ Cardinality(decided) >= Cardinality(Told!Submitted)
      /\ Cardinality(current) >= Cardinality(Told!Submitted)
      /\ Cardinality(onboarded) >= Cardinality(Told!Submitted)
  BY <1>1, SameCardinality DEF Told!FunnelComplete, Told!ExecutiveIds, Told!LifecycleIds
<1>4. /\ decided \subseteq Told!Submitted /\ current \subseteq Told!Submitted
      /\ \A t \in Told!Duties : duties[t] # "none" => t[1] \in Told!Submitted
      /\ duties \in [Told!Duties -> Statuses]
  BY DEF ReadyInv, NoDraft, ReadyTypes
<1>5. decided = Told!Submitted /\ current = Told!Submitted BY <1>3, <1>4, StageIsFull
<1>6. \A p \in Told!Submitted : done(p)
  <2>1. onboarded \subseteq Told!Submitted BY <1>4
  <2>2. onboarded = Told!Submitted BY <1>3, <2>1, StageIsFull
  <2>. QED BY <2>2
<1>7. \A t \in Told!Duties : duties[t] # "none" => duties[t] \in Told!Done BY <1>4, <1>6
<1>. HIDE DEF onboarded, done
<1>8. Told!ReleaseReasons = {}
  <2>1. \A p \in Proposals : approval[p] # "pending" BY <1>2 DEF Told!Withheld
  <2>. QED BY <1>2, <2>1 DEF Told!ReleaseReasons
<1>9. Told!AttentionItems = {}
  <2>1. Told!LifecycleIds.reviewed \ Told!LifecycleIds.decided = {}
    BY <1>5 DEF Told!LifecycleIds
  <2>. QED BY <1>2, <2>1 DEF Told!AttentionItems
<1>10. ASSUME NEW p \in Told!Submitted
       PROVE  /\ Told!Checklist(p).pending = {}
              /\ Told!Checklist(p).total = Told!Checklist(p).done
  <2>. DEFINE own == {t \in Told!Duties : t[1] = p /\ duties[t] # "none"}
  <2>1. {t \in own : duties[t] \in Told!Done} = own BY <1>7
  <2>2. {t \in own : duties[t] \notin Told!Done} = {} BY <1>7
  <2>3. /\ Told!Checklist(p).pending = {t \in own : duties[t] \notin Told!Done}
        /\ Told!Checklist(p).total = Told!Cardinality(own)
        /\ Told!Checklist(p).done = Told!Cardinality({t \in own : duties[t] \in Told!Done})
    BY DEF Told!Checklist
  <2>. HIDE DEF own
  <2>. QED BY <2>1, <2>2, <2>3
<1>11. ASSUME NEW p \in Told!Sessions
       PROVE  p \notin Told!Withheld /\ \A f \in Told!Blockers(p) : duties[f] = "waived"
  <2>1. ASSUME NEW f \in Told!Blockers(p) PROVE duties[f] = "waived"
    <3>1. /\ f \in Told!Files /\ f \in Told!Duties /\ duties[f] # "none"
          /\ Told!FileState(f) # "approved"
      BY <2>1, ToldFacts DEF Told!Blockers
    <3>2. duties[f] # "complete" BY <1>2, <3>1, LookedAt
    <3>. QED BY <1>7, <3>1, <3>2 DEF Told!Done
  <2>. QED BY <1>2, <2>1
<1>12. Told!Status.done = Told!Status.total /\ ~Told!Status.backlog
  <2>1. {t \in Told!Duties : duties[t] # "none"} = {t \in Told!Duties : duties[t] \in Told!Done}
    BY <1>7 DEF Told!Done
  <2>2. /\ Told!Status.total = Told!Cardinality({t \in Told!Duties : duties[t] # "none"})
        /\ Told!Status.done = Told!Cardinality({t \in Told!Duties : duties[t] \in Told!Done})
        /\ Told!Status.backlog = stranded
    BY DEF Told!Status
  <2>. QED BY <1>2, <2>1, <2>2
<1>. QED BY <1>5, <1>8, <1>9, <1>10, <1>11, <1>12

LEMMA ToldReleasable ==
    ASSUME ReadyInv, Told!ReleaseReasons = {}
    PROVE  /\ Told!RecoveryItems = {} /\ DOMAIN Told!Nudges = {}
           /\ \A kind \in {"conflicts", "undecided", "sync"} : Told!Drilldown(kind) = {}
<1>1. Told!Warnings = {} /\ Told!Overdue = {} /\ Told!Undecided = {} /\ Told!EverFailed = {}
  BY DEF Told!ReleaseReasons
<1>2. Told!RecoveryItems = {}
  <2>1. SUFFICES ASSUME NEW p \in Told!LatestFailed PROVE p \in Told!EverFailed
    BY <1>1 DEF Told!RecoveryItems
  <2>2. p \in Proposals /\ items[p] # <<>> /\ items[p][Len(items[p])] = "failed"
    BY DEF Told!LatestFailed
  <2>3. Len(items[p]) \in DOMAIN items[p]
    <3>1. items[p] \in Seq({"failed", "succeeded"}) BY <2>2 DEF ReadyInv, ReadyTypes
    <3>. QED BY <2>2, <3>1
  <2>. QED BY <2>2, <2>3 DEF Told!EverFailed
<1>3. DOMAIN Told!Nudges = {} BY <1>1 DEF Told!Nudges
<1>4. \A kind \in {"conflicts", "undecided", "sync"} : Told!Drilldown(kind) = {}
  BY <1>1 DEF Told!Drilldown
<1>. QED BY <1>2, <1>3, <1>4

LEMMA ToldAgrees == ASSUME ReadyInv PROVE Told!AnswersAgree
<1>1. ASSUME NEW p \in Proposals PROVE Told!Checklist(p).pending = Told!NextActions(p)
  <2>1. \A t \in Told!Duties : duties[t] \in Statuses BY DEF ReadyInv, ReadyTypes
  <2>2. \A t \in Told!Duties : (duties[t] # "none" /\ duties[t] \notin Told!Done)
                                  <=> duties[t] \in Told!Active
    BY <2>1 DEF Statuses, Told!Done, Told!Active
  <2>. DEFINE own == {t \in Told!Duties : t[1] = p /\ duties[t] # "none"}
  <2>3. Told!Checklist(p).pending = {t \in own : duties[t] \notin Told!Done}
    BY DEF Told!Checklist
  <2>. QED BY <2>2, <2>3 DEF Told!NextActions
<1>2. Told!Counts.tasks = Told!Cardinality(Told!Drilldown("tasks"))
  BY DEF Told!Counts, Told!Drilldown
<1>. QED BY <1>1, <1>2, ToldReady, ToldReleasable DEF Told!AnswersAgree

LEMMA ToldBundle == ASSUME ReadyInv PROVE Told!BundleIsApproved
<1>. SUFFICES ASSUME NEW p \in Told!Sessions, Told!ContentReady(p),
                     NEW v \in Told!Bundle({f \in Told!Files : f[1] = p})
              PROVE  /\ files[v[1]][v[2]] = "approved"
                     /\ v[1] \in Told!ContentRows("approved")
  BY DEF Told!BundleIsApproved
<1>1. PICK f \in Told!Files : f[1] = p /\ Told!HasFile(f) /\ v = <<f, Len(files[f])>>
  BY DEF Told!Bundle
<1>2. duties[f] # "none" BY <1>1 DEF ReadyInv, FilesAsked, Told!HasFile
<1>3. Told!FileState(f) = "approved"
  BY <1>1, <1>2 DEF Told!ContentReady, Told!Blockers
<1>4. Told!Latest(f) = "approved" BY <1>3, FileApproved
<1>. QED BY <1>1, <1>2, <1>4 DEF Told!Latest, Told!ContentRows

\* The rows are as the answers take them: nothing is done to a draft, a file has its
\* task, and the file of a completed task was not sent back.
THEOREM RowsAreReady == PeopleSpec => []ReadyInv
<1>1. PeopleInit => ReadyInv BY ReadyStart DEF PeopleInit
<1>2. ReadyInv /\ [PeopleNext]_peopleVars => ReadyInv' BY PartSteps, ReadyStep
<1>. QED BY <1>1, <1>2, PTL DEF PeopleSpec, peopleVars

\* Who is told "ready" finds nothing left to do in any other answer, and who may
\* release finds nothing to retry, to nudge or to decide.
THEOREM AnswersDoNotContradict == PeopleSpec => []AnswersAgree
<1>1. ReadyInv => AnswersAgree BY ToldAgrees DEF AnswersAgree
<1>. QED BY <1>1, RowsAreReady, PTL

\* The bundle of a session that is called ready has approved versions only.
THEOREM ReadyBundleIsApproved == PeopleSpec => []BundleIsApproved
<1>1. ReadyInv => BundleIsApproved BY ToldBundle DEF BundleIsApproved
<1>. QED BY <1>1, RowsAreReady, PTL
=============================================================================
