------------------------------- MODULE People -------------------------------
(***************************************************************************)
(* What is kept and told of the people of an event, beside their tasks:    *)
(* the desk with the content pages, the organiser's contacts, the memory   *)
(* of past editions and what is told of the event.  The four share no row  *)
(* and no request, so a behaviour runs one of them, the part, and leaves   *)
(* the others as they start; the properties of a part are those of its     *)
(* behaviours.                                                             *)
(***************************************************************************)
CONSTANTS
    Speakers, Session, Texts, Images, DeskStatuses, Links,      \* the desk
    Writers, MaxWrites, MaxLosses,
    Known, MaxContacts, Facts, Stages, Events, Segments,    \* the contacts
    Keepers, MaxKept, MaxStops,
    Talks, EditionOf(_), Keyed, SpeakerKeys, Splits, Group, GroupKey,  \* past editions
    Importers, MaxImports,
    Proposals, Spoken, Seeded, DutyKinds, Planned, FileKinds,     \* what is told
    Starts, Moderated, MaxVersions, MaxRuns, MaxSetbacks

VARIABLES
    part,
    text, desk, avatar, onStage, assigned, slugs, revisions, mailLog, outbox,
    writers, writes, losses,
    contacts, cards, history, outreach, links, segments, keepers, kept, stops, unlisted,
    memory, importers, imports, crossed,
    state, reviewed, decided, duties, files, approval, wip, current, items, past, stranded,
    setbacks

profiles == <<text, desk, avatar, onStage, assigned, slugs, revisions, mailLog, outbox,
              writers, writes, losses>>
crm      == <<contacts, cards, history, outreach, links, segments, keepers, kept, stops,
              unlisted>>
editions == <<memory, importers, imports, crossed>>
told     == <<state, reviewed, decided, duties, files, approval, wip, current, items, past,
              stranded, setbacks>>

Desk == INSTANCE SpeakerDesk WITH
    Statuses <- DeskStatuses,
    Workers <- Writers, MaxRequests <- MaxWrites, MaxCrashes <- MaxLosses,
    tasks <- assigned, log <- mailLog, workers <- writers, requests <- writes,
    crashes <- losses

Crm == INSTANCE Contacts WITH
    Workers <- Keepers, MaxRequests <- MaxKept, MaxCrashes <- MaxStops,
    workers <- keepers, requests <- kept, crashes <- stops

Past == INSTANCE Memory WITH
    Keys <- SpeakerKeys,
    Workers <- Importers, MaxRequests <- MaxImports,
    workers <- importers, requests <- imports

Told == INSTANCE Readiness WITH
    Requests <- DutyKinds, Uploads <- FileKinds, tasks <- duties, evidence <- files

ASSUME PeopleAssumption ==
    /\ Desk!SpeakerDeskAssumption /\ Crm!ContactsAssumption /\ Past!MemoryAssumption
    /\ Told!ReadinessAssumption

PeopleInit == Desk!Init /\ Crm!Init /\ Past!Init /\ Told!Init
PeopleNext ==
    /\ UNCHANGED part
    /\ \/ part = "desk" /\ Desk!Next /\ UNCHANGED <<crm, editions, told>>
       \/ part = "contacts" /\ Crm!Next /\ UNCHANGED <<profiles, editions, told>>
       \/ part = "memory" /\ Past!Next /\ UNCHANGED <<profiles, crm, told>>
       \/ part = "readiness" /\ Told!Next /\ UNCHANGED <<profiles, crm, editions>>
PeopleSpec == PeopleInit /\ [][PeopleNext]_<<part, profiles, crm, editions, told>>

\* A content page keeps the version it replaces (SpeakerDesk).
PriorVersionIsKept == Desk!PriorVersionIsKept

\* Every contact leads to one that is shown (Contacts).
NobodyDisappears == part = "contacts" => Crm!NobodyDisappears

\* What operators decided about past speakers survives imports (Memory).
DecisionsStand == part = "memory" => Past!DecisionsStand

\* The dashboard, the lists and the assistant's answers do not contradict (Readiness).
AnswersAgree == part = "readiness" => Told!AnswersAgree

\* What is called ready is bundled as it was approved (Readiness).
BundleIsApproved == part = "readiness" => Told!BundleIsApproved
=============================================================================
