\* Five requests on an upload task and a task that takes a response, one crash.
\* The desk: one speaker with two versions of a biography and two headshots; four
\* requests of which one may stop half-way.  The contacts: two with one address and
\* a third to come, three requests.  Past editions: one import at a time and
\* decisions beside it.  What is told: the seeded session, of which a file is
\* requested, and a proposal without a speaker that comes in later and contends for
\* the one start time; two steps back.
SPECIFICATION PartsSpec
CONSTANTS
    t1 = t1
    t2 = t2
    u1 = u1
    u2 = u2
    w1 = w1
    w2 = w2
    Tasks = {t1, t2}
    NoTask = NoTask
    UploadTasks <- UploadOnly
    Uploads = {u1, u2}
    Response = Response
    Reasons = {r1}
    NoReason = NoReason
    Workers = {w1, w2}
    MaxRequests = 5
    MaxCrashes = 1
    Speakers = {"ada"}
    Session = "talk"
    Texts = {"t1", "t2"}
    Images = {"a", "b"}
    DeskStatuses = {"invited"}
    Links = {"site"}
    Writers = {w1, w2}
    MaxWrites = 4
    MaxLosses = 1
    Known = 2
    MaxContacts = 3
    Facts = {"email"}
    Stages = {"prospect", "invited"}
    Events = {"now"}
    Segments = {"all"}
    Keepers = {w1, w2}
    MaxKept = 3
    MaxStops = 1
    Talks = {"t1", "t2"}
    EditionOf <- Edition
    Keyed = {"e1"}
    SpeakerKeys = {"a", "b"}
    Splits = {"c"}
    Group <- OnePerson
    GroupKey = "a"
    Importers = {"command"}
    MaxImports = 4
    Proposals = {1, 2}
    Spoken = {1}
    Seeded = {1}
    DutyKinds = {"slides"}
    Planned = {}
    FileKinds = {"slides"}
    Starts = {1}
    Moderated = {1}
    MaxVersions = 2
    MaxRuns = 1
    MaxSetbacks = 2
INVARIANTS
    TypeOK
    StatusIsLogged
    RejectedIsOpen
    EvidenceIsKept
    NobodyDisappears
    DecisionsStand
    
    BundleIsApproved

    
SYMMETRY SymmetryOfIds
CHECK_DEADLOCK FALSE
