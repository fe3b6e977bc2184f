SPECIFICATION FairSpec
CONSTANTS
    s1 = s1
    s2 = s2
    a = a
    b = b
    w1 = w1
    w2 = w2
    Proposals = {s1, s2}
    NoProposal = NoProposal
    Waves = {v1}
    NoWave = NoWave
    Speakers <- TwoTalks
    Workers = {w1, w2}
    MaxRequests = 4
    MaxEdits = 1
    MaxCrashes = 1
INVARIANTS
    OneOutcome
    AnswersTellTheTruth
    PlansAreEarned
PROPERTY PlansArrive
CHECK_DEADLOCK FALSE
