\* Two sessions of one speaker, one and two units long, on a day of three, by two
\* requests at a time, which are alike.  How much may happen is in Allowances.
\* Three people are on the one proposal of the presenters, over two days.
SPECIFICATION PartsSpec
CONSTANTS
    Sessions = {1, 2}
    Length <- Lengths
    SpeakersOf <- Speakers
    Rooms = {1, 2}
    DayEnd = 3
    Workers = {w1, w2}
    Budgets <- Allowances
    Requesters = {w1, w2}
    Rounds = {1}
    RoundReviewers = {"ada"}
    Submissions = {1, 2}
    Presets <- Scorecards
    Limits = {1, 2}
    MaxPosts = 4
    MaxCards = 2
    People = {1, 2, 3}
    Types = {"talk"}
    LastDay = 2
    MaxRequests = 4
    Tracks = {1, 2}
    Pools = {1, 2}
    PoolReviewers = {"ada", "eve"}
    Staffed <- PoolStaff
    Split <- TrackPools
    MaxSaves = 3
INVARIANTS
    
    PublishedIsClear
    
    OneContentPerSequence
    CompletedReviewsCount
    OnePrimaryAuthor
    
    RoutedAsConfigured
SYMMETRY SymmetryOfWorkers
CHECK_DEADLOCK FALSE
