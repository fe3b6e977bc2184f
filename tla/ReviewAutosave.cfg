\* Two tabs of two revisions each, one fetch that fails and one retry.
SPECIFICATION FairSpec
CONSTANTS
    Tabs = {t1, t2}
    MaxRevision = 2
    MaxRetries = 1
    MaxFailures = 1
INVARIANTS
    NoOlderWins
    NoBlindOverwrite

    
CHECK_DEADLOCK FALSE
