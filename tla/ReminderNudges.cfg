\* Two confirmed nudges over two days for tasks of one event, with a broker that
\* fails and one fault.  Completed tasks leave and reopened tasks return.
SPECIFICATION FairSpec
CONSTANTS
    t1 = t1
    t2 = t2
    e1 = e1
    e2 = e2
    Tasks = {t1, t2}
    NoTask = NoTask
    Events = {e1}
    NoEvent = NoEvent
    EventOf <- OneEvent
    Due <- DueInTurn
    Workers = {w1, w2}
    Correlations = {c1, c2}
    MaxDay = 2
    MaxBeats = 0
    MaxRetries = 1
    MaxRequests = 0
    MaxFaults = 1
INVARIANT
    NudgeTellsTheTruth
PROPERTY
    NudgesAreAnswered
CHECK_DEADLOCK FALSE
