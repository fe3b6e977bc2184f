\* The daily task over two events, with one retry, against a request or a
\* command for the same day, and one fault anywhere.
SPECIFICATION Spec
CONSTANTS
    t1 = t1
    t2 = t2
    e1 = e1
    e2 = e2
    Tasks = {t1, t2}
    NoTask = NoTask
    Events = {e1, e2}
    NoEvent = NoEvent
    EventOf <- TwoEvents
    Due <- DueBefore
    Workers = {w1, w2}
    Correlations = {}
    MaxDay = 1
    MaxBeats = 1
    MaxRetries = 1
    MaxRequests = 1
    MaxFaults = 1
INVARIANTS
    TypeOK
    AtMostOnce
    EvidenceIsReal
    AcceptedCountIsExact
PROPERTY
    CompletionReachedEveryone
SYMMETRY Symmetry
CHECK_DEADLOCK FALSE
