\* The engine as an implementation of RecordWriteProtocol, and that no claim of
\* a living request lingers.  The record is a session, which no duplicate check
\* protects.
SPECIFICATION FairSpec
CONSTANTS
    NoWorker = NoWorker
    Records = {r1}
    Speakers = {}
    Payloads = {p1, p2}
    EmailOf <- OneEmail
    Workers = {w1, w2}
    Correlations = {}
    Retries = 0
    MaxItems = 2
    MaxRuns = 2
    MaxPreviews = 1
    MaxAttempts = 1
    MaxCrashes = 1
PROPERTIES
    ImplementsTurns
    ClaimsDoNotLinger
CHECK_DEADLOCK FALSE
