\* One speaker and one request are enough to disagree.
SPECIFICATION Spec
CONSTANTS
    NoWorker = NoWorker
    Records = {r1}
    Speakers = {r1}
    Payloads = {p1}
    EmailOf <- OneEmail
    Workers = {w1}
    Correlations = {}
    Retries = 1
    MaxItems = 1
    MaxRuns = 1
    MaxPreviews = 1
    MaxAttempts = 1
    MaxCrashes = 0
INVARIANT
    IdentityNamesRemoteRecord
CHECK_DEADLOCK FALSE
