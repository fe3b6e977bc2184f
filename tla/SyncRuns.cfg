\* One run over two speakers, retried and recovered by concurrent
\* requests: run statuses and recovery receipts.
SPECIFICATION Spec
CONSTANTS
    NoWorker = NoWorker
    Records = {r1, r2}
    Speakers = {r1, r2}
    Payloads = {p1}
    EmailOf <- OneEmail
    Workers = {w1, w2}
    Correlations = {c1}
    Retries = 0
    MaxItems = 2
    MaxRuns = 1
    MaxPreviews = 1
    MaxAttempts = 2
    MaxCrashes = 0
SYMMETRY SymmetryOfSpeakers
INVARIANTS
    RunSuccessIsEarned
    ReceiptTellsTheTruth
CHECK_DEADLOCK FALSE
