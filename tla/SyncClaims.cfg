\* One speaker whose payload changes, two previews, two runs of its item, two
\* concurrent requests and one crash: who may write, and in which order.
SPECIFICATION Spec
CONSTANTS
    NoWorker = NoWorker
    Records = {r1}
    Speakers = {r1}
    Payloads = {p1, p2}
    EmailOf <- OwnEmails
    Workers = {w1, w2}
    Correlations = {}
    Retries = 0
    MaxItems = 2
    MaxRuns = 2
    MaxPreviews = 1
    MaxAttempts = 2
    MaxCrashes = 1
SYMMETRY Symmetry
INVARIANTS
    TypeOK
    WriterHoldsTheClaim
    HeldItemIsFresh
    RunningItemIsGuarded
    NoOvertaking
CHECK_DEADLOCK FALSE
