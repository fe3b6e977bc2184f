SPECIFICATION Spec
CONSTANTS
    t1 = t1
    t2 = t2
    u1 = u1
    u2 = u2
    w1 = w1
    w2 = w2
    Tasks = {t2}
    NoTask = NoTask
    UploadTasks = {}
    Uploads = {u1}
    Response = Response
    Reasons = {r1}
    NoReason = NoReason
    Workers = {w1}
    MaxRequests = 3
    MaxCrashes = 0
PROPERTY CompletedIsComplete
CHECK_DEADLOCK FALSE
