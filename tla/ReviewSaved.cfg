\* Two interchangeable tabs, one fetch that fails and its retry; a safety
\* property only, so that the symmetry is sound.
SPECIFICATION Spec
CONSTANTS
    Tabs = {t1, t2}
    MaxRevision = 2
    MaxRetries = 1
    MaxFailures = 1
SYMMETRY SymmetryOfTabs
INVARIANT SavedIsStored
CHECK_DEADLOCK FALSE
