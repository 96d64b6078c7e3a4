SPECIFICATION FairSpec

CONSTANTS
    None = None
    d1 = d1
    d2 = d2
    Drafts = {d1, d2}
    MaxJobs = 2
    MaxChanges = 1
    CanCancel = TRUE

INVARIANTS
    PanelConsistent

PROPERTIES
    PanelSettles

\* The student may stop, and the bounds end the rest.
CHECK_DEADLOCK FALSE
