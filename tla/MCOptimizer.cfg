SPECIFICATION MCSpec

CONSTANTS
    None = None
    pa = pa
    pb = pb
    Days = {1, 2}
    DayEnd = 1440
    LunchStart = 690
    LunchEnd = 840
    NearMinutes = 30
    PercentBase = 50
    Problems <- MCProblems
    LargeProblem = 4
    ReferenceProblems <- MCReferenceProblems
    MaxStates = 40
    Hurried = TRUE
    Versions = {1, 2}
    Catalogs <- MCCatalogs
    CreditUnit = 4
    Bodies <- MCBodies
    MaxJobs = 1

INVARIANTS
    ModelIsExact
    ObjectiveIsScore
    AnswerIsTruthful
    ReferenceIsExact
    IntentsKept
    

\* An answered request is the end, and jobs are bounded.
CHECK_DEADLOCK FALSE
