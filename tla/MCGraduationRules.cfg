SPECIFICATION MCSpec

CONSTANTS
    a = a
    b = b
    Manifest = Manifest
    Bundle = Bundle
    Graduation = Graduation
    Junk = Junk
    None = None
    t1 = t1
    t2 = t2
    curriculum = curriculum
    regulation = regulation
    bylaw = bylaw
    Ingests = {a, b}
    Releases = {1, 2, 3}
    Data <- MCData
    HistoryOrder <- MCHistoryOrder
    RulesOrder <- MCRulesOrder
    Curricula = {curriculum}
    Damaged = 0
    Entries <- MCEntries
    Profiles <- MCProfiles
    Common <- MCCommon
    Stored <- MCStored
    Programs <- MCPrograms
    Aliases <- MCAliases
    StaticMajors <- MCStaticMajors
    ExceptionUnits = {"nursing"}
    AreaNames = {"A1", "A2"}
    MaxStarts = 3
    MaxDamaged = 1

INVARIANTS
    HistoryIsOneArchive
    RulesAreOneRelease
    IngestsGoOn
    NoRuleLost

PROPERTIES
    ReferencesSurvive
    ProgressKept

\* Starts and releases are bounded.
CHECK_DEADLOCK FALSE
