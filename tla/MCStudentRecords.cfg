SPECIFICATION MCSpec

CONSTANTS
    None = None
    u1 = u1
    u2 = u2
    p1 = p1
    p2 = p2
    Users = {u1, u2}
    Requests = {p1, p2}
    Catalogs <- MCCatalogs
    Bodies <- MCBodies
    Versions = {None, "v1"}
    Offered = {"create", "list", "get", "update", "sections", "delete", "copy", "favorite",
               "share", "shared_get", "shared_copy", "leave"}
    NameLengths = {1}
    NameMax = 5
    CopySuffix = 4
    MaxTimetables = 2
    MaxShares = 1
    MaxTime = 1
    Fields = {"name", "grade"}
    MaxConsents = 2
    Professors = {"prof", None}
    Ratings = {5}
    ReviewOps = {"create", "update", "delete", "list", "leave"}
    MaxReviews = 2
    CourseRequests = {"r"}
    AreaOf <- MCAreaOf
    Entries <- MCEntries
    Changes <- MCChanges
    Plans <- MCPlans
    Archive <- MCArchive
    Lists <- MCLists
    CourseOps = {"create", "import_timetable", "import_history", "update", "delete", "list", "leave"}
    Serial = TRUE
    MaxCourses = 3

INVARIANTS
    ItemsEverValid
    ReferencesHold
    ProfileTruthful
    SomeoneGoesOn
    OneReviewPerOffering
    RegisteredOnce
    AreaFollowsCategory

PROPERTIES
    OnlyOwnerWrites
    NoLostUpdate

SYMMETRY Symmetry

\* Ids are bounded, and students who left do not come back.
CHECK_DEADLOCK FALSE
