SPECIFICATION MCSpec

CONSTANTS
    None = None
    Catalogs <- TwoCatalogs
    CourseOf <- Courses
    ProfessorOf <- Professors
    Clash <- Overlaps
    Preferences = {1, 2}
    Cap = 2
    Packaged = {1}
    Starts <- SomeStarts
    Shared <- SomeShared
    Offered = {"search", "basket", "required", "detail", "drag", "checklist", "remove_passive",
               "preferences", "generate", "save", "load", "reload", "publish"}
    Repeats = FALSE
    MaxEdits = 3

INVARIANTS
    DraftUsable

PROPERTIES
    ImplementsTimeline
    ApplyKeepsIntent
