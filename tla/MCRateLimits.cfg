SPECIFICATION MCSpec

CONSTANTS
    Clients = {c1, c2}
    Limit = 2
    Window = 3
    Second = 2
    LimiterTime = 7
    Students = {s1, s2}
    Addresses = {a1, a2}
    Browsers = {b1}
    Requests = {p1, p2}
    NoOne = NoOne
    Cooldown = 1
    OtpExpiry = 1
    OtpMaxAttempts = 1
    OtpRetention = 2
    SessionTtl = 2
    SessionRotation = 1
    SessionRetention = 1
    RateWindow = 2
    StartAccountLimit = 1
    StartAddressLimit = 1
    VerifyAccountLimit = 1
    VerifyAddressLimit = 1
    Offered = {"start", "verify"}
    Kills = {"start", "verify"}
    MaxTime = 3
    MaxLag = 1
    MaxChallenges = 2
    MaxLogins = 0

INVARIANTS
    LimitKept
    SendingLimited

PROPERTIES
    HintKept

SYMMETRY Symmetry
