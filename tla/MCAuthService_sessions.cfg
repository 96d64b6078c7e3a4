SPECIFICATION Spec

CONSTANTS
    Students = {s1}
    Addresses = {a1}
    Browsers = {b1}
    Requests = {p1, p2}
    NoOne = NoOne
    Cooldown = 1
    OtpExpiry = 2
    OtpMaxAttempts = 2
    SessionTtl = 2
    SessionRotation = 1
    OtpRetention = 2
    SessionRetention = 1
    RateWindow = 1
    StartAccountLimit = 2
    StartAddressLimit = 3
    VerifyAccountLimit = 2
    VerifyAddressLimit = 3
    Offered = {"start", "verify", "optional", "logout", "delete"}
    Kills = {"verify"}
    MaxTime = 2
    MaxLag = 1
    MaxChallenges = 2
    MaxLogins = 2

INVARIANTS
    OneLivePerStudent

PROPERTIES
    LoginConsumesLiveCode
    DeadTokenStaysDead
    LoginGivesAccount

SYMMETRY Symmetry
