SPECIFICATION Spec

CONSTANTS
    Students = {s1}
    Addresses = {a1}
    Browsers = {b1}
    Requests = {p1, p2}
    NoOne = NoOne
    Cooldown = 1
    OtpExpiry = 2
    OtpMaxAttempts = 2
    SessionTtl = 2
    SessionRotation = 1
    OtpRetention = 2
    SessionRetention = 1
    RateWindow = 1
    StartAccountLimit = 3
    StartAddressLimit = 3
    VerifyAccountLimit = 3
    VerifyAddressLimit = 3
    Offered = {"start", "verify", "session"}
    Kills = {}
    MaxTime = 3
    MaxLag = 1
    MaxChallenges = 2
    MaxLogins = 1

INVARIANTS
    RotationReachesBrowser

SYMMETRY Symmetry
