SPECIFICATION Spec
CONSTANTS
    ALIASES = {"caddy", "otelcollector"}
    Repository <- Repos
    OWN_BUILD_ALIASES <- Own
    BINARY_ONLY_ALIASES <- Binary
    Keys = {"libc"}
    OsKeys = {"libc"}
    Scanners = {"grype1"}
    Scripts = {"script1", "script2"}
    Blind <- BlindTo
    Candidates <- Entries
    Ratings = {"low", "elevated", "critical"}
    MaxDay = 1
    MaxEvents = 3
PROPERTIES RatchetHolds ScannerNeverGoesBlind
