SPECIFICATION Spec
CONSTANTS
    MaxFiles = 2
    MaxPolicy = 2
    Releases = {1}
    MaxTime = 3
    MaxKnown = 1
    Through <- ThroughDates
    EditsDuring = {"assemble", "scan"}
INVARIANTS KeycloakHasAdmin
PROPERTIES NoKnownVulnerableStart
