SPECIFICATION Spec
CONSTANTS
    Logicals = {"migrator_db", "keycloak_bootstrap"}
    MaxCerts = 3
    MaxGen = 2
    Slots = {s1, s2}
SYMMETRY SlotSymmetry
INVARIANTS
    NoLiveKeyStranded
    RunningBffReadsItsRing
    CleanChecksMeanBffStarts
PROPERTY RotationEndsAgreed
