SPECIFICATION Spec
CONSTANTS
    Logicals = {"keycloak_bootstrap"}
    MaxCerts = 2
    MaxGen = 1
    Slots = {s1}
INVARIANT CheckNamesHalfRotation
