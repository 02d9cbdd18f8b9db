CONSTANTS
    v1 = v1
    v2 = v2
    v3 = v3
    NoVersion = NoVersion
    Versions = {v1, v2, v3}
    MaxCrashes = 2
    MaxFaults = 1
    LateFaults = TRUE
SPECIFICATION ReadsSpec
SYMMETRY VersionSymmetry
INVARIANTS
    ManifestCertified
    ReplyTellsServed
    StatusesTrue
PROPERTIES
    ServedVersionFrozen
    RecoverySettles
    ImplementsRegister
