SPECIFICATION VersionSpec
CONSTANTS
    Designs <- MCDesigns
    Published <- MCPublished
    Sectors <- MCSectors
    MaxEdits = 3
    MaxDamages = 1
INVARIANTS
    CertifiedIsTrue
    SoundBuildsArePublished
    VerifiedReads
CHECK_DEADLOCK FALSE
