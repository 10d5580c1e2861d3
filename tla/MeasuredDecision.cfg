\* Three contents of the file, one sensor upgrade, every tier.
SPECIFICATION EvidenceSpec
CONSTANTS
    SpectralOn = TRUE
    MaxContents = 3
    MaxUpgrades = 1
    Qualities <- MCQualities
    Cases <- MCCases
INVARIANTS
    FreshMetadataIsCurrent
    KnownIntegrityIsCurrent
    NeverReplacesBetter
    GatesHold
