\* Two contents of the file.
SPECIFICATION EvidenceSpec
CONSTANTS
    SpectralOn = TRUE
    MaxContents = 2
    MaxUpgrades = 0
INVARIANT
    FreshSpectralIsCurrent
