\* Two contents of the file; no sensor upgrade is needed.
SPECIFICATION EvidenceSpec
CONSTANTS
    SpectralOn = FALSE
    MaxContents = 2
    MaxUpgrades = 0
    Qualities <- MCQualities
    Cases <- MCCases
INVARIANT
    DefectIsUpgrade
