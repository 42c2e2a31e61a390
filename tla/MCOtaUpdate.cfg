SPECIFICATION Spec
CONSTANTS
    Images <- MCImages
    Baseline <- MCBaseline
    Bad <- MCBad
    Manifests <- MCManifests
    Limit = 2
    Arming = {"new", "valid"}
INVARIANTS
    NeverDowngrades
    SelectedIsVerified
    NeverBricked
PROPERTIES
    FullTrial
    BadImageLeaves
