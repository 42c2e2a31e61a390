SPECIFICATION Spec
CONSTANTS
    Configs = {home, plant, typo}
    Good = {home, plant}
    Default = default
    None = none
    NonPositive = {1}
    MaxVersion = 2
    MaxCommands = 3
    MaxCuts = 1
INVARIANTS
    CalibrationSettles
    SavedWhole
    ProvenStored
PROPERTY
    SetupEnds
