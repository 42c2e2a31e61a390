SPECIFICATION Spec
CONSTANTS
    Value = {v0, v1, v2}
    Zero = v0
    MaxWrites = 8
    MaxFails = 2
INVARIANTS
    RecoversLatest
PROPERTIES
    ImplementsRegister
    HarmEnds
