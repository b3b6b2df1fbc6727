CONSTANTS
    Kinds   <- MCKinds
    Unnamed <- MCUnnamed
    Disks   <- MCDisks
    Stem    = "a"
    Data    = {1, 2}
    MaxEdits = 1
    MaxMishaps = 1
    MaxSaves = 1
SPECIFICATION Spec
INVARIANTS AssetInv ReadIsCurrent SavedReadsBack
PROPERTY ResaveIsHarmless
CHECK_DEADLOCK FALSE
