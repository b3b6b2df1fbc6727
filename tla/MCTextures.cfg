CONSTANTS
    PaletteSize = 4
    MaxMips = 3
    MaxOffset = 90
    Files <- MCFiles
    Jobs <- MCJobs
    Leeways = {0, 2}
    Payloads <- MCPayloads
    Assigned <- MCAssigned
    MaxEdits = 2
SPECIFICATION TextureSpec
INVARIANTS EncodedDecodes
PROPERTIES TextureReadsBack
