SPECIFICATION Spec
CONSTANTS
    Sources <- MCSources
    Asked <- MCAsked
    NameOrder <- MCNameOrder
    Identifiers <- MCIdentifiers
    EarlyLocales = 2
    LateLocales = 3
    FilesOf <- MCFilesOf
    IdsOf <- MCIds
    IntsOf <- MCInts
    TextsFor <- MCTexts
    MaxRows = 3
    MaxEdits <- MCEdits
    MaxBlock = 9
    CopyEntryBytes = 8
INVARIANTS TblInv UnmodifiedIsVerbatim SavedReadsBack OffsetsNeverMove PackedReadsBackInOrder
PROPERTIES FailedCallChangesNothing
