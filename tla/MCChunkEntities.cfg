CONSTANTS
    TileSlots = 2
    MaxEdits  = 2
    Schemas   <- MCSchemas
    Clients   <- MCClients
    Files     <- MCFiles
    Payloads  <- MCPayloads
    Touchable <- MCTouchable
SPECIFICATION Spec
INVARIANTS TypeOK UnmodifiedIsVerbatim UntouchedSurvive SavesAndReadsBack TilesStayTogether
CHECK_DEADLOCK FALSE
