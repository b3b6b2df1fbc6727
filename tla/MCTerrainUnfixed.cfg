CONSTANTS
    Dim = 4
    Vertices = 2
    Cells = 2
    LegacyVertices = 2
    LegacyTiles = 2
    Clients = {2, 3, 4, 8}
    Tiles <- BareTiles
    MapChunks <- MCMapChunks
    MaxEdits = 2
SPECIFICATION TerrainSpec
INVARIANTS StoredAsFull
