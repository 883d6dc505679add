SPECIFICATION Spec
CONSTANTS
    game1 = game1
    game2 = game2
    Parts = {game1, game2}
    NoPart = NoPart
    Extents <- MCExtents
    Units = {0, 1}
    Games = {3}
    ReservedMain = 4
    ReservedSub = 4
    MaxSlice = 4
    Table = 3
    Modulus = 64
    MaxIo = 6
    Whences = {"SEEK_SET"}
INVARIANTS
    LayoutTiles
    PositionConsistent
    RightSectors
    DescriptorsAccounted
CHECK_DEADLOCK FALSE
