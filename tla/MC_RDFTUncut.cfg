CONSTANTS
    MaxRank = 3
    Sizes = {1, 2, 3}
SPECIFICATION Spec
INVARIANTS
    InputTileInBounds
    TileShapeRoundTrip
\* One tiling of one op: backInferTileInfo is the last step.
CHECK_DEADLOCK FALSE
