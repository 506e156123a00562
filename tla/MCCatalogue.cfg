CONSTANTS
    Workers = {w1, w2}
    MaxRequests = 3
    InitProducts <- MCProducts
    MaxId = 3
    Patches <- MCPatches
    Pictured = 1
    MaxImages = 2
    Uuids = {u1, u2, u3}
    None = None
    Typed = Typed
    PageSize <- MCPageSize
    Faults = {"store", "rows", "erase"}
SPECIFICATION CalmSpec
SYMMETRY UuidSymmetry
INVARIANTS
    FilesBehindRows
    GalleryFace
    BundleColumns
    PagesAreFilled
CHECK_DEADLOCK FALSE
