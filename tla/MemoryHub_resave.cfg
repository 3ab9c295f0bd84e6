SPECIFICATION AlbumSpec
CONSTANTS
    MaxItems = 2
    Assets = {a1}
    Oversized = {}
    Quota = 1
    Uploaders = {u1}
    Doors = {"open", "eventArchived"}
    NoAsset = NoAsset
INVARIANT RefusedUnreferenced
CHECK_DEADLOCK FALSE
