SPECIFICATION Spec
CONSTANTS
    SpaceSize = 5
    PhysStarts = {10, 11, 20}
    Sizes = {1, 2}
    MaxEntries = 7
    MaxLive = 3
INVARIANTS
    LiveAreDisjoint
CHECK_DEADLOCK FALSE
