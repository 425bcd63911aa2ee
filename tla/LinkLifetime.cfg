SPECIFICATION Spec
CONSTANTS
    Endpoint = {e1, e2}
    MaxLinks = 3
    PinMod = 4
    FreshPins = {0, 1, 2}
INVARIANTS
    TypeOK
    ListGrowsUnderWalk
    PinnedIsAlive
    NothingPinnedAtRest
PROPERTIES
    LingersOnceMarked
CHECK_DEADLOCK FALSE
