SPECIFICATION FairSpec
CONSTANTS
    server = server
    ann = ann
    bob = bob
    Node = {server, ann, bob}
    Listeners = {server}
    IdsPerPack = 2
    MaxGroups <- Groups
    MaxInFlight = 2
    MaxBreaks = 1
INVARIANTS
    TypeOK
    UniqueIds
PROPERTIES
    NoGroupWaitsForever
CHECK_DEADLOCK FALSE
