\* One node listens; the flag of its client may happen to be set.
SPECIFICATION Spec
CONSTANTS
    server = server
    ann = ann
    bob = bob
    Node = {server, ann}
    Listeners = {server}
    IdsPerPack = 2
    MaxGroups <- Groups
    MaxInFlight = 1
    MaxBreaks = 0
INVARIANT
    EveryGroupHasUniqueId
CHECK_DEADLOCK FALSE
