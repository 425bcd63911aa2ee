SPECIFICATION FairSpec
CONSTANTS
    ann = ann
    bob = bob
    Node = {server, ann}
    Listeners = {server}
    Clients = {ann}
    Requests = {"right", "wrong"}
    Limits = {1}
    Dials <- Twice
    Closers = {server, ann}
    Quitters = {ann}
    RawSenders = {}
    KeepAlive = {server, ann}
    SameSeed = FALSE
INVARIANTS
    LinkHeld
    PeerAgrees
PROPERTIES
    LinksAreDeleted
    HalfOpenNoticed
CHECK_DEADLOCK FALSE
