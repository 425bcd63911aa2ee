SPECIFICATION Spec
CONSTANTS
    ann = ann
    bob = bob
    Node = {server, ann, bob}
    Listeners = {server}
    Clients = {ann, bob}
    Requests = {"right"}
    Limits = {1, 2}
    Dials <- AnnTwice
    Closers = {ann, bob}
    Quitters = {}
    RawSenders = {}
    KeepAlive = {}
    SameSeed = FALSE
INVARIANTS
    PeerAgrees
    MaxConnectionsKept
    RemoteAlternates
    RelaysAreTrue
CHECK_DEADLOCK FALSE
