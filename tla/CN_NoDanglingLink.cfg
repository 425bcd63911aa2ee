SPECIFICATION Spec
CONSTANTS
    ann = ann
    bob = bob
    Node = {server, ann}
    Listeners = {server}
    Clients = {ann}
    Requests = {"right"}
    Limits = {1}
    Dials <- Once
    Closers = {server, ann}
    Quitters = {}
    RawSenders = {ann}
    KeepAlive = {}
    SameSeed = FALSE
INVARIANTS
    NoDanglingLink
CHECK_DEADLOCK FALSE
