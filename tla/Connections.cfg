SPECIFICATION Spec
CONSTANTS
    ann = ann
    bob = bob
    Node = {server, ann}
    Listeners = {server}
    Clients = {ann}
    Requests = {"right", "wrong", "none"}
    Limits = {0, 1}
    Dials <- Twice
    Closers = {server, ann}
    Quitters = {server, ann}
    RawSenders = {ann}
    KeepAlive = {server, ann}
    SameSeed = FALSE
INVARIANTS
    TypeOK
    CallbacksMatch
CHECK_DEADLOCK FALSE
