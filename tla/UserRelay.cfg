SPECIFICATION FairSpec
CONSTANTS
    alice = alice
    server1 = server1
    server2 = server2
    bob = bob
    carol = carol
    Node = {alice, server1, server2, bob, carol}
    OpenLinks <- Links
    Unconnected <- NoConnection
    Listening = {server1, server2}
    Channels = {0, 1}
    Lacking = {server2}
    MaxSent <- Sends
INVARIANTS
    TypeOK
    RelayedOnce
    NoEcho
    InOrder
PROPERTIES
    EveryoneGetsIt
CHECK_DEADLOCK FALSE
