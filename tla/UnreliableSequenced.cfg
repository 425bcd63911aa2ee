SPECIFICATION Spec
CONSTANTS
    HalfRange = 5
    FirstSeq = 8
    FragCounts = {1, 2, 3}
    MaxPackets = 5
    MaxInFlight = 3
    FirstRecvSeqs = {3, 4, 7, 8, 9}
INVARIANTS
    TypeOK
    NewestIsKept
PROPERTIES
    ImplementsSequencedChannel
CHECK_DEADLOCK FALSE
