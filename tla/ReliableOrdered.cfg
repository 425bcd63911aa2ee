\* Fair threads and a fair lossy network: two fragments, as one message or two.
SPECIFICATION FairSpec
CONSTANTS
    HalfRange = 2
    FirstSeq = 3
    FragCounts = {1, 2}
    MaxPackets = 2
    MaxInFlight = 2
INVARIANTS
    TypeOK
    OrderedDelivery
    AckedIsReceived
PROPERTIES
    ImplementsOrderedChannel
    EventuallyDelivered
    EventuallyAcked
