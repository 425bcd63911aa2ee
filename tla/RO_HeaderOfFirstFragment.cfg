SPECIFICATION Spec
CONSTANTS
    HalfRange = 4
    FirstSeq = 0
    FragCounts = {2}
    MaxPackets = 4
    MaxInFlight = 1
INVARIANT
    HeaderOfFirstFragment
