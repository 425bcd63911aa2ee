CONSTANTS
    HalfRange = 4
    Item = {i1, i2}
    LinkIds = {1, 5}
    MaxUpdates = 1

SPECIFICATION Spec
PROPERTY NewestIsTransmitted
