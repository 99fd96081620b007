SPECIFICATION Spec
CONSTANTS
    PacketSizes = {9}
    Cids = {1, 2}
    Controls = {4}
    Lengths = {7}
    MaxLength = 11
    MaxMessages = 2
    MaxDamage = 0
PROPERTY ForeignContinuationDropped
CHECK_DEADLOCK FALSE
