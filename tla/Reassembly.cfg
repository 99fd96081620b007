SPECIFICATION Spec
CONSTANTS
    PacketSizes = {6, 8, 9}
    Cids = {1, 2}
    Controls = {4, 66}
    Lengths = {0, 7}
    MaxLength = 11
    MaxMessages = 3
    MaxDamage = 2
INVARIANTS TypeOK Integrity Resynchronises OneLossIsSilent
CHECK_DEADLOCK FALSE
