SPECIFICATION Spec
CONSTANTS
    Tasks = {t1}
    Passphrases = {p1}
    NoPassphrase = none
    MaxChannels = 2
    MaxRounds = 1
    MaxCancels = 0
PROPERTY FailedOpClears
