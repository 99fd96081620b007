SPECIFICATION FairSpec
CONSTANTS
    Tasks = {t1, t2}
    Passphrases = {p1}
    NoPassphrase = none
    MaxChannels = 2
    MaxRounds = 2
    MaxCancels = 1
INVARIANTS TypeOK LockDiscipline PinnedIsSeeded WalletIsolation BrokenNotPinned
PROPERTIES OneRequestAtATime CallsReturn
