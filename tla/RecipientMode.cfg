CONSTANTS
    People = {"alice", "bob"}
    Passphrases = {"right", "wrong", ""}
    EmptyPassphrase = ""
    Messages = {"note", "bomb"}
    Oversized = {"bomb"}
    Rooms = {0, 1}
    Size <- MCSize
    MAX_CANDIDATES = 2
    PublicKey <- MCPublicKey
    SealedSeed <- MCSealedSeed
    KeyFiles <- MCKeyFiles
SPECIFICATION Spec
INVARIANT OnlyWholeKeys
INVARIANT OnlyTheRecipient
INVARIANT Delivered
INVARIANT SealedOnce
PROPERTY OneAnswer
