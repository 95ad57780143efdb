CONSTANTS
    Bits = {1, 2}
    DeltaMin = 2
    Eps = 1
    Reach = 2
    Passwords = {"right", "wrong", ""}
    EmptyPassword = ""
    Messages = {"new", "old"}
    Oversized = {}
    Collisions = FALSE
    KdfOutcomes = {TRUE}
    Rooms = {0, 1}
    Size <- MCSize
    OlderFiles <- MCOlderFiles
SPECIFICATION ChannelSpec
INVARIANT PublishedIsPossible
INVARIANT TouchedLast
INVARIANT Delivered
INVARIANT OldOrNew
