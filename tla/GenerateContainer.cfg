CONSTANTS
    Bits = {1, 2}
    DeltaMin = 2
    Eps = 1
    Reach = 2
    Passwords = {"right", ""}
    EmptyPassword = ""
    Messages = {"short", "bomb"}
    Oversized = {"bomb"}
    Collisions = FALSE
    KdfOutcomes = {TRUE, FALSE}
    Rooms = {1, 2}
    MAX_CANDIDATES = 3
    Size <- MCSize
SPECIFICATION Spec
INVARIANT PublishedOpensFirst
PROPERTY SearchEnds
