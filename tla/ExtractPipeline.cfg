CONSTANTS
    Bits = {1, 2}
    DeltaMin = 2
    Eps = 1
    Reach = 2
    Passwords = {"right", "wrong", ""}
    EmptyPassword = ""
    Messages = {"short", "bomb"}
    Oversized = {"bomb"}
    Collisions = FALSE
    KdfOutcomes = {TRUE, FALSE}
SPECIFICATION Spec
INVARIANT GenuineIsRecovered
INVARIANT OnlyTheSealedMessage
PROPERTY KeepsPromise
