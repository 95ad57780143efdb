CONSTANTS
    Sides <- MCSides
    Payloads <- MCPayloads
    MinSide = 20
    MaxPixels = 13456
    Channels = 3
    Tag = 16
    Header = 4
    Transport = 157
    MaxRoot = 116
    Round = 10
SPECIFICATION GeometrySpec
INVARIANT NothingCutOff
INVARIANT AdviceIsTrue
