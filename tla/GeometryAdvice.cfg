CONSTANTS
    Sides = {2000}
    Payloads = {50331000}
    MinSide = 2000
    MaxPixels = 134217728
    Channels = 3
    Tag = 16
    Header = 4
    Transport = 1568
    MaxRoot = 11586
    Round = 100
SPECIFICATION GeometrySpec
INVARIANT AdviceIsPermitted
