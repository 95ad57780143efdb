CONSTANTS
    Height = 3
    Length = 4
    Covers <- MCCovers
    CostMaps <- MCCostMaps
    Payloads <- MCPayloads
    Capacity = 3
    MaxBlockWidth = 2
    MaxSegmentColumns = 2
    Infinity = 100
SPECIFICATION Spec
INVARIANT MessageSurvives
INVARIANT CheapestVector
INVARIANT OneLevel
