CONSTANTS
    Technical = {"gAMA", "cHRM", "sRGB", "pHYs", "iCCP", "sBIT"}
    Lowercase = {"gAMA", "cHRM", "sRGB", "pHYs", "iCCP", "sBIT", "tEXt", "tIME"}
    Synthetic <- MCSynthetic
    MaxPreserved = 3
    MinIdat = 2
    MaxIdat = 8
    DefaultIdat = 4
    BLOCK_SIZE = 2
    SAMPLE_PERCENT = 5
    MIN_SAMPLES = 2
    MAX_SAMPLES = 3
    FIRST_SMOOTHING <- MCFirst
    SECOND_SMOOTHING <- MCSecond
    SMOOTH_PERCENTILE = 40
    MAX_SMOOTH_RATIO = 60
    MAX_SMOOTH_REGION_RATIO = 40
    TEXTURE_PERCENTILE = 95
    LimitGray = 2106810
    LimitColour = 2528172
    Files <- MCFiles
    Pictures <- MCPictures
    Requests <- MCRequests
    Streams = {1, 5, 8, 11}
    BITS = 2
    TAG_BYTES = 1
    LENGTH_HEADER_BYTES = 1
    key_transport_overhead_bytes <- MCOverhead
    CELLS = 2
    UNITS = 2
    Grain <- MCGrain
    Jobs <- MCJobs
SPECIFICATION Spec
INVARIANT ShapeSurvives
INVARIANT OnlyTechnicalTravels
INVARIANT GridIsSeen
INVARIANT NoInventedBorder
INVARIANT LargestRegion
INVARIANT DrawnCarries
