CONSTANTS
    Paths <- MCPaths
    Pictures <- MCAll
    MIN_DIMENSION = 2
    MAX_PIXELS = 16
    Word = 256
    MaxChanges = 1
    Characters <- MCCharacters
    Directories <- MCDirectories
    Listing <- MCListing
    Pngs <- MCPngs
    Requests <- MCRequests
    Mega = 12
SPECIFICATION Spec
INVARIANT OnlyFitImages
INVARIANT ProbeAgrees
INVARIANT ListsWhatIsNamed
INVARIANT WarningIsExact
INVARIANT BarEndsFull
INVARIANT AllAccountedFor
