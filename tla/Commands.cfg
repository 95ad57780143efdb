CONSTANTS
    Paths = {"dir", "dir/file", "file"}
    Folder <- MCFolder
    Foreign = {"message", "empty", "huge"}
    Contents = {"plaintext", "public", "private", "image"}
    MaxFiles = 3
    Requested = "dir"
    Named = "file"
    Inside = "dir/file"
    Public = "file"
    Private = "dir/file"
    Output = "dir/file"
    Input = "file"
SPECIFICATION Spec
PROPERTY NothingReplacedUnasked
INVARIANT NoFragmentLeft
INVARIANT SuccessMeansFiles
INVARIANT IdentityIsBrief
INVARIANT CheckedIsRead
INVARIANT RefusalsCostNothing
PROPERTY OneSentence
