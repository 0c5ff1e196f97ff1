CONSTANTS
    None = None
    Names <- MCNames
    Lines <- MCLines
    Size <- MCSize
    MinBody = 20
    MaxLines <- MCMaxLines
    Specs <- MCSpecs
    MaxFiles = 2
    RecursionLimit = 64
    OtherKeys = {"5"}
SPECIFICATION Spec
INVARIANTS SectionsFollowOutline SplittingLosesOnlyTheRest ChunkIdsDistinct DroppedExactlyIfBroken OperationsSayTheirParameters
CHECK_DEADLOCK FALSE
