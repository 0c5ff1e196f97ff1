CONSTANTS
    None = None
    Requests <- MCRequests
    Chars <- MCChars
    Hex <- MCHex
    CharOf <- MCCharOf
    InitialCap = 4
    Memory = "short"
    MaxUrl = 4
    MaxValue = 3
SPECIFICATION Spec
INVARIANTS TagIsTheOneAsked RoutingIsRight QueryFits DecodeUndoesEncode
PROPERTIES BuffersAreFreedOnce
