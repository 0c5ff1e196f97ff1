CONSTANTS
    None = None
    Requests <- MCRequests
    Chars <- MCChars
    Hex <- MCHex
    CharOf <- MCCharOf
    InitialCap = 4
    Memory = "ample"
    MaxUrl = 2
    MaxValue = 2
SPECIFICATION Spec
INVARIANTS EveryTagIsTheOneAsked
