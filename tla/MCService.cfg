CONSTANTS
    p1 = p1
    n1 = n1
    n2 = n2
    b1 = b1
    b2 = b2
    blank = blank
    t1 = t1
    None = None
    Empty = Empty
    Torn = Torn
    Malformed = Malformed
    Procs <- OneProc
    Ids <- TwoIds
    Bodies <- ThreeBodies
    Invalid = {blank}
    Tags = {t1}
    TagsOf <- MCTagsOf
    Writable <- AllWritable
    Faults = {"io", "oom", "crash", "collision"}
SPECIFICATION Spec
INVARIANTS StoredNotesAreValid RepliesAreTrue ErrorsChangeNothing
PROPERTIES OnlyAddressedNoteChanges EveryRequestAnswered
