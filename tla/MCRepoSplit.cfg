CONSTANTS
    p1 = p1
    p2 = p2
    n1 = n1
    n2 = n2
    b1 = b1
    b2 = b2
    t1 = t1
    None = None
    Empty = Empty
    Torn = Torn
    Procs <- TwoProcs
    Ids <- TwoIds
    Bodies <- OneBody
    Tags = {t1}
    TagsOf <- MCTagsOf
    Writable <- SplitWritable
    Faults = {"io", "crash"}
SPECIFICATION Spec
INVARIANTS PublishedNotesAreWhole CheckStillHolds
PROPERTIES ImplementsStore
