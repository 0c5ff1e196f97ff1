CONSTANTS
    p1 = p1
    p2 = p2
    n1 = n1
    n2 = n2
    b1 = b1
    b2 = b2
    t1 = t1
    None = None
    Empty = Empty
    Torn = Torn
    Procs <- OneProc
    Ids <- TwoIds
    Bodies <- TwoBodies
    Tags = {t1}
    TagsOf <- MCTagsOf
    Writable <- AllWritable
    Faults = {"io", "oom", "crash", "collision"}
SPECIFICATION Spec
INVARIANTS ListingIsExact
PROPERTIES PublishesItsOwnNote
