CONSTANTS
    p1 = p1
    p2 = p2
    n1 = n1
    b1 = b1
    b2 = b2
    t1 = t1
    None = None
    Empty = Empty
    Torn = Torn
    Procs <- MCProcs
    Ids <- MCIds
    Bodies <- MCBodies
    Tags = {t1}
    TagsOf <- MCTagsOf
    Writable <- MCWritable
    Faults = {"io", "oom", "crash", "stat", "readdir"}
SPECIFICATION RaceFairSpec
PROPERTIES NotesVanishOnlyByDelete AppearsByCreateOrRace EveryCallReturns
