CONSTANTS
    None = None
    Corpora <- MCCorpora
    Blank = ""
    Cost <- MCCost
    BatchSize = 2
    DbBatchSize = 2
    TopK = 2
    MaxContext = 2
    MaxBuilds = 2
    Faults = {"delete"}
SPECIFICATION Spec
INVARIANTS RebuildIsWhole
