CONSTANTS
    None = None
    Corpora <- MCCorpora
    Blank = ""
    Cost <- MCCost
    BatchSize = 2
    DbBatchSize = 2
    TopK = 2
    MaxContext = 2
    MaxBuilds = 2
    Faults = {}
SPECIFICATION Spec
INVARIANTS OwnVectors RebuildIsWhole AnswerFromOneIndex SourcesMatch
PROPERTIES OldIndexKeptUntilEmbedded BuildEnds
