CONSTANTS
    r1 = r1
    r2 = r2
    r3 = r3
    r4 = r4
    Reqs = {r1, r2, r3}
    PromptLen <- MCPromptLen
    MaxTokens <- MCMaxTokens
    MaxSeqLen = 11
    MaxBatch = 3
    ChunkLen = 2
    BlockTokens = 2
    TotalBlocks = 5
    Fickle = {r2}
    Faulty = FALSE
SPECIFICATION Spec
INVARIANTS
    KvMatchesTokens
