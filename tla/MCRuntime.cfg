SPECIFICATION LiveSpec
CONSTANTS
    s1 = s1
    s2 = s2
    Seqs = {s1, s2}
    Prompt <- MCPrompt
    Tokens = {"a", "b"}
    ChunkLen = 2
    MaxSeqLen = 4
    ContextLength = 4
    NLayers = 3
    Archs = {"llama", "moe", "mamba"}
    Backends = {"auto", "cuda"}
    Features = {"metal"}
    Slicings <- MCSlicings
    MaxBatch = 2
    MaxFaults = 2
PROPERTIES
    ImplementsBatchModel
    
