SPECIFICATION FairSpec
CONSTANTS
    c1 = c1
    c2 = c2
    c3 = c3
    Chunk = {c1, c2}
    DocOf <- MCDocOf
    TextOf <- MCTextOf
    IndexText <- MCIndexText
    IndexSize <- MCIndexSize
    EntrySize <- MCEntrySize
    Envelope = 1
    K = 2
    MaxPerDocument = 1
    MaxContext = 7
    Version = {v1}
    Gone = Gone
    InputCap = 3
    OutputCap = 1
    CostCap = 3
    RunInput = 3
    RunOutput = 2
    MaxIterations = 4
    MaxPrompt = 2
    Kind = {"stream"}
    None = None
INVARIANTS
    StreamTellsTheRun
PROPERTIES
    StreamEnds
    UpdateGetsIn
