SPECIFICATION FairSpec
CONSTANTS
    NumDescriptors = 4
    NumBuffers = 2
    Params = {"p1", "p2"}
INVARIANTS TypeOK AnsweredAsAsked StartedAsAsked
PROPERTIES AllocatorUsedRight SetupAnswered
