SPECIFICATION MCSpec
CONSTANTS
    Parts = {"sampler"}
    NumBuffers = 4
    MaxCaptured = 6
    BufferSize = 12
    BitWidths = {8, 16, 24, 32}
    Delays = {1}
    DriverDelays = {0, 1, 65535}
INVARIANT EvenlySampled
