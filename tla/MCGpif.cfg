SPECIFICATION MCSpec
CONSTANTS
    Parts = {"sampler", "driver"}
    NumBuffers = 4
    MaxCaptured = 6
    BufferSize = 12
    BitWidths = {8, 16, 24, 32}
    Delays = {0, 1, 2, 3}
    DriverDelays = {0, 1, 65535}
INVARIANTS TypeOK CountersWithinLimits EvenlySampledUnlessDelay1 ExecutesTable RunsAsConfigured
PROPERTIES ImplementsRing GoesByTable
