SPECIFICATION MCSpec
CONSTANTS
    MaxEvents = 4
    Parts = {"link"}
    StdValues <- MCStdValues
    StdLengths <- MCStdLengths
    AnyValues = {0, 1, 256}
    AnyIndices = {0, 1}
    AnyLengths = {0, 1, 2, 3, 4, 33, 65535}
INVARIANT Ep0AsAnnounced
