SPECIFICATION MCSpec
CONSTANTS
    PLL_FBDIV = 20
    CPU_DIV = 2
    GPIO_FAST_DIV = 2
    GPIO_SLOW_DIV = 48
    BootFbdivs = {1, 20, 21, 63}
    Flags <- MCFlags
    Delays = {0, 1, 65535}
    FifoDepth = 2
    Banner <- MCBanner
    Done <- MCDone
    Button <- MCButton
    Message <- MCMessage
    MaxInterrupts = 2
    MaxSent = 6
    Pins = {18, 50, 61}
    Configs <- MCConfigs
    MaxRaised = 8
INVARIANTS ClocksAsNamed OwnHandler
PROPERTIES MessagesGoOut PinsKeptApart NothingStarves
