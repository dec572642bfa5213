SPECIFICATION StartupFairSpec
CONSTANTS
    Threads = {main, w1, w2}
    Main = main
    None = None
    Lines <- MCLines
    MaxLines = 2
    Latencies <- MCLatencies
    Settings <- MCSettings
    Never <- MCNever
    Unset <- MCUnset
    DefaultOp = 2
    Deadline = 4
    DegradedAfter = 2
    Lag = 1
    Environs <- MCEnvirons
    Disks <- MCDisks
    NoFile = NoFile
    Bad = Bad
    Aliases <- MCAliases
    Flags <- MCFlags
    Numerals <- MCNumerals
    U32Max = 100
    SecondsMax = 20000
    Draws = {0, 99}
INVARIANTS
    HeardWithContext
    RunsAsConfigured
    VerdictSound
PROPERTIES
    CheckEnds
\* A service without traffic stands still.
CHECK_DEADLOCK FALSE
