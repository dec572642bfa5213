SPECIFICATION GateSpec
CONSTANTS
    Loggers = {t1, t2}
    Keys = {k1}
    Configs <- MCConfigs
    DefaultPeriod = 2
    Windows <- MCWindows
    MaxCalls = 6
    MaxClock = 3
    MaxInits = 2
SYMMETRY MCSymmetry
INVARIANTS
    SampledExactly
    SuppressedConserved
PROPERTIES
    StampsAdvance
\* The bounds on time and on the number of calls end every behaviour.
CHECK_DEADLOCK FALSE
