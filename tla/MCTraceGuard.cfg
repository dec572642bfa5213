SPECIFICATION Spec
CONSTANTS
    Calls = {i1, i2, i3}
    Envs <- MCEnvs
    Noop = Noop
SYMMETRY MCSymmetry
INVARIANTS
    FlagFollowsGuards
    NothingLeaks
\* Every guard may have been dropped.
CHECK_DEADLOCK FALSE
