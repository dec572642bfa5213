SPECIFICATION FairSpec
CONSTANTS
    Clients = {c1, c2}
    Nobody = Nobody
    Stray = Stray
    Asked = {}
    LockSettings <- MCSettings
    MinLockTimeout = 2
    DefaultLockTimeout = 4
    OpTimeout = 3
    Drift = 1
INVARIANTS
    HeldIsOwned
PROPERTIES
    ReleaseOwnOnly
    FreeAgain
