\* One AppWrapper that asks for one type; a machine pool is deleted in vain.
SPECIFICATION Spec
CONSTANTS
    small = small
    big = big
    pool1 = pool1
    pool2 = pool2
    AppWrappers = {a}
    Demands = {1}
    NoKey = NoKey
    InstanceTypes = {small}
    Wants <- OneOfEach
    Installed <- OnlyPools
    Hypershift = FALSE
    PoolIds = {pool1}
    Templates = {}
    MaxWrites = 3
    MaxEdits = 0
    MaxFaults = 1
INVARIANT NothingLeftBehind
CHECK_DEADLOCK FALSE
