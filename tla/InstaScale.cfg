\* One AppWrapper that asks for one machine of each of two types; the cluster
\* is a hosted one, and has a MachineSet of the first type to copy.
SPECIFICATION FairSpec
CONSTANTS
    small = small
    big = big
    pool1 = pool1
    pool2 = pool2
    AppWrappers = {a}
    Demands = {1}
    NoKey = NoKey
    InstanceTypes = {small, big}
    Wants <- OneOfEach
    Installed <- Configurations
    Hypershift = TRUE
    PoolIds = {pool1, pool2}
    Templates = {small}
    MaxWrites = 3
    MaxEdits = 1
    MaxFaults = 2
INVARIANT TypeOK
INVARIANT ScaledOnce
INVARIANT PoolsFitCluster
INVARIANT IInv
PROPERTY ImplementsReconciler
PROPERTY EventuallyReleased
PROPERTY EventuallyScaled
CHECK_DEADLOCK FALSE
