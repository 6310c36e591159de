\* One AppWrapper, one crash, failed call or lost reply.
SPECIFICATION FairSpec
CONSTANTS
    ms1 = ms1
    ms2 = ms2
    ms3 = ms3
    m1 = m1
    m2 = m2
    small = small
    big = big
    AppWrappers = {a}
    Demands = {1}
    NoKey = NoKey
    MachineSets = {ms1}
    InMachineApi = {ms1}
    Machines = {m1}
    InstanceTypes = {small}
    TypeOf <- TypeOfSet
    SetOf <- SetOfMachine
    Base <- BaseZero
    MaxScaleout = 3
    NoSet = NoSet
    MaxWrites = 3
    MaxFaults = 1
PROPERTY ImplementsReconciler
PROPERTY EventuallyReleased
PROPERTY EventuallyScaled
CHECK_DEADLOCK FALSE
