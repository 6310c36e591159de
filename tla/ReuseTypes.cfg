\* One AppWrapper, created, short of resources, edited and finished, asks for
\* two instance types, with a MachineSet of each; every conflict and stale read.
SPECIFICATION Spec
CONSTANTS
    ms1 = ms1
    ms2 = ms2
    ms3 = ms3
    m1 = m1
    m2 = m2
    small = small
    big = big
    AppWrappers = {a}
    Demands = {1, 2}
    NoKey = NoKey
    MachineSets = {ms1, ms3}
    InMachineApi = {ms1, ms3}
    Machines = {m1}
    InstanceTypes = {small, big}
    TypeOf <- TypeOfSet
    SetOf <- SetOfMachine
    Base <- BaseOne
    MaxScaleout = 4
    NoSet = NoSet
    MaxWrites = 4
    MaxFaults = 0
INVARIANT IInv
PROPERTY ImplementsReconciler
CHECK_DEADLOCK FALSE
