\* The functional test: a MachineSet in another namespace.
SPECIFICATION Spec
CONSTANTS
    ms1 = ms1
    ms2 = ms2
    ms3 = ms3
    m1 = m1
    m2 = m2
    small = small
    big = big
    AppWrappers = {a}
    Demands = {1}
    NoKey = NoKey
    MachineSets = {ms1}
    InMachineApi = {}
    Machines = {m1, m2}
    InstanceTypes = {small}
    TypeOf <- TypeOfSet
    SetOf <- SetOfMachine
    Base <- BaseZero
    MaxScaleout = 3
    NoSet = NoSet
    MaxWrites = 3
    MaxFaults = 0
INVARIANT NeverBelowBase
CHECK_DEADLOCK FALSE
