\* Two AppWrappers, and room for one of them.
SPECIFICATION Spec
CONSTANTS
    ms1 = ms1
    ms2 = ms2
    ms3 = ms3
    m1 = m1
    m2 = m2
    small = small
    big = big
    AppWrappers = {a, b}
    Demands = {1}
    NoKey = NoKey
    MachineSets = {ms1}
    InMachineApi = {ms1}
    Machines = {m1}
    InstanceTypes = {small}
    TypeOf <- TypeOfSet
    SetOf <- SetOfMachine
    Base <- BaseZero
    MaxScaleout = 1
    NoSet = NoSet
    MaxWrites = 4
    MaxFaults = 0
INVARIANT WithinMaxScaleout
CHECK_DEADLOCK FALSE
