\* Every label of up to three names, and every AppWrapper of up to three items
\* with up to two pod resources each.
SPECIFICATION Spec
CONSTANTS
    small = small
    big = big
    empty = empty
    InstanceTypes = {small, big, empty}
    MaxReplicas = 2
    MaxNames = 3
    MaxItems = 3
    MaxPods = 2
INVARIANT LastTakenWins
INVARIANT NamedInOrder
CHECK_DEADLOCK FALSE
