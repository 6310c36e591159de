SPECIFICATION FairSpec
CONSTANTS
    AppWrappers = {a}
    Demands = {1}
    NoKey = NoKey
PROPERTY CompletedSettles
