\* One AppWrapper name, used again and again: every stale read, conflict and
\* restart, under the fairness of the queue.
SPECIFICATION FairSpec
CONSTANTS
    AppWrappers = {a}
    Demands = {1}
    NoKey = NoKey
INVARIANT TypeOK
INVARIANT HeldIsProtected
INVARIANT IInv
PROPERTY EventuallyReleased
PROPERTY DeletionCompletes
