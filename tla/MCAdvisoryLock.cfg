CONSTANTS
    Requests <- MCRequests
    Keys <- MCKeys
    KeyOf <- MCKeyOf
    PoolSize = 4
SPECIFICATION FairLockSpec
INVARIANT
    MutualExclusion
PROPERTY
    EveryRequestEnds
