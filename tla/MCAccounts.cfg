CONSTANTS
    Workers = {w1, w2}
    MaxAttempts = 2
    PerHour = 1
    MaxSecrets = 2
    MaxUids = 2
SPECIFICATION CalmSpec
SYMMETRY RequestSymmetry
INVARIANTS
    SessionsFollowResets
    TriesAreLimited
    AliveWasMailed
    QuotaHolds
CHECK_DEADLOCK FALSE
