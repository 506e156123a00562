\* Everything but the switch to card; the process may crash.  It may also have
\* nothing to do.
CONSTANTS
    Workers = {w1, w2, w3}
    Charges = {c1}
    None = None
    Kinds = {"checkout", "webhook", "status", "cancel", "manual"}
    Panel = {"delete", "refund"}
    Notified = {"PAID", "REFUNDED", "DELETED"}
    Faults = {"crash", "refund", "mark"}
SPECIFICATION CalmSpec
SYMMETRY WorkerSymmetry
INVARIANTS
    MoneyIsAccountedFor
    UnitsMatchStatus
    ClaimIsExclusive
PROPERTY
    ImplementsLifecycle
CHECK_DEADLOCK FALSE
