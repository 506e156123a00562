\* The manager refunds a paid order in the gateway's panel and then cancels it.
CONSTANTS
    Workers = {w1, w2}
    Charges = {c1}
    None = None
    Kinds = {"webhook", "manual"}
    Panel = {"refund"}
    Notified = {"PAID", "REFUNDED", "DELETED"}
    Faults = {}
SPECIFICATION Spec
INVARIANT
    RefundsConclude
CHECK_DEADLOCK FALSE
