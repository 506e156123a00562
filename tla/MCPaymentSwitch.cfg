\* The switch to card and the deletion of orders, while answers of the database
\* get lost.  The system may have nothing to do.
CONSTANTS
    Workers = {w1, w2, w3}
    Charges = {c1, c2, c3}
    None = None
    Kinds = {"switch", "webhook", "cancel", "delete"}
    Panel = {}
    Notified = {"PAID", "REFUNDED"}
    Faults = {"mark"}
SPECIFICATION CalmSpec
SYMMETRY WorkerSymmetry
INVARIANTS
    
    PaidOrderHasItsMoney
    RefundedIsTrue
    CreditGivenBack
CHECK_DEADLOCK FALSE
