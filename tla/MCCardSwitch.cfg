\* A Pix waiting to be paid is switched to card; the gateway tells of the deletion
\* of the Pix that the switch itself asked for.
CONSTANTS
    Workers = {w1, w2}
    Charges = {c1, c2}
    None = None
    Kinds = {"switch", "webhook"}
    Panel = {}
    Notified = {"PAID", "REFUNDED", "DELETED"}
    Faults = {}
SPECIFICATION Spec
INVARIANT
    FailedMeansUnpaid
CHECK_DEADLOCK FALSE
