\* Nothing is left to do once the parcel is delivered.
CONSTANTS
    Workers = {m, h}
    Managers = {m}
    NPackages = 1
    Labels = {l1, l2}
    None = None
    ByHand = {4}
    Faults = {"lost", "balance"}
SPECIFICATION FairSpec
INVARIANTS
    OneLabelPaid
    RowTellsTruth
    
PROPERTY
    PaidLabelIsGenerated
CHECK_DEADLOCK FALSE
