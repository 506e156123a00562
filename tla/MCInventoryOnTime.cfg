CONSTANTS
    Orders <- MCOrders
    Returns <- MCReturns
    Products <- MCProducts
    Variants <- MCVariants
    Coloured <- MCColoured
    ProductOf <- MCProductOf
    Qty <- MCQty
    ReturnOrder <- MCReturnOrder
    ReturnQty <- MCReturnQty
    Legacy <- MCLegacy
    InitStock <- MCInitStock
    InitCell <- MCInitCell
SPECIFICATION OnTimeSpec
INVARIANTS
    ReservationsAreCovered
    ReservedOrdersCommit
