\* The passenger alone, connecting twice, with the storage of two messages, under fair scheduling.
SPECIFICATION FairStoreSpec
CONSTANTS
    a1 = a1
    a2 = a2
    passenger = passenger
    order1 = order1
    Client = {a1, a2}
    User = {passenger}
    Order = {order1}
    UserOf <- OneUserUsers
    OrderOf <- OneUserOrders
    NoClient = NoClient
    Cap = 1
    MaxSent = 2
CHECK_DEADLOCK FALSE
INVARIANTS
    HistoryIsCausal
PROPERTIES
    ReadIsKept
    GoneLeavesRoom
    GoneEndsWriter
