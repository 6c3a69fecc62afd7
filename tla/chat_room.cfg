\* One room: the passenger connects twice, the driver once; queues of one message.
SPECIFICATION Spec
CONSTANTS
    a1 = a1
    a2 = a2
    b1 = b1
    passenger = passenger
    driver = driver
    order1 = order1
    Client = {a1, a2, b1}
    User = {passenger, driver}
    Order = {order1}
    UserOf <- OneRoomUsers
    OrderOf <- OneRoomOrders
    NoClient = NoClient
    Cap = 1
    MaxSent = 2
CHECK_DEADLOCK FALSE
SYMMETRY ConnectionSymmetry
INVARIANTS
    NoSendOnClosed
    NoSilentGap
