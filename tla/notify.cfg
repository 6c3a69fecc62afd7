\* One webhook at a time, a payment in cash and one by qris, three failures, fair.
SPECIFICATION FairNotifySpec
CONSTANTS
    d1 = d1
    t1 = t1
    t2 = t2
    Trx = {t1, t2}
    Driver = {d1}
    DriverOf <- OneDriver
    Method <- CashAndQris
    Earnings <- OneEach
    Handler = {h1}
    MaxFaults = 3
    NoEvent = NoEvent
INVARIANTS
    NotifiedAsPaid
PROPERTIES
    PaidIsNotified
