\* Two requests at a time for different drivers, three transactions, one failure.
SPECIFICATION SerialSpec
CONSTANTS
    d1 = d1
    d2 = d2
    t1 = t1
    t2 = t2
    t3 = t3
    Trx = {t1, t2, t3}
    Driver = {d1, d2}
    DriverOf <- TwoDrivers
    Method <- TwoDriversMethod
    Earnings <- TwoDriversEarnings
    Handler = {h1, h2}
    MaxFaults = 1
INVARIANTS
    CreditedOnce
PROPERTIES
    ImplementsLedger
