\* Two requests at a time may credit one transaction twice.
SPECIFICATION Spec
CONSTANTS
    d1 = d1
    d2 = d2
    t1 = t1
    t2 = t2
    t3 = t3
    Trx = {t1, t2}
    Driver = {d1}
    DriverOf <- OneDriver
    Method <- OneDriverMethod
    Earnings <- OneDriverEarnings
    Handler = {h1, h2}
    MaxFaults = 0
INVARIANTS
    CreditedOnce
