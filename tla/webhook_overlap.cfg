\* Two requests at a time, two transactions of one driver, one failure, fair.
SPECIFICATION FairSpec
CONSTANTS
    d1 = d1
    d2 = d2
    t1 = t1
    t2 = t2
    t3 = t3
    Trx = {t1, t2}
    Driver = {d1}
    DriverOf <- OneDriver
    Method <- OneDriverMethod
    Earnings <- OneDriverEarnings
    Handler = {h1, h2}
    MaxFaults = 1
INVARIANTS
    NoOverpay
    BalanceIsLastMutation
    PaidIsCredited
    StatusIsLastLogged
PROPERTIES
    EventuallySettled
