\* Two requests at a time, promos with two and one units, an inactive one, two failures, fair.
SPECIFICATION FairSpec
CONSTANTS
    p1 = p1
    p2 = p2
    p3 = p3
    Promo = {p1, p2, p3}
    InitQuota <- Quotas
    Active = {p1, p2}
    Handler = {h1, h2}
    MaxFaults = 2
INVARIANTS
    QuotaIsConserved
    NoOverGrant
PROPERTIES
    TakesOneOfWhatIsLeft
    EveryRequestEnds
