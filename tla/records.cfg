\* Five services of their own, and two clients who ask two instances of
\* pricing-service for the price of one journey, with two failures, fair.  The
\* calls on the five are bounded, so it may stop.
SPECIFICATION AllSpec
CONSTANTS
    Driver = {d1, d2}
    MaxReports = 3
    Account = {a1, a2}
    Duration <- Durations
    MaxViolations = 3
    Order = {o1, o2}
    Reviewer = {u1, u2}
    Target = {d1, d2}
    Score = {1, 5}
    User = {u1, u2}
    MaxId = 3
    NoOrder = NoOrder
    Distance <- Distances
    Weight = {0, 1, 333}
    Nudge <- Nudges
    Handler = {h1, h2}
    far = far
    Client = {c1, c2}
    Journey = {far}
    LengthOf <- Lengths
    Replica = {r1, r2}
    Unknown = Unknown
    MaxFaults = 2
CHECK_DEADLOCK FALSE
INVARIANTS
    EstimateIsNearest
    LimitsMeanWhatTheySay
    LastReportStands
    StandingIsOfLastViolation
    AverageCountsEachOnce
    ConfirmedOrdersStand
    SameJourneySameQuote
    OnlyFailuresLoseRules
PROPERTIES
    EveryJourneyPriced
