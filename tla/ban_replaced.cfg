\* One account, three violations at most, a ban among them or not.
SPECIFICATION Spec
CONSTANTS
    Account = {a1}
    Duration <- Durations
    Handler = {h1, h2}
    MaxViolations = 3
INVARIANT
    BanStands
