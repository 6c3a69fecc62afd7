\* Two registrations and two edits, two e-mails, two phone numbers, names and
\* numbers that fit or do not, every role, two failures, fair.  The calls are bounded: the system may stop.
SPECIFICATION FairSpec
CONSTANTS
    Call = {c1, c2}
    Edit = {e1, e2}
    Email = {m1, m2}
    Phone = {n1, n2}
    None = None
    MaxFaults = 2
CHECK_DEADLOCK FALSE
INVARIANTS
    UserHasCredential
    OneUserPerAccountAndPhone
PROPERTIES
    OnlyEditsChangeUsers
    RefusedWithCause
    RegistrationCompletes
