\* Two requests at a time, one key and a request without one, one failure, fair;
\* five ids: a crash after two commits leaves two requests without a key to repeat.
SPECIFICATION FairSpec
CONSTANTS
    Key = {k1}
    NoKey = NoKey
    TrxId = {i1, i2, i3, i4, i5}
    Free = Free
    NoTrx = NoTrx
    Handler = {h1, h2}
    MaxFaults = 1
INVARIANTS
    OneTransactionPerKey
    KeyAndTransactionTogether
    AnswersAreTrue
PROPERTIES
    EventuallyAnswered
