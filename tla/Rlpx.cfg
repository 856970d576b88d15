SPECIFICATION FairSpec
CONSTANTS
    q1 = q1
    q2 = q2
    Profiles <- MCProfiles
    ForeignTypes = {"NewPooledTransactionHashes", "PooledTransactions", "BlockHeaders", "Status"}
    Requesters = {q1, q2}
    Capacity = 1
    MaxOwn = 2
INVARIANTS EndsAgree ServedOnce
PROPERTIES EndsTogether RequestsEnd LifeKept
CHECK_DEADLOCK FALSE
