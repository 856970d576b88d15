SPECIFICATION MCSpec
CONSTANTS
    KeyLen = 2
    Keys <- MCKeys
    Values <- MCValues
    Starts <- MCStarts
    MaxHeld = 2
    MaxWrites = 2
    Kinds <- MCKinds
    Followers <- MCFollowers
    Chains = {0, 1, 1729}
    w1 = w1
    w2 = w2
    w3 = w3
    w4 = w4
    w5 = w5
    w6 = w6
    w7 = w7
    w8 = w8
    w9 = w9
    w10 = w10
    w11 = w11
    Hashes <- ElevenHashes
    NoInfo = NoInfo
    a1 = a1
    a2 = a2
    s1 = s1
    s2 = s2
    Addresses = {a1, a2}
    Slots = {s1, s2}
    Codes <- OneCode
    MaxNonce = 2
    MaxBalance = 1
    MaxLogs = 0
    BlobFields = 16
SYMMETRY MCSymmetry
INVARIANTS TrieSound RangeSound CodecSound ProofsServe PlainBlockRebuilt
CHECK_DEADLOCK FALSE
