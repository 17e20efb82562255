CONSTANTS
    t1 = t1
    t2 = t2
    k1 = k1
    k2 = k2
    i1 = i1
    i2 = i2
    admin = admin
    ghost = ghost
    p1 = p1
    p2 = p2
    weak = weak
    NoSession = NoSession
    NoUser = NoUser
    Threads <- MCThreads
    Tokens <- MCTokens
    IDs <- MCIDs
    Usernames <- MCUsernames
    Passwords <- MCPasswords
    WeakPasswords <- MCWeakPasswords
    InitPassword <- MCInitPassword
    TTL = 1
    MaxTime = 2
SPECIFICATION Spec
SYMMETRY Symmetry
INVARIANT
    NoRevival
