CONSTANTS
    t1 = t1
    t2 = t2
    boot = boot
    pw1 = pw1
    pw2 = pw2
    NoUser = NoUser
    EmptyHash = EmptyHash
    Threads <- MCThreads
    Passwords <- MCPasswords
    BootPassword = boot
SPECIFICATION Spec
INVARIANTS
    PasswordNeverReverts
