-------------------------- MODULE MC_AuthSessions --------------------------
(* Small instance of AuthSessions: two goroutines, two tokens and ids,    *)
(* one bootstrap user and an unknown one, a TTL of one tick on a clock of *)
(* three values, so that sessions expire, are evicted and are revoked     *)
(* while other goroutines are between steps.                              *)
EXTENDS AuthSessions, TLC

CONSTANTS t1, t2, k1, k2, i1, i2, admin, ghost, p1, p2, weak

MCThreads == {t1, t2}
MCTokens == {k1, k2}
MCIDs == {i1, i2}
MCUsernames == {admin, ghost}
MCPasswords == {p1, p2, weak}
MCWeakPasswords == {weak}
MCInitPassword == [u \in MCUsernames |-> IF u = admin THEN p1 ELSE NoUser]

Symmetry == Permutations(MCThreads) \cup Permutations(MCTokens)
            \cup Permutations(MCIDs)
=============================================================================
