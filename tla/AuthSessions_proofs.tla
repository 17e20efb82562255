------------------------- MODULE AuthSessions_proofs -------------------------
(***************************************************************************)
(* Proofs, for every value of the constants, of the type invariant and of  *)
(* the durability invariants of AuthSessions.                              *)
(***************************************************************************)
EXTENDS AuthSessions, TLAPS

USE TTLAssumption, MaxTimeAssumption, WeakAssumption, InitPasswordAssumption,
    SentinelAssumption

(* What a goroutine's locals hold at each program counter: the session    *)
(* snapshot and token once it has read one, the new password of a         *)
(* ChangePassword, the user whose hash CPPut writes.                      *)
LocalOK(l) ==
    /\ l \in Local
    /\ l.pc \notin {"idle", "list_scan"} => l.sess \in Session /\ l.tok \in Tokens
    /\ l.op = "changepw" => l.npw \in Passwords
    /\ l.pc \in {"cp_lookup", "cp_put"} => l.op = "changepw"
    /\ l.pc = "vt_check" => l.op # "none"
    /\ l.pc = "cp_put" => l.user \in Usernames

ThreadsOK(f) == f \in [Threads -> Local] /\ \A s \in Threads : LocalOK(f[s])

TInv == TypeOK /\ ThreadsOK(th)

LEMMA IdleLocal ==
    ASSUME NEW r \in Results
    PROVE  Idle(r) \in Local
BY DEF Idle, Local, PCs

LEMMA IdleOK ==
    ASSUME NEW r \in Results
    PROVE  LocalOK(Idle(r))
BY DEF Idle, Local, PCs, LocalOK

(* Replacing one goroutine's locals by well-formed ones keeps all well formed. *)
LEMMA UpdateOK ==
    ASSUME NEW f, ThreadsOK(f), NEW self \in Threads, NEW l, LocalOK(l)
    PROVE  ThreadsOK([f EXCEPT ![self] = l])
BY DEF ThreadsOK, LocalOK

(* The other variables of TypeOK, for steps that keep or shrink them.       *)
TypeRest ==
    /\ sessions \in [Tokens -> Session \cup {NoSession}]
    /\ persisted \in [Tokens -> Session \cup {NoSession}]
    /\ users \in [Usernames -> Hashes \cup {NoUser}]
    /\ now \in 0..MaxTime
    /\ issued \subseteq Tokens
    /\ usedIds \subseteq IDs
    /\ granted \subseteq Tokens
    /\ loggedOut \subseteq Tokens
    /\ refused \subseteq Tokens

(* Sending one goroutine back to idle keeps all locals well formed.        *)
LEMMA IdleUpdateOK ==
    ASSUME NEW f, ThreadsOK(f), NEW self \in Threads, NEW r \in Results
    PROVE  ThreadsOK([f EXCEPT ![self] = Idle(r)])
BY IdleOK, UpdateOK

LEMMA InitTInv == Init => TInv
<1> SUFFICES ASSUME Init PROVE TypeRest /\ ThreadsOK(th)
  BY DEF TInv, TypeOK, TypeRest, ThreadsOK
<1>1. TypeRest
  BY DEF Init, TypeRest, Hashes
<1>2. "none" \in Results
  BY DEF Results
<1>3. ThreadsOK(th)
  BY <1>2, IdleOK DEF Init, ThreadsOK, LocalOK
<1>4. QED
  BY <1>1, <1>3

(* The steps of one goroutine, by operation.                               *)
LEMMA LoginBeginOK ==
    ASSUME TypeRest, ThreadsOK(th), NEW self \in Threads, NEW u \in Usernames,
           NEW p \in Passwords, LoginBegin(self, u, p)
    PROVE  TypeRest' /\ ThreadsOK(th')
<1>1. CASE ~VerifyPassword(p, users[u])
  <2>1. th' = [th EXCEPT ![self] = Idle("InvalidCredentials")]
    BY <1>1 DEF LoginBegin
  <2>2. "InvalidCredentials" \in Results
    BY DEF Results
  <2>3. ThreadsOK(th')
    BY <2>1, <2>2, IdleUpdateOK
  <2>4. TypeRest'
    BY <1>1 DEF LoginBegin, TypeRest
  <2>5. QED
    BY <2>3, <2>4
<1>2. CASE VerifyPassword(p, users[u])
  <2>1. PICK t \in Tokens \ issued, i \in IDs \ usedIds :
              /\ th' = [th EXCEPT ![self] =
                          [Idle("none") EXCEPT !.pc = "login_commit",
                             !.tok = t, !.user = u,
                             !.sess = [id |-> i, user |-> u, created |-> now,
                                       expires |-> now + TTL]]]
              /\ issued' = issued \cup {t}
              /\ usedIds' = usedIds \cup {i}
    BY <1>2 DEF LoginBegin
  <2> DEFINE s0 == [id |-> i, user |-> u, created |-> now, expires |-> now + TTL]
             l0 == [Idle("none") EXCEPT !.pc = "login_commit", !.tok = t,
                      !.user = u, !.sess = s0]
  <2>2. s0 \in Session
    BY DEF TypeRest, Session
  <2>3. l0.pc = "login_commit" /\ l0.op = "none" /\ l0.tok = t /\ l0.sess = s0
    BY DEF Idle
  <2>a. l0 \in Local
    BY <2>2, IdleLocal DEF Local, PCs, Results
  <2>b. LocalOK(l0)
    BY <2>2, <2>3, <2>a DEF LocalOK
  <2>4. ThreadsOK(th')
    BY <2>1, <2>b, UpdateOK
  <2>5. TypeRest'
    BY <2>1 DEF LoginBegin, TypeRest
  <2>6. QED
    BY <2>4, <2>5
<1>3. QED
  BY <1>1, <1>2

LEMMA LoginCommitOK ==
    ASSUME TypeRest, ThreadsOK(th), NEW self \in Threads, LoginCommit(self)
    PROVE  TypeRest' /\ ThreadsOK(th')
<1>1. th[self].sess \in Session /\ th[self].tok \in Tokens
  BY DEF LoginCommit, ThreadsOK, LocalOK
<1>2. {"ok", "StorageError"} \subseteq Results
  BY DEF Results
<1>3. \/ th' = [th EXCEPT ![self] = Idle("ok")]
      \/ th' = [th EXCEPT ![self] = Idle("StorageError")]
  BY DEF LoginCommit
<1>4. ThreadsOK(th')
  BY <1>2, <1>3, IdleUpdateOK
<1>5. TypeRest'
  BY <1>1 DEF LoginCommit, SaveOK, SaveFails, TypeRest
<1>6. QED
  BY <1>4, <1>5

LEMMA VTReadOK ==
    ASSUME TypeRest, ThreadsOK(th), NEW self \in Threads, NEW t \in Tokens,
           NEW op \in {"validate", "changepw"},
           NEW cur \in Passwords \cup {NoUser}, NEW npw \in Passwords \cup {NoUser},
           op = "changepw" => npw \in Passwords,
           VTRead(self, t, op, cur, npw),
           UNCHANGED <<sessions, persisted, users, now, issued, usedIds,
                       granted, loggedOut>>
    PROVE  TypeRest' /\ ThreadsOK(th')
<1>1. CASE sessions[t] = NoSession
  <2>1. th' = [th EXCEPT ![self] = Idle("InvalidToken")]
    BY <1>1 DEF VTRead
  <2>2. "InvalidToken" \in Results
    BY DEF Results
  <2>3. TypeRest'
    BY <1>1 DEF VTRead, Refuse, TypeRest
  <2>4. QED
    BY <2>1, <2>2, <2>3, IdleUpdateOK
<1>2. CASE sessions[t] # NoSession
  <2> DEFINE l0 == [Idle("none") EXCEPT !.pc = "vt_check", !.op = op,
                       !.tok = t, !.sess = sessions[t], !.cur = cur, !.npw = npw]
  <2>0. sessions[t] \in Session
    BY <1>2 DEF TypeRest
  <2>a. l0 \in Local
    BY <2>0, IdleLocal DEF Local, PCs, Results
  <2>b. l0.pc = "vt_check" /\ l0.op = op /\ l0.tok = t /\ l0.sess = sessions[t]
        /\ l0.npw = npw
    BY DEF Idle
  <2>1. LocalOK(l0)
    BY <2>0, <2>a, <2>b DEF LocalOK
  <2>2. th' = [th EXCEPT ![self] = [Idle("none") EXCEPT !.pc = "vt_check",
                 !.op = op, !.tok = t, !.sess = sessions[t], !.cur = cur,
                 !.npw = npw]]
    BY <1>2 DEF VTRead
  <2>3. TypeRest'
    BY <1>2 DEF VTRead, TypeRest
  <2>4. QED
    BY <2>1, <2>2, <2>3, UpdateOK
<1>3. QED
  BY <1>1, <1>2

LEMMA ChangePasswordOK ==
    ASSUME TypeRest, ThreadsOK(th), NEW self \in Threads, NEW t \in Tokens,
           NEW cur \in Passwords, NEW npw \in Passwords,
           ChangePassword(self, t, cur, npw)
    PROVE  TypeRest' /\ ThreadsOK(th')
<1>1. CASE ~PolicyOK(npw)
  <2>1. th' = [th EXCEPT ![self] = Idle("WeakPassword")]
    BY <1>1 DEF ChangePassword
  <2>2. "WeakPassword" \in Results
    BY DEF Results
  <2>3. TypeRest'
    BY <1>1 DEF ChangePassword, TypeRest
  <2>4. QED
    BY <2>1, <2>2, <2>3, IdleUpdateOK
<1>2. CASE PolicyOK(npw)
  BY <1>2, VTReadOK DEF ChangePassword
<1>3. QED
  BY <1>1, <1>2

LEMMA VTCheckOK ==
    ASSUME TypeRest, ThreadsOK(th), NEW self \in Threads, VTCheck(self)
    PROVE  TypeRest' /\ ThreadsOK(th')
<1>1. LocalOK(th[self]) /\ th[self] \in Local /\ now \in 0..MaxTime
  BY DEF ThreadsOK, LocalOK, TypeRest
<1>2. TypeRest'
  BY DEF VTCheck, TypeRest
<1>3. CASE th' = [th EXCEPT ![self] = [th[self] EXCEPT !.pc = "vt_evict", !.at = now]]
  <2> DEFINE l0 == [th[self] EXCEPT !.pc = "vt_evict", !.at = now]
  <2>1. l0 \in Local
    BY <1>1 DEF Local, PCs
  <2>2. LocalOK(l0)
    BY <1>1, <2>1 DEF LocalOK, VTCheck
  <2>3. QED
    BY <1>2, <1>3, <2>2, UpdateOK
<1>4. CASE th[self].op = "validate" /\
           th' = [th EXCEPT ![self] = [th[self] EXCEPT !.pc = "idle", !.res = "ok",
                                                      !.at = now]]
  <2> DEFINE l0 == [th[self] EXCEPT !.pc = "idle", !.res = "ok", !.at = now]
  <2>1. l0 \in Local
    BY <1>1 DEF Local, PCs, Results
  <2>2. LocalOK(l0)
    BY <1>1, <2>1 DEF LocalOK
  <2>3. QED
    BY <1>2, <1>4, <2>2, UpdateOK
<1>5. CASE th[self].op # "validate" /\
           th' = [th EXCEPT ![self] = [th[self] EXCEPT !.pc = "cp_lookup",
                                                      !.res = "none", !.at = now]]
  <2> DEFINE l0 == [th[self] EXCEPT !.pc = "cp_lookup", !.res = "none", !.at = now]
  <2>1. l0 \in Local
    BY <1>1 DEF Local, PCs, Results
  <2>0. th[self].pc = "vt_check"
    BY DEF VTCheck
  <2>2. th[self].op = "changepw"
    BY <1>1, <1>5, <2>0 DEF LocalOK, Local
  <2>3. LocalOK(l0)
    BY <1>1, <2>1, <2>2 DEF LocalOK, VTCheck
  <2>4. QED
    BY <1>2, <1>5, <2>3, UpdateOK
<1>6. QED
  BY <1>3, <1>4, <1>5 DEF VTCheck

LEMMA VTEvictOK ==
    ASSUME TypeRest, ThreadsOK(th), NEW self \in Threads, VTEvict(self)
    PROVE  TypeRest' /\ ThreadsOK(th')
<1>1. th[self].tok \in Tokens
  BY DEF VTEvict, ThreadsOK, LocalOK
<1>2. th' = [th EXCEPT ![self] = Idle("InvalidToken")]
  BY DEF VTEvict
<1>3. "InvalidToken" \in Results
  BY DEF Results
<1>4. TypeRest'
  BY <1>1 DEF VTEvict, SaveOK, SaveFails, Refuse, TypeRest
<1>5. QED
  BY <1>2, <1>3, <1>4, IdleUpdateOK

LEMMA CPLookupOK ==
    ASSUME TypeRest, ThreadsOK(th), NEW self \in Threads, CPLookup(self)
    PROVE  TypeRest' /\ ThreadsOK(th')
<1>1. LocalOK(th[self]) /\ th[self].pc = "cp_lookup"
  BY DEF CPLookup, ThreadsOK
<1>2. th[self].sess.user \in Usernames
  BY <1>1 DEF LocalOK, Session
<1>3. LocalOK([th[self] EXCEPT !.pc = "cp_put", !.user = th[self].sess.user])
  BY <1>1, <1>2 DEF LocalOK, Local, PCs
<1>4. "InvalidCredentials" \in Results
  BY DEF Results
<1>5. \/ th' = [th EXCEPT ![self] = Idle("InvalidCredentials")]
      \/ th' = [th EXCEPT ![self] = [th[self] EXCEPT !.pc = "cp_put",
                                       !.user = th[self].sess.user]]
  BY DEF CPLookup
<1>6. ThreadsOK(th')
  BY <1>3, <1>4, <1>5, UpdateOK, IdleUpdateOK
<1>7. TypeRest'
  BY DEF CPLookup, TypeRest
<1>8. QED
  BY <1>6, <1>7

LEMMA CPPutOK ==
    ASSUME TypeRest, ThreadsOK(th), NEW self \in Threads, CPPut(self)
    PROVE  TypeRest' /\ ThreadsOK(th')
<1>1. th[self].npw \in Passwords
  BY DEF CPPut, ThreadsOK, LocalOK
<1>2. {"ok", "StorageError"} \subseteq Results
  BY DEF Results
<1>3. \/ th' = [th EXCEPT ![self] = Idle("ok")]
      \/ th' = [th EXCEPT ![self] = Idle("StorageError")]
  BY DEF CPPut
<1>4. HashPassword(th[self].npw) \in Hashes
  BY <1>1 DEF Hashes
<1>5. TypeRest'
  BY <1>4 DEF CPPut, TypeRest
<1>6. QED
  BY <1>2, <1>3, <1>5, IdleUpdateOK

LEMMA RemoveLockedOK ==
    ASSUME TypeRest, ThreadsOK(th), NEW self \in Threads, NEW t \in Tokens,
           RemoveLocked(self, t)
    PROVE  TypeRest' /\ ThreadsOK(th')
<1>1. {"ok", "StorageError", "InvalidToken"} \subseteq Results
  BY DEF Results
<1>2. \/ th' = [th EXCEPT ![self] = Idle("ok")]
      \/ th' = [th EXCEPT ![self] = Idle("StorageError")]
      \/ th' = [th EXCEPT ![self] = Idle("InvalidToken")]
  BY DEF RemoveLocked
<1>3. TypeRest'
  BY DEF RemoveLocked, SaveOK, SaveFails, Refuse, TypeRest
<1>4. QED
  BY <1>1, <1>2, <1>3, IdleUpdateOK

LEMMA RevokeSessionByIDOK ==
    ASSUME TypeRest, ThreadsOK(th), NEW self \in Threads, NEW sid \in IDs,
           RevokeSessionByID(self, sid)
    PROVE  TypeRest' /\ ThreadsOK(th')
<1>1. CASE \E t \in Tokens : HasID(t, sid) /\ RemoveLocked(self, t)
  BY <1>1, RemoveLockedOK
<1>2. CASE ~\E t \in Tokens : HasID(t, sid) /\ RemoveLocked(self, t)
  <2>1. th' = [th EXCEPT ![self] = Idle("InvalidToken")]
    BY <1>2 DEF RevokeSessionByID
  <2>2. "InvalidToken" \in Results
    BY DEF Results
  <2>3. TypeRest'
    BY <1>2 DEF RevokeSessionByID, TypeRest
  <2>4. QED
    BY <2>1, <2>2, <2>3, IdleUpdateOK
<1>3. QED
  BY <1>1, <1>2

LEMMA ListOK ==
    ASSUME TypeRest, ThreadsOK(th), NEW self \in Threads,
           ListBegin(self) \/ ListScan(self)
    PROVE  TypeRest' /\ ThreadsOK(th')
<1>1. CASE ListBegin(self)
  <2> DEFINE l0 == [Idle("none") EXCEPT !.pc = "list_scan", !.at = now]
  <2>0. l0 \in Local
    BY IdleLocal DEF Local, PCs, Results, TypeRest
  <2>a. l0.pc = "list_scan" /\ l0.op = "none"
    BY DEF Idle
  <2>1. LocalOK(l0)
    BY <2>0, <2>a DEF LocalOK
  <2>2. th' = [th EXCEPT ![self] = [Idle("none") EXCEPT !.pc = "list_scan",
                                                     !.at = now]]
    BY <1>1 DEF ListBegin
  <2>3. TypeRest'
    BY <1>1 DEF ListBegin, TypeRest
  <2>4. QED
    BY <2>1, <2>2, <2>3, UpdateOK
<1>2. CASE ListScan(self)
  <2>1. th' = [th EXCEPT ![self] = Idle("ok")]
    BY <1>2 DEF ListScan
  <2>2. "ok" \in Results
    BY DEF Results
  <2>3. TypeRest'
    BY <1>2 DEF ListScan, SaveOK, SaveFails, TypeRest
  <2>4. QED
    BY <2>1, <2>2, <2>3, IdleUpdateOK
<1>3. QED
  BY <1>1, <1>2

LEMMA NextTInv == TInv /\ [Next]_vars => TInv'
<1> SUFFICES ASSUME TypeRest, ThreadsOK(th), [Next]_vars
             PROVE  TypeRest' /\ ThreadsOK(th')
  BY DEF TInv, TypeOK, TypeRest, ThreadsOK
<1>1. CASE \E self \in Threads :
             \/ \E u \in Usernames, p \in Passwords : LoginBegin(self, u, p)
             \/ LoginCommit(self)
             \/ \E t \in Tokens : ValidateToken(self, t)
             \/ \E t \in Tokens, cur, npw \in Passwords :
                   ChangePassword(self, t, cur, npw)
             \/ VTCheck(self)
             \/ VTEvict(self)
             \/ CPLookup(self)
             \/ CPPut(self)
             \/ \E t \in Tokens : Logout(self, t)
             \/ \E t \in Tokens : RevokeToken(self, t)
             \/ \E sid \in IDs : RevokeSessionByID(self, sid)
             \/ ListBegin(self)
             \/ ListScan(self)
  <2>1. ASSUME NEW self \in Threads, NEW t \in Tokens, ValidateToken(self, t)
        PROVE  TypeRest' /\ ThreadsOK(th')
    BY <2>1, VTReadOK DEF ValidateToken
  <2>2. QED
    BY <1>1, <2>1, LoginBeginOK, LoginCommitOK, ChangePasswordOK, VTCheckOK,
       VTEvictOK, CPLookupOK, CPPutOK, RemoveLockedOK, RevokeSessionByIDOK,
       ListOK DEF Logout, RevokeToken
<1>2. CASE Tick
  BY <1>2 DEF Tick, TypeRest
<1>3. CASE Restart
  <2>1. "none" \in Results
    BY DEF Results
  <2>2. ThreadsOK(th')
    BY <1>3, <2>1, IdleOK DEF Restart, ThreadsOK, LocalOK
  <2>3. QED
    BY <1>3, <2>2 DEF Restart, TypeRest
<1>4. CASE UNCHANGED vars
  BY <1>4 DEF vars, TypeRest
<1>5. QED
  BY <1>1, <1>2, <1>3, <1>4 DEF Next

(***************************************************************************)
(* The model's state keeps its types in every reachable state: table and   *)
(* storage map tokens to sessions whose expiry is CreatedAt + TTL bounded  *)
(* by the clock, and every goroutine's locals are well formed.            *)
(***************************************************************************)
THEOREM TypeCorrect == Spec => []TypeOK
<1>1. Init => TInv
  BY InitTInv
<1>2. TInv /\ [Next]_vars => TInv'
  BY NextTInv
<1>3. TInv => TypeOK
  BY DEF TInv
<1>4. QED
  BY <1>1, <1>2, <1>3, PTL DEF Spec

-----------------------------------------------------------------------------
(***************************************************************************)
(* Freshness of random tokens, as the durability proofs need it: a token   *)
(* never issued is nowhere, a Login between its two steps holds an issued  *)
(* token that is in no table and was never revoked, and no two pending     *)
(* Logins hold the same one.                                              *)
(***************************************************************************)
Pending(s) == th[s].pc = "login_commit"

Fresh ==
    /\ \A t \in Tokens \ issued :
          sessions[t] = NoSession /\ persisted[t] = NoSession /\ t \notin loggedOut
    /\ \A s \in Threads : Pending(s) =>
          /\ th[s].tok \in issued
          /\ th[s].tok \notin loggedOut
          /\ sessions[th[s].tok] = NoSession
    /\ \A s1, s2 \in Threads :
          s1 # s2 /\ Pending(s1) /\ Pending(s2) => th[s1].tok # th[s2].tok

IInv == TInv /\ Fresh /\ DurableTable /\ RevocationDurable


DInv == Fresh /\ DurableTable /\ RevocationDurable

(* A step of goroutine self that only deletes entries from the table, saves *)
(* the new table or nothing, revokes only tokens it deleted from a present  *)
(* entry, and leaves self outside the commit step of Login.               *)
OthersKeep(self) == \A s \in Threads \ {self} : th'[s] = th[s]

ShrinkStep(self) ==
    /\ OthersKeep(self)
    /\ th'[self].pc # "login_commit"
    /\ \A t \in Tokens : sessions'[t] = sessions[t] \/ sessions'[t] = NoSession
    /\ persisted' = persisted \/ persisted' = sessions'
    /\ issued' = issued
    /\ loggedOut \subseteq loggedOut'
    /\ \A t \in loggedOut' \ loggedOut :
          sessions[t] # NoSession /\ sessions'[t] = NoSession /\ persisted'[t] = NoSession

LEMMA ShrinkDInv ==
    ASSUME TInv, TInv', DInv, NEW self \in Threads, ShrinkStep(self)
    PROVE  DInv'
<1> USE DEF TInv, TypeOK, ShrinkStep
<1>1. \A s \in Threads : Pending(s)' => Pending(s) /\ th'[s].tok = th[s].tok
  BY DEF OthersKeep, Pending
<1>2. Fresh'
  <2>1. \A t \in Tokens \ issued' :
          sessions'[t] = NoSession /\ persisted'[t] = NoSession /\ t \notin loggedOut'
    BY DEF DInv, Fresh
  <2>2. \A s \in Threads : Pending(s)' =>
          /\ th'[s].tok \in issued'
          /\ th'[s].tok \notin loggedOut'
          /\ sessions'[th'[s].tok] = NoSession
    BY <1>1 DEF DInv, Fresh
  <2>3. \A s1, s2 \in Threads :
          s1 # s2 /\ Pending(s1)' /\ Pending(s2)' => th'[s1].tok # th'[s2].tok
    BY <1>1 DEF DInv, Fresh
  <2>4. QED
    BY <2>1, <2>2, <2>3 DEF Fresh
<1>3. DurableTable'
  BY DEF DInv, DurableTable
<1>4. RevocationDurable'
  BY DEF DInv, RevocationDurable
<1>5. QED
  BY <1>2, <1>3, <1>4 DEF DInv

(* A step of goroutine self that changes only its own locals.              *)
LEMMA KeepDInv ==
    ASSUME TInv, TInv', DInv, NEW self \in Threads,
           UNCHANGED <<sessions, persisted, issued, loggedOut>>,
           OthersKeep(self), th'[self].pc # "login_commit"
    PROVE  DInv'
<1>1. sessions' = sessions /\ persisted' = persisted
      /\ issued' = issued /\ loggedOut' = loggedOut
  OBVIOUS
<1>2. ShrinkStep(self)
  BY <1>1 DEF ShrinkStep
<1>3. QED
  BY <1>2, ShrinkDInv

(* Sending goroutine self back to idle leaves the others' locals alone.   *)
LEMMA ThreadStepIdle ==
    ASSUME TInv, NEW self \in Threads, NEW r \in Results,
           th' = [th EXCEPT ![self] = Idle(r)]
    PROVE  OthersKeep(self) /\ th'[self].pc # "login_commit"
BY DEF TInv, TypeOK, OthersKeep, Idle

(* Any update of goroutine self's locals leaves the others' alone.         *)
LEMMA ExceptOthers ==
    ASSUME TInv, NEW self \in Threads, NEW x, th' = [th EXCEPT ![self] = x]
    PROVE  OthersKeep(self) /\ th'[self] = x
BY DEF TInv, TypeOK, OthersKeep

LEMMA LoginBeginDInv ==
    ASSUME TInv, TInv', DInv, NEW self \in Threads, NEW u \in Usernames,
           NEW p \in Passwords, LoginBegin(self, u, p)
    PROVE  DInv'
<1>1. CASE ~VerifyPassword(p, users[u])
  <2>1. th' = [th EXCEPT ![self] = Idle("InvalidCredentials")]
        /\ UNCHANGED <<sessions, persisted, issued, loggedOut>>
    BY <1>1 DEF LoginBegin
  <2>2. "InvalidCredentials" \in Results
    BY DEF Results
  <2>3. QED
    BY <2>1, <2>2, ThreadStepIdle, KeepDInv
<1>2. CASE VerifyPassword(p, users[u])
  <2>1. PICK t \in Tokens \ issued, i \in IDs \ usedIds :
          /\ th' = [th EXCEPT ![self] =
                      [Idle("none") EXCEPT !.pc = "login_commit",
                         !.tok = t, !.user = u,
                         !.sess = [id |-> i, user |-> u, created |-> now,
                                   expires |-> now + TTL]]]
          /\ issued' = issued \cup {t}
    BY <1>2 DEF LoginBegin
  <2>2. UNCHANGED <<sessions, persisted, loggedOut>> /\ th[self].pc = "idle"
    BY DEF LoginBegin
  <2> DEFINE l == [Idle("none") EXCEPT !.pc = "login_commit",
                      !.tok = t, !.user = u,
                      !.sess = [id |-> i, user |-> u, created |-> now,
                                expires |-> now + TTL]]
  <2>a. l.tok = t
    BY DEF Idle
  <2>3. OthersKeep(self) /\ th'[self].tok = t
    BY <2>1, <2>a, ExceptOthers
  <2>4. \A s \in Threads \ {self} : Pending(s)' = Pending(s)
    BY <2>3 DEF OthersKeep, Pending
  <2>5. ~Pending(self)
    BY <2>2 DEF Pending
  <2>6. \A s \in Threads \ {self} : Pending(s) => th[s].tok # t
    BY <2>1 DEF DInv, Fresh
  <2>7. t \notin loggedOut /\ sessions[t] = NoSession
    BY <2>1 DEF DInv, Fresh
  <2>8. Fresh'
    BY <2>1, <2>2, <2>3, <2>4, <2>5, <2>6, <2>7 DEF DInv, Fresh, OthersKeep
  <2>9. QED
    BY <2>2, <2>8 DEF DInv, DurableTable, RevocationDurable
<1>3. QED
  BY <1>1, <1>2

LEMMA LoginCommitDInv ==
    ASSUME TInv, TInv', DInv, NEW self \in Threads, LoginCommit(self)
    PROVE  DInv'
<1> DEFINE t == th[self].tok
           tbl == [sessions EXCEPT ![t] = th[self].sess]
<1>1. Pending(self) /\ t \in Tokens
  BY DEF LoginCommit, Pending, TInv, ThreadsOK, LocalOK
<1>2. t \in issued /\ t \notin loggedOut /\ sessions[t] = NoSession
  BY <1>1 DEF DInv, Fresh
<1>3. \A s \in Threads \ {self} : Pending(s) => th[s].tok # t
  BY <1>1 DEF DInv, Fresh
<1>4. UNCHANGED <<issued, loggedOut>>
  BY DEF LoginCommit
<1>5. CASE SaveOK(tbl) /\ sessions' = tbl /\ th' = [th EXCEPT ![self] = Idle("ok")]
  <2>0. Idle("ok").pc = "idle"
    BY DEF Idle
  <2>1. OthersKeep(self) /\ ~Pending(self)'
    BY <1>5, <2>0, ExceptOthers DEF Pending
  <2>2. \A x \in Tokens \ {t} : sessions'[x] = sessions[x]
    BY <1>5 DEF TInv, TypeOK
  <2>3. persisted' = sessions'
    BY <1>5 DEF SaveOK
  <2>a. \A x \in Tokens \ issued' :
          sessions'[x] = NoSession /\ persisted'[x] = NoSession /\ x \notin loggedOut'
    BY <1>2, <1>4, <2>2, <2>3 DEF DInv, Fresh
  <2>b. \A s \in Threads : Pending(s)' =>
          /\ th'[s].tok \in issued'
          /\ th'[s].tok \notin loggedOut'
          /\ sessions'[th'[s].tok] = NoSession
    <3> SUFFICES ASSUME NEW s \in Threads, Pending(s)'
                 PROVE  th'[s].tok \in issued' /\ th'[s].tok \notin loggedOut'
                        /\ sessions'[th'[s].tok] = NoSession
      OBVIOUS
    <3>1. s # self /\ th'[s] = th[s] /\ Pending(s)
      BY <2>1 DEF OthersKeep, Pending
    <3>2. th[s].tok # t /\ th[s].tok \in Tokens
      BY <1>3, <3>1 DEF TInv, ThreadsOK, LocalOK, Pending
    <3>3. QED
      BY <1>4, <2>2, <3>1, <3>2 DEF DInv, Fresh
  <2>c. \A s1, s2 \in Threads :
          s1 # s2 /\ Pending(s1)' /\ Pending(s2)' => th'[s1].tok # th'[s2].tok
    BY <2>1 DEF DInv, Fresh, OthersKeep, Pending
  <2>4. Fresh'
    BY <2>a, <2>b, <2>c DEF Fresh
  <2>5. RevocationDurable'
    BY <1>2, <1>4, <2>2, <2>3 DEF DInv, RevocationDurable, TInv, TypeOK
  <2>6. QED
    BY <2>3, <2>4, <2>5 DEF DInv, DurableTable
<1>6. CASE SaveFails /\ sessions' = [tbl EXCEPT ![t] = NoSession]
           /\ th' = [th EXCEPT ![self] = Idle("StorageError")]
  <2>1. sessions' = sessions
    BY <1>1, <1>2, <1>6 DEF TInv, TypeOK
  <2>2. "StorageError" \in Results
    BY DEF Results
  <2>3. QED
    BY <1>4, <1>6, <2>1, <2>2, ThreadStepIdle, KeepDInv DEF SaveFails
<1>7. QED
  BY <1>5, <1>6 DEF LoginCommit

LEMMA VTReadLocals ==
    ASSUME TInv, NEW self \in Threads, NEW t, NEW op, NEW cur, NEW npw,
           VTRead(self, t, op, cur, npw)
    PROVE  OthersKeep(self) /\ th'[self].pc # "login_commit"
<1> DEFINE l == [Idle("none") EXCEPT !.pc = "vt_check", !.op = op,
                   !.tok = t, !.sess = sessions[t], !.cur = cur, !.npw = npw]
<1>1. l.pc = "vt_check" /\ Idle("InvalidToken").pc = "idle"
  BY DEF Idle
<1>2. th' = [th EXCEPT ![self] = Idle("InvalidToken")] \/ th' = [th EXCEPT ![self] = l]
  BY DEF VTRead
<1>3. QED
  BY <1>1, <1>2, ExceptOthers

(* A step that changes only goroutine self's locals, and leaves it outside *)
(* Login's commit step, is a (trivial) shrinking step.                    *)
LEMMA KeepShrink ==
    ASSUME NEW self \in Threads,
           UNCHANGED <<sessions, persisted, issued, loggedOut>>,
           OthersKeep(self), th'[self].pc # "login_commit"
    PROVE  ShrinkStep(self)
BY DEF ShrinkStep

LEMMA ValidateChangeShrink ==
    ASSUME TInv, NEW self \in Threads, NEW t \in Tokens,
           NEW cur, NEW npw,
           ValidateToken(self, t) \/ ChangePassword(self, t, cur, npw)
    PROVE  ShrinkStep(self)
<1>1. UNCHANGED <<sessions, persisted, issued, loggedOut>>
  BY DEF ValidateToken, ChangePassword
<1>2. OthersKeep(self) /\ th'[self].pc # "login_commit"
  <2>1. CASE ValidateToken(self, t)
    BY <2>1, VTReadLocals DEF ValidateToken
  <2>2. CASE ChangePassword(self, t, cur, npw) /\ ~PolicyOK(npw)
    <3>1. "WeakPassword" \in Results
      BY DEF Results
    <3>2. th' = [th EXCEPT ![self] = Idle("WeakPassword")]
      BY <2>2 DEF ChangePassword
    <3>3. QED
      BY <3>1, <3>2, ThreadStepIdle
  <2>3. CASE ChangePassword(self, t, cur, npw) /\ PolicyOK(npw)
    BY <2>3, VTReadLocals DEF ChangePassword
  <2>4. QED
    BY <2>1, <2>2, <2>3
<1>3. QED
  BY <1>1, <1>2, KeepShrink

LEMMA VTCheckShrink ==
    ASSUME TInv, NEW self \in Threads, VTCheck(self)
    PROVE  ShrinkStep(self)
<1>1. UNCHANGED <<sessions, persisted, issued, loggedOut>>
  BY DEF VTCheck
<1>2. OthersKeep(self) /\ th'[self].pc \in {"vt_evict", "idle", "cp_lookup"}
  <2>1. th \in [Threads -> Local]
    BY DEF TInv, TypeOK
  <2>2. CASE th' = [th EXCEPT ![self].pc = "vt_evict", ![self].at = now]
    BY <2>1, <2>2 DEF OthersKeep
  <2>3. CASE th' = [th EXCEPT ![self].pc =
                       IF th[self].op = "validate" THEN "idle" ELSE "cp_lookup",
                      ![self].res =
                       IF th[self].op = "validate" THEN "ok" ELSE "none",
                      ![self].at = now]
    BY <2>1, <2>3 DEF OthersKeep
  <2>4. QED
    BY <2>2, <2>3 DEF VTCheck
<1>3. QED
  BY <1>1, <1>2, KeepShrink

LEMMA CPShrink ==
    ASSUME TInv, NEW self \in Threads, CPLookup(self) \/ CPPut(self)
    PROVE  ShrinkStep(self)
<1>1. UNCHANGED <<sessions, persisted, issued, loggedOut>>
  BY DEF CPLookup, CPPut
<1>2. {"ok", "StorageError", "InvalidCredentials"} \subseteq Results
  BY DEF Results
<1>3. CASE th' = [th EXCEPT ![self].pc = "cp_put", ![self].user = th[self].sess.user]
  <2>1. OthersKeep(self) /\ th'[self].pc = "cp_put"
    BY <1>3 DEF TInv, TypeOK, OthersKeep
  <2>2. QED
    BY <1>1, <2>1, KeepShrink
<1>4. CASE \E r \in {"ok", "StorageError", "InvalidCredentials"} :
             th' = [th EXCEPT ![self] = Idle(r)]
  BY <1>1, <1>2, <1>4, ThreadStepIdle, KeepShrink
<1>5. QED
  BY <1>3, <1>4 DEF CPLookup, CPPut

LEMMA VTEvictShrink ==
    ASSUME TInv, NEW self \in Threads, VTEvict(self)
    PROVE  ShrinkStep(self)
<1>1. "InvalidToken" \in Results
  BY DEF Results
<1>2. OthersKeep(self) /\ th'[self].pc # "login_commit"
  BY <1>1, ThreadStepIdle DEF VTEvict
<1>3. QED
  BY <1>2 DEF VTEvict, ShrinkStep, SaveOK, SaveFails, TInv, TypeOK

LEMMA RemoveLockedShrink ==
    ASSUME TInv, NEW self \in Threads, NEW t \in Tokens, RemoveLocked(self, t)
    PROVE  ShrinkStep(self)
<1>1. {"ok", "StorageError", "InvalidToken"} \subseteq Results
  BY DEF Results
<1>2. OthersKeep(self) /\ th'[self].pc # "login_commit"
  <2>1. \E r \in {"ok", "StorageError", "InvalidToken"} :
          th' = [th EXCEPT ![self] = Idle(r)]
    BY DEF RemoveLocked
  <2>2. QED
    BY <1>1, <2>1, ThreadStepIdle
<1>3. CASE sessions[t] = NoSession
  BY <1>2, <1>3, KeepShrink DEF RemoveLocked
<1>4. CASE sessions[t] # NoSession
  <2> DEFINE tbl == [sessions EXCEPT ![t] = NoSession]
  <2>1. sessions' = tbl /\ issued' = issued
    BY <1>4 DEF RemoveLocked
  <2>2. \/ persisted' = tbl /\ loggedOut' = loggedOut \cup {t}
        \/ persisted' = persisted /\ loggedOut' = loggedOut
    BY <1>4 DEF RemoveLocked, SaveOK, SaveFails
  <2>3. QED
    BY <1>2, <1>4, <2>1, <2>2 DEF ShrinkStep, TInv, TypeOK
<1>5. QED
  BY <1>3, <1>4

LEMMA RevokeSessionByIDShrink ==
    ASSUME TInv, NEW self \in Threads, NEW sid \in IDs,
           RevokeSessionByID(self, sid)
    PROVE  ShrinkStep(self)
<1>1. CASE \E t \in Tokens : HasID(t, sid) /\ RemoveLocked(self, t)
  BY <1>1, RemoveLockedShrink
<1>2. CASE ~\E t \in Tokens : HasID(t, sid) /\ RemoveLocked(self, t)
  <2>1. th' = [th EXCEPT ![self] = Idle("InvalidToken")]
        /\ UNCHANGED <<sessions, persisted, issued, loggedOut>>
    BY <1>2 DEF RevokeSessionByID
  <2>2. "InvalidToken" \in Results
    BY DEF Results
  <2>3. QED
    BY <2>1, <2>2, ThreadStepIdle, KeepShrink
<1>3. QED
  BY <1>1, <1>2

LEMMA ListShrink ==
    ASSUME TInv, NEW self \in Threads, ListBegin(self) \/ ListScan(self)
    PROVE  ShrinkStep(self)
<1>1. CASE ListBegin(self)
  <2> DEFINE l == [Idle("none") EXCEPT !.pc = "list_scan", !.at = now]
  <2>1. l.pc = "list_scan"
    BY DEF Idle
  <2>2. th' = [th EXCEPT ![self] = l]
        /\ UNCHANGED <<sessions, persisted, issued, loggedOut>>
    BY <1>1 DEF ListBegin
  <2>3. QED
    BY <2>1, <2>2, ExceptOthers, KeepShrink
<1>2. CASE ListScan(self)
  <2> DEFINE t0 == th[self].at
             tbl == [t \in Tokens |->
                       IF sessions[t] # NoSession /\ t0 > sessions[t].expires
                       THEN NoSession ELSE sessions[t]]
  <2>1. "ok" \in Results
    BY DEF Results
  <2>2. OthersKeep(self) /\ th'[self].pc # "login_commit"
    BY <1>2, <2>1, ThreadStepIdle DEF ListScan
  <2>3. sessions' = tbl /\ UNCHANGED <<issued, loggedOut>>
        /\ (persisted' = persisted \/ persisted' = tbl)
    BY <1>2 DEF ListScan, SaveOK, SaveFails
  <2>4. QED
    BY <2>2, <2>3 DEF ShrinkStep
<1>3. QED
  BY <1>1, <1>2

(* Every step of a goroutine other than Login's two steps only deletes    *)
(* entries, saves the new table or nothing, and issues no token.          *)
OtherStep(self) ==
    \/ \E t \in Tokens : ValidateToken(self, t)
    \/ \E t \in Tokens, cur, npw \in Passwords : ChangePassword(self, t, cur, npw)
    \/ VTCheck(self)
    \/ VTEvict(self)
    \/ CPLookup(self)
    \/ CPPut(self)
    \/ \E t \in Tokens : RemoveLocked(self, t)
    \/ \E sid \in IDs : RevokeSessionByID(self, sid)
    \/ ListBegin(self)
    \/ ListScan(self)

LEMMA OtherShrink ==
    ASSUME TInv, NEW self \in Threads, OtherStep(self)
    PROVE  ShrinkStep(self)
BY ValidateChangeShrink, VTCheckShrink, VTEvictShrink, CPShrink,
   RemoveLockedShrink, RevokeSessionByIDShrink, ListShrink DEF OtherStep

(* Next, grouped: Login's two steps, the shrinking steps, Tick, Restart.  *)
LEMMA NextCases ==
    ASSUME [Next]_vars
    PROVE  \/ \E self \in Threads, u \in Usernames, p \in Passwords :
                 LoginBegin(self, u, p)
           \/ \E self \in Threads : LoginCommit(self)
           \/ \E self \in Threads : OtherStep(self)
           \/ Tick \/ Restart \/ UNCHANGED vars
BY DEF Next, OtherStep, Logout, RevokeToken

LEMMA RestartDInv ==
    ASSUME TInv, TInv', DInv, Restart
    PROVE  DInv'
<1>1. Idle("none").pc = "idle"
  BY DEF Idle
<1>2. \A s \in Threads : ~Pending(s)'
  BY <1>1 DEF Restart, Pending
<1>3. QED
  BY <1>2 DEF Restart, DInv, Fresh, DurableTable, RevocationDurable,
     TInv, TypeOK

(* The durability invariants and token freshness are preserved by every   *)
(* step.                                                                   *)
LEMMA NextDInv == TInv /\ TInv' /\ DInv /\ [Next]_vars => DInv'
<1> SUFFICES ASSUME TInv, TInv', DInv, [Next]_vars PROVE DInv'
  OBVIOUS
<1>1. CASE \E self \in Threads, u \in Usernames, p \in Passwords :
             LoginBegin(self, u, p)
  BY <1>1, LoginBeginDInv
<1>2. CASE \E self \in Threads : LoginCommit(self)
  BY <1>2, LoginCommitDInv
<1>3. CASE \E self \in Threads : OtherStep(self)
  BY <1>3, OtherShrink, ShrinkDInv
<1>4. CASE Tick
  BY <1>4 DEF Tick, DInv, Fresh, DurableTable, RevocationDurable, Pending
<1>5. CASE Restart
  BY <1>5, RestartDInv
<1>6. CASE UNCHANGED vars
  BY <1>6 DEF vars, DInv, Fresh, DurableTable, RevocationDurable, Pending
<1>7. QED
  BY <1>1, <1>2, <1>3, <1>4, <1>5, <1>6, NextCases

LEMMA InitIInv == Init => IInv
<1> SUFFICES ASSUME Init PROVE IInv
  OBVIOUS
<1>1. TInv
  BY InitTInv
<1>2. Idle("none").pc = "idle"
  BY DEF Idle
<1>3. DInv
  BY <1>2 DEF Init, DInv, Fresh, Pending, DurableTable, RevocationDurable
<1>4. QED
  BY <1>1, <1>3 DEF IInv, DInv

LEMMA NextIInv == IInv /\ [Next]_vars => IInv'
<1> SUFFICES ASSUME IInv, [Next]_vars PROVE IInv'
  OBVIOUS
<1>1. TInv'
  BY NextTInv DEF IInv
<1>2. DInv'
  BY <1>1, NextDInv DEF IInv, DInv
<1>3. QED
  BY <1>1, <1>2 DEF IInv, DInv

(***************************************************************************)
(* Every session the in-memory table serves is stored, unchanged, in the   *)
(* session store, for any number of goroutines, tokens and users: Login's  *)
(* insert-Save-delete-on-failure and the delete-then-Save of eviction and  *)
(* revocation never let the table hold what storage does not.  It rests on *)
(* token freshness: the token a pending Login inserts is in no table.      *)
(***************************************************************************)
THEOREM Durability == Spec => []DurableTable
<1>1. IInv => DurableTable
  BY DEF IInv
<1>2. QED
  BY <1>1, InitIInv, NextIInv, PTL DEF Spec

(***************************************************************************)
(* A token whose Logout, RevokeToken or RevokeSessionByID succeeded stays  *)
(* out of the table and out of storage for ever, across restarts.          *)
(***************************************************************************)
THEOREM RevocationFinal == Spec => []RevocationDurable
<1>1. IInv => RevocationDurable
  BY DEF IInv
<1>2. QED
  BY <1>1, InitIInv, NextIInv, PTL DEF Spec

=============================================================================
