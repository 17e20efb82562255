---------------------------- MODULE AuthSessions ----------------------------
(***************************************************************************)
(* The session table of auth.Service (src/internal/auth/service.go), its   *)
(* persisted mirror (SessionStore.Save / Load), the user store as seen by  *)
(* Login and ChangePassword, and the request goroutines that call the      *)
(* service concurrently.                                                   *)
(*                                                                         *)
(* Every section of the code that runs under sessMu.Lock() is one atomic   *)
(* action: it is the only code that touches `sessions` and the persisted   *)
(* copy, and it holds the lock for the in-memory change and the Save.      *)
(* Code outside the lock (the RLock read of ValidateToken, the clock read  *)
(* of Login and ListSessions, ChangePassword's user-store calls) is split  *)
(* into its own steps, so other goroutines interleave between them.        *)
(*                                                                         *)
(* Tokens and session ids are drawn from 32 and 16 random bytes: the model *)
(* draws them fresh (never issued before).  A process restart loses the    *)
(* goroutines and the table and reloads it from storage (LoadSessionState, *)
(* run by app.New before the server accepts requests).                     *)
(***************************************************************************)
EXTENDS Naturals, FiniteSets

CONSTANTS
    Threads,        \* request goroutines calling the service
    Tokens,         \* bearer tokens generateToken(32) can return
    IDs,            \* session ids mustID(16) can return
    Usernames,      \* usernames a caller may present
    Passwords,      \* passwords a caller may present
    WeakPasswords,  \* the ones validatePasswordPolicy rejects
    InitPassword,   \* [Usernames -> Passwords \cup {NoUser}]: bootstrap users
    TTL,            \* ServiceConfig.SessionTTL, in clock ticks
    MaxTime,        \* bound on the clock
    NoSession,      \* "no entry" in the session map
    NoUser          \* "no entry" in the user store

ASSUME TTLAssumption == TTL \in Nat \ {0}
ASSUME MaxTimeAssumption == MaxTime \in Nat
ASSUME WeakAssumption == WeakPasswords \subseteq Passwords
ASSUME InitPasswordAssumption ==
    InitPassword \in [Usernames -> Passwords \cup {NoUser}]
ASSUME SentinelAssumption == NoUser \notin Passwords

VARIABLES
    sessions,   \* Service.sessions: token -> Session or NoSession
    persisted,  \* what SessionStore.Load would return now
    users,      \* UserStore: username -> password hash or NoUser
    now,        \* nowFunc()
    th,         \* per-goroutine program counter and locals
    issued,     \* tokens generateToken has ever returned
    usedIds,    \* ids mustID has ever returned
    granted,    \* tokens a successful Login returned to its caller
    loggedOut,  \* tokens a Logout/RevokeToken/RevokeSessionByID removed with success
    refused     \* granted tokens some call has answered InvalidToken for

vars == <<sessions, persisted, users, now, th, issued, usedIds,
          granted, loggedOut, refused>>

(* HashPassword: sha256(pepper ":" password), hex-encoded.  For a fixed     *)
(* pepper it is deterministic and (collision-free by assumption) injective. *)
HashPassword(p) == <<"sha256", p>>

(* VerifyPassword: recompute and compare.                                  *)
VerifyPassword(p, stored) == stored = HashPassword(p)

Hashes == {HashPassword(p) : p \in Passwords}

Session == [id : IDs, user : Usernames, created : 0..MaxTime,
            expires : 0..(MaxTime + TTL)]

Results == {"none", "ok", "InvalidCredentials", "InvalidToken",
            "WeakPassword", "StorageError"}

PCs == {"idle", "login_commit", "vt_check", "vt_evict", "cp_lookup",
        "cp_put", "list_scan"}

(* A goroutine's locals; fields an operation does not use keep a default.  *)
Local == [pc : PCs, op : {"none", "validate", "changepw"},
          tok : Tokens \cup {NoSession}, sess : Session \cup {NoSession},
          user : Usernames \cup {NoUser}, cur : Passwords \cup {NoUser},
          npw : Passwords \cup {NoUser}, at : 0..MaxTime, res : Results]

Idle(res) == [pc |-> "idle", op |-> "none", tok |-> NoSession,
              sess |-> NoSession, user |-> NoUser, cur |-> NoUser,
              npw |-> NoUser, at |-> 0, res |-> res]

(* The session is still valid at time t: !t.After(ExpiresAt).            *)
Live(s, t) == s # NoSession /\ t <= s.expires

(* validatePasswordPolicy: the length and character-class rules decide     *)
(* which passwords are weak; here that is the set WeakPasswords.          *)
PolicyOK(p) == p \notin WeakPasswords

(* A caller may be told "invalid token" for a token it was granted.       *)
Refuse(t) == refused' = IF t \in granted THEN refused \cup {t} ELSE refused

-----------------------------------------------------------------------------
(* NewService followed by LoadSessionState on an empty store.             *)
Init ==
    /\ sessions = [t \in Tokens |-> NoSession]
    /\ persisted = sessions
    /\ users = [u \in Usernames |->
                  IF InitPassword[u] = NoUser THEN NoUser
                  ELSE HashPassword(InitPassword[u])]
    /\ now = 0
    /\ th = [self \in Threads |-> Idle("none")]
    /\ issued = {}
    /\ usedIds = {}
    /\ granted = {}
    /\ loggedOut = {}
    /\ refused = {}

(* persistSessionsLocked after the table became tbl: Save either stores    *)
(* the whole snapshot or fails and stores nothing (one transaction).       *)
SaveOK(tbl) == persisted' = tbl
SaveFails == UNCHANGED persisted

(* Mutant of LoginBegin: ExpiresAt one tick past CreatedAt + TTL.        *)
LoginBeginLateExpiry(self, u, p) ==
    /\ th[self].pc = "idle"
    /\ VerifyPassword(p, users[u])
    /\ \E t \in Tokens \ issued, i \in IDs \ usedIds :
          /\ th' = [th EXCEPT ![self] =
                      [Idle("none") EXCEPT !.pc = "login_commit", !.tok = t,
                         !.user = u, !.sess = [id |-> i, user |-> u,
                         created |-> now, expires |-> now + TTL + 1]]]
          /\ issued' = issued \cup {t}
          /\ usedIds' = usedIds \cup {i}
    /\ UNCHANGED <<sessions, persisted, users, now, granted, loggedOut, refused>>

(* Login up to sessMu.Lock(): user lookup, password check, token, id and  *)
(* clock read.  Unknown user and wrong password both answer               *)
(* InvalidCredentials.                                                    *)
LoginBegin(self, u, p) ==
    /\ th[self].pc = "idle"
    /\ \/ /\ ~VerifyPassword(p, users[u])
          /\ th' = [th EXCEPT ![self] = Idle("InvalidCredentials")]
          /\ UNCHANGED <<issued, usedIds>>
       \/ /\ VerifyPassword(p, users[u])
          /\ \E t \in Tokens \ issued, i \in IDs \ usedIds :
                /\ th' = [th EXCEPT ![self] =
                            [Idle("none") EXCEPT !.pc = "login_commit",
                               !.tok = t, !.user = u,
                               !.sess = [id |-> i, user |-> u, created |-> now,
                                         expires |-> now + TTL]]]
                /\ issued' = issued \cup {t}
                /\ usedIds' = usedIds \cup {i}
    /\ UNCHANGED <<sessions, persisted, users, now, granted, loggedOut, refused>>

(* Mutant of LoginCommit: the failed Save is returned without deleting   *)
(* the inserted token.                                                    *)
LoginCommitNoRollback(self) ==
    LET t == th[self].tok
        tbl == [sessions EXCEPT ![t] = th[self].sess]
    IN /\ th[self].pc = "login_commit"
       /\ sessions' = tbl
       /\ \/ /\ SaveOK(tbl)
             /\ th' = [th EXCEPT ![self] = Idle("ok")]
             /\ granted' = granted \cup {t}
          \/ /\ SaveFails
             /\ th' = [th EXCEPT ![self] = Idle("StorageError")]
             /\ UNCHANGED granted
       /\ UNCHANGED <<users, now, issued, usedIds, loggedOut, refused>>

(* Login under the lock: insert, Save, and on failure delete the token    *)
(* again and return the error.                                            *)
LoginCommit(self) ==
    LET t == th[self].tok
        tbl == [sessions EXCEPT ![t] = th[self].sess]
    IN /\ th[self].pc = "login_commit"
       /\ \/ /\ SaveOK(tbl)
             /\ sessions' = tbl
             /\ th' = [th EXCEPT ![self] = Idle("ok")]
             /\ granted' = granted \cup {t}
          \/ /\ SaveFails
             /\ sessions' = [tbl EXCEPT ![t] = NoSession]
             /\ th' = [th EXCEPT ![self] = Idle("StorageError")]
             /\ UNCHANGED granted
       /\ UNCHANGED <<users, now, issued, usedIds, loggedOut, refused>>

(* ValidateToken's read under RLock; an absent token is InvalidToken.      *)
(* ChangePassword runs the policy check first, then the same read.        *)
VTRead(self, t, op, cur, npw) ==
    \/ /\ sessions[t] = NoSession
       /\ th' = [th EXCEPT ![self] = Idle("InvalidToken")]
       /\ Refuse(t)
    \/ /\ sessions[t] # NoSession
       /\ th' = [th EXCEPT ![self] =
                   [Idle("none") EXCEPT !.pc = "vt_check", !.op = op,
                      !.tok = t, !.sess = sessions[t], !.cur = cur,
                      !.npw = npw]]
       /\ UNCHANGED refused

ValidateToken(self, t) ==
    /\ th[self].pc = "idle"
    /\ VTRead(self, t, "validate", NoUser, NoUser)
    /\ UNCHANGED <<sessions, persisted, users, now, issued, usedIds,
                   granted, loggedOut>>

ChangePassword(self, t, cur, npw) ==
    /\ th[self].pc = "idle"
    /\ \/ /\ ~PolicyOK(npw)
          /\ th' = [th EXCEPT ![self] = Idle("WeakPassword")]
          /\ UNCHANGED refused
       \/ /\ PolicyOK(npw)
          /\ VTRead(self, t, "changepw", cur, npw)
    /\ UNCHANGED <<sessions, persisted, users, now, issued, usedIds,
                   granted, loggedOut>>

(* ValidateToken after RUnlock: compare the snapshot with the clock.       *)
VTCheck(self) ==
    /\ th[self].pc = "vt_check"
    /\ \/ /\ now > th[self].sess.expires
          /\ th' = [th EXCEPT ![self].pc = "vt_evict", ![self].at = now]
       \/ /\ ~(now > th[self].sess.expires)
          /\ th' = [th EXCEPT ![self].pc =
                       IF th[self].op = "validate" THEN "idle" ELSE "cp_lookup",
                      ![self].res =
                       IF th[self].op = "validate" THEN "ok" ELSE "none",
                      ![self].at = now]
    /\ UNCHANGED <<sessions, persisted, users, now, issued, usedIds,
                   granted, loggedOut, refused>>

(* Lazy eviction: Lock, delete the token, best-effort Save, InvalidToken. *)
VTEvict(self) ==
    LET tbl == [sessions EXCEPT ![th[self].tok] = NoSession]
    IN /\ th[self].pc = "vt_evict"
       /\ sessions' = tbl
       /\ SaveOK(tbl) \/ SaveFails
       /\ th' = [th EXCEPT ![self] = Idle("InvalidToken")]
       /\ Refuse(th[self].tok)
       /\ UNCHANGED <<users, now, issued, usedIds, granted, loggedOut>>

(* ChangePassword: GetByUsername on the session's username, verify the    *)
(* current password against the stored hash.                              *)
CPLookup(self) ==
    LET u == th[self].sess.user
    IN /\ th[self].pc = "cp_lookup"
       /\ \/ /\ ~VerifyPassword(th[self].cur, users[u])
             /\ th' = [th EXCEPT ![self] = Idle("InvalidCredentials")]
          \/ /\ VerifyPassword(th[self].cur, users[u])
             /\ th' = [th EXCEPT ![self].pc = "cp_put", ![self].user = u]
       /\ UNCHANGED <<sessions, persisted, users, now, issued, usedIds,
                      granted, loggedOut, refused>>

(* ChangePassword: UserStore.Put of the user read above with the new hash. *)
CPPut(self) ==
    /\ th[self].pc = "cp_put"
    /\ \/ /\ users' = [users EXCEPT ![th[self].user] = HashPassword(th[self].npw)]
          /\ th' = [th EXCEPT ![self] = Idle("ok")]
       \/ /\ UNCHANGED users
          /\ th' = [th EXCEPT ![self] = Idle("StorageError")]
    /\ UNCHANGED <<sessions, persisted, now, issued, usedIds, granted,
                   loggedOut, refused>>

(* Mutant of RemoveLocked: the table is saved before the delete.          *)
RemoveLockedSaveFirst(self, t) ==
    /\ th[self].pc = "idle"
    /\ sessions[t] # NoSession
    /\ sessions' = [sessions EXCEPT ![t] = NoSession]
    /\ SaveOK(sessions)
    /\ th' = [th EXCEPT ![self] = Idle("ok")]
    /\ loggedOut' = loggedOut \cup {t}
    /\ UNCHANGED <<users, now, issued, usedIds, granted, refused>>

(* Logout and RevokeToken (same code): under the lock, InvalidToken if    *)
(* absent, else delete and Save; a failed Save returns the error and      *)
(* leaves the token deleted.                                              *)
RemoveLocked(self, t) ==
    LET tbl == [sessions EXCEPT ![t] = NoSession]
    IN /\ th[self].pc = "idle"
       /\ \/ /\ sessions[t] = NoSession
             /\ th' = [th EXCEPT ![self] = Idle("InvalidToken")]
             /\ Refuse(t)
             /\ UNCHANGED <<sessions, persisted, loggedOut>>
          \/ /\ sessions[t] # NoSession
             /\ sessions' = tbl
             /\ \/ /\ SaveOK(tbl)
                   /\ th' = [th EXCEPT ![self] = Idle("ok")]
                   /\ loggedOut' = loggedOut \cup {t}
                \/ /\ SaveFails
                   /\ th' = [th EXCEPT ![self] = Idle("StorageError")]
                   /\ UNCHANGED loggedOut
             /\ UNCHANGED refused
       /\ UNCHANGED <<users, now, issued, usedIds, granted>>

Logout(self, t) == RemoveLocked(self, t)

RevokeToken(self, t) == RemoveLocked(self, t)

(* RevokeSessionByID: scan for a session with that id (the first one the  *)
(* map iteration meets), then the same delete-and-Save as Logout.        *)
HasID(t, sid) == sessions[t] # NoSession /\ sessions[t].id = sid

RevokeSessionByID(self, sid) ==
    \/ /\ th[self].pc = "idle"
       /\ ~\E t \in Tokens : HasID(t, sid)
       /\ th' = [th EXCEPT ![self] = Idle("InvalidToken")]
       /\ UNCHANGED <<sessions, persisted, users, now, issued, usedIds,
                      granted, loggedOut, refused>>
    \/ \E t \in Tokens : HasID(t, sid) /\ RemoveLocked(self, t)

(* ListSessions / ListSessionViews: read the clock, then under the lock   *)
(* evict every session expired at that time, Save once if any was, and    *)
(* return the rest.                                                       *)
ListBegin(self) ==
    /\ th[self].pc = "idle"
    /\ th' = [th EXCEPT ![self] = [Idle("none") EXCEPT !.pc = "list_scan",
                                                       !.at = now]]
    /\ UNCHANGED <<sessions, persisted, users, now, issued, usedIds,
                   granted, loggedOut, refused>>

ListScan(self) ==
    LET t0 == th[self].at
        tbl == [t \in Tokens |->
                  IF sessions[t] # NoSession /\ t0 > sessions[t].expires
                  THEN NoSession ELSE sessions[t]]
    IN /\ th[self].pc = "list_scan"
       /\ sessions' = tbl
       /\ IF tbl = sessions THEN UNCHANGED persisted
          ELSE SaveOK(tbl) \/ SaveFails
       /\ th' = [th EXCEPT ![self] = Idle("ok")]
       /\ UNCHANGED <<users, now, issued, usedIds, granted, loggedOut, refused>>

(* The clock advances.                                                    *)
Tick ==
    /\ now < MaxTime
    /\ now' = now + 1
    /\ UNCHANGED <<sessions, persisted, users, th, issued, usedIds,
                   granted, loggedOut, refused>>

(* The process stops at any point and starts again: in-flight requests    *)
(* are lost, and LoadSessionState replaces the table with what Load       *)
(* returns.                                                               *)
Restart ==
    /\ sessions' = persisted
    /\ th' = [self \in Threads |-> Idle("none")]
    /\ UNCHANGED <<persisted, users, now, issued, usedIds, granted,
                   loggedOut, refused>>

Next ==
    \/ \E self \in Threads :
          \/ \E u \in Usernames, p \in Passwords : LoginBegin(self, u, p)
          \/ LoginCommit(self)
          \/ \E t \in Tokens : ValidateToken(self, t)
          \/ \E t \in Tokens, cur, npw \in Passwords :
                ChangePassword(self, t, cur, npw)
          \/ VTCheck(self)
          \/ VTEvict(self)
          \/ CPLookup(self)
          \/ CPPut(self)
          \/ \E t \in Tokens : Logout(self, t)
          \/ \E t \in Tokens : RevokeToken(self, t)
          \/ \E sid \in IDs : RevokeSessionByID(self, sid)
          \/ ListBegin(self)
          \/ ListScan(self)
    \/ Tick
    \/ Restart

Spec == Init /\ [][Next]_vars

-----------------------------------------------------------------------------
TypeOK ==
    /\ sessions \in [Tokens -> Session \cup {NoSession}]
    /\ persisted \in [Tokens -> Session \cup {NoSession}]
    /\ users \in [Usernames -> Hashes \cup {NoUser}]
    /\ now \in 0..MaxTime
    /\ th \in [Threads -> Local]
    /\ issued \subseteq Tokens
    /\ usedIds \subseteq IDs
    /\ granted \subseteq Tokens
    /\ loggedOut \subseteq Tokens
    /\ refused \subseteq Tokens

(* The hash a user's record held at bootstrap.                            *)
InitHash(u) ==
    IF InitPassword[u] = NoUser THEN NoUser ELSE HashPassword(InitPassword[u])

(***************************************************************************)
(* Every session the table serves is in storage, unchanged: whatever       *)
(* interleaving of Login, eviction, revocation, failed Saves and restarts  *)
(* happened, a restart (LoadSessionState) keeps every live session.  This  *)
(* is the persist-then-commit discipline of Login (insert, Save, delete on *)
(* failure) and of the delete-then-Save of the other writers.             *)
(***************************************************************************)
DurableTable ==
    \A t \in Tokens : sessions[t] # NoSession => persisted[t] = sessions[t]

(***************************************************************************)
(* A token whose Logout, RevokeToken or RevokeSessionByID returned success *)
(* is gone from the table and from storage for good: no later restart or  *)
(* Save of another goroutine brings it back.                              *)
(***************************************************************************)
RevocationDurable ==
    \A t \in loggedOut : sessions[t] = NoSession /\ persisted[t] = NoSession

(***************************************************************************)
(* Storage sees each token as a one-time credential (SessionStore): no     *)
(* Save changes a stored session, and a token is stored only while it has  *)
(* never been in use.  A token is spent once generateToken has returned it *)
(* and its Login has left the locked section; from then on, whether that   *)
(* Login succeeded or its Save failed and was rolled back, no Save of any  *)
(* goroutine writes it as a new entry.                                     *)
(***************************************************************************)
StoredTokens ==
    {t \in issued : \A s \in Threads : th[s].pc = "login_commit" => th[s].tok # t}

Storage == INSTANCE SessionStore WITH table <- persisted, spent <- StoredTokens

ImplementsSessionStore == Storage!Spec

(***************************************************************************)
(* Spec 4.4/5/7: a mutating call whose Save fails restores the previous    *)
(* table, so "invalid token" is final: once the service has answered       *)
(* InvalidToken for a token it granted, that token never validates again, *)
(* across restarts included.                                              *)
(***************************************************************************)
NoRevival == \A t \in refused : ~Live(sessions[t], now)

(***************************************************************************)
(* Spec 8: ValidateToken succeeds strictly before expiresAt and fails at   *)
(* and after it.  A step in which the expiry check of ValidateToken lets a *)
(* session through happens at a time before its expiry.                   *)
(***************************************************************************)
ValidOnlyBeforeExpiry ==
    [][\A self \in Threads :
         (/\ th[self].pc = "vt_check"
          /\ (th'[self].res = "ok" \/ th'[self].pc = "cp_lookup"))
         => now < th[self].sess.expires]_vars

=============================================================================
