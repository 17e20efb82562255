------------------------------- MODULE UserFile -------------------------------
(***************************************************************************)
(* The file-backed user store (internal/auth/store_file.go) as app.New    *)
(* uses it without a database: NewFileUserStore loads the JSON file,      *)
(* LoadSessionState loads the session file, the bootstrap user is Put     *)
(* when it is missing, and ChangePassword (internal/auth/service.go)      *)
(* reads the user, verifies the current password, and Puts the new hash.  *)
(* Of the session file only whether it decodes is kept here; its content  *)
(* and the calls that write it are AuthSessions'.                         *)
(*                                                                         *)
(* Put sets the user in memory and then rewrites the whole file under the *)
(* store's lock.  os.WriteFile truncates first, so a failed write leaves  *)
(* the file as it was, empty, or cut short.  User.PasswordHash is tagged  *)
(* json:"-" (internal/auth/types.go), so the file lists the user without  *)
(* its hash, and load gives it back with PasswordHash "".  Start is a     *)
(* process start (the first, or after a crash at any point): requests in  *)
(* flight are lost and app.New runs again.                                *)
(*                                                                         *)
(* Only the bootstrap user exists (no operation creates another), so the  *)
(* store is that user's hash, the empty hash "" (EmptyHash), or NoUser.   *)
(* HashPassword is an injective tag that is never "" (hex of SHA-256);    *)
(* ValidateToken and the policy check are one outcome of the check        *)
(* step (they fail or pass); sessions are AuthSessions' concern.          *)
(***************************************************************************)
CONSTANTS
    Threads,        \* goroutines serving /v1/auth/change-password
    Passwords,      \* passwords a client may send
    BootPassword,   \* MCS_BOOTSTRAP_PASSWORD
    NoUser,         \* no user under the bootstrap name
    EmptyHash       \* the PasswordHash "" of a user decoded from the file

ASSUME BootAssumption == BootPassword \in Passwords

ASSUME NoUserAssumption == \A p \in Passwords : NoUser # <<"sha256", p>>

ASSUME EmptyHashAssumption ==
    EmptyHash # NoUser /\ \A p \in Passwords : EmptyHash # <<"sha256", p>>

VARIABLES
    memHash,        \* s.users[bootstrap].PasswordHash, or NoUser
    fileSt,         \* "absent", "json", "empty" or "garbage"
    fileUser,       \* the JSON array lists the bootstrap user (without hash)
    up,             \* app.New returned a server
    th,             \* per request: pc and the new password
    changed,        \* history: some ChangePassword returned nil
    sessSt          \* the session state file: "absent", "json", "empty", "garbage"

vars == <<memHash, fileSt, fileUser, up, th, changed, sessSt>>

Hash(p) == <<"sha256", p>>
Hashes == {Hash(p) : p \in Passwords}

Idle == [pc |-> "idle", new |-> BootPassword]
Local == [pc : {"idle", "put"}, new : Passwords]

(* A fresh deployment: no user file, the process not started yet.         *)
Init ==
    /\ memHash = NoUser
    /\ fileSt = "absent" /\ fileUser = FALSE
    /\ up = FALSE
    /\ th = [t \in Threads |-> Idle]
    /\ changed = FALSE
    /\ sessSt = "absent"

(* persistLocked, called by Put after the user is in s.users: the file    *)
(* now lists that user (json.MarshalIndent leaves out its hash), or       *)
(* MkdirAll/WriteFile failed before or after truncating it.               *)
SaveFile(ok) ==
    \/ ok /\ fileSt' = "json" /\ fileUser' = TRUE
    \/ ~ok /\ UNCHANGED <<fileSt, fileUser>>
    \/ ~ok /\ fileSt' \in {"empty", "garbage"} /\ UNCHANGED fileUser

(* Put: the user is set in memory, then the file is rewritten; ok is      *)
(* whether persistLocked returned nil.                                    *)
Put(h, ok) == memHash' = h /\ SaveFile(ok)

(* NewFileUserStore fails when load fails: a file that does not decode.   *)
Loadable == fileSt # "garbage"

(* load: no file or an empty one gives no users; a JSON file gives the    *)
(* users it lists, each with PasswordHash "".                             *)
Load == IF fileSt = "json" /\ fileUser THEN EmptyHash ELSE NoUser

(* LoadSessionState fails on a session file that does not decode; a       *)
(* missing or empty one gives no sessions.                                *)
SessionLoadable == sessSt # "garbage"

(* persistSessionsLocked, run by every Login, Logout, revocation and      *)
(* eviction of a running server: os.WriteFile of the whole table, which   *)
(* succeeds, or fails leaving the file as it was, empty or cut short.     *)
SessionSave ==
    /\ up
    /\ \E ok \in BOOLEAN :
          sessSt' \in IF ok THEN {"json"} ELSE {sessSt, "empty", "garbage"}
    /\ UNCHANGED <<memHash, fileSt, fileUser, up, th, changed>>

(* GetByUsername of the bootstrap user.                                   *)
GetByUsername == memHash

(* Mutant of Start: the bootstrap user is created only when no user file  *)
(* exists, not when the loaded file holds no user.                        *)
StartBootstrapIfAbsent ==
    /\ th' = [t \in Threads |-> Idle]
    /\ \/ /\ ~(Loadable /\ SessionLoadable)
          /\ up' = FALSE /\ memHash' = NoUser
          /\ UNCHANGED <<fileSt, fileUser>>
       \/ /\ Loadable /\ SessionLoadable /\ (Load # NoUser \/ fileSt # "absent")
          /\ memHash' = Load /\ up' = TRUE
          /\ UNCHANGED <<fileSt, fileUser>>
       \/ /\ Loadable /\ SessionLoadable /\ Load = NoUser /\ fileSt = "absent"
          /\ \E ok \in BOOLEAN : Put(Hash(BootPassword), ok) /\ up' = ok
    /\ UNCHANGED <<changed, sessSt>>

(* app.New: NewFileUserStore, LoadSessionState, then GetByUsername of    *)
(* the bootstrap name and, on ErrUserNotFound, Put of the bootstrap user; *)
(* any error stops the start.                                             *)
Start ==
    /\ th' = [t \in Threads |-> Idle]
    /\ \/ /\ ~(Loadable /\ SessionLoadable)
          /\ up' = FALSE /\ memHash' = NoUser
          /\ UNCHANGED <<fileSt, fileUser>>
       \/ /\ Loadable /\ SessionLoadable /\ Load # NoUser
          /\ memHash' = Load /\ up' = TRUE
          /\ UNCHANGED <<fileSt, fileUser>>
       \/ /\ Loadable /\ SessionLoadable /\ Load = NoUser
          /\ \E ok \in BOOLEAN : Put(Hash(BootPassword), ok) /\ up' = ok
    /\ UNCHANGED <<changed, sessSt>>

(* ChangePassword up to the Put: policy and ValidateToken, then           *)
(* GetByUsername and VerifyPassword of the current password.  A client    *)
(* never sets the bootstrap password again.                               *)
CPCheck(self, cur, new) ==
    /\ up /\ th[self].pc = "idle"
    /\ new # BootPassword
    /\ IF GetByUsername = Hash(cur)
       THEN th' = [th EXCEPT ![self] = [pc |-> "put", new |-> new]]
       ELSE UNCHANGED th            \* ErrInvalidCredentials or InvalidToken
    /\ UNCHANGED <<memHash, fileSt, fileUser, up, changed, sessSt>>

(* Mutant of CPPut: the password is stored without HashPassword.          *)
CPPutPlain(self) ==
    /\ up /\ th[self].pc = "put"
    /\ \E ok \in BOOLEAN :
          /\ Put(th[self].new, ok)
          /\ changed' = (changed \/ ok)
    /\ th' = [th EXCEPT ![self] = Idle]
    /\ UNCHANGED <<up, sessSt>>

(* ChangePassword: user.PasswordHash = HashPassword(new), then Put; nil   *)
(* when Put returned nil.                                                 *)
CPPut(self) ==
    /\ up /\ th[self].pc = "put"
    /\ \E ok \in BOOLEAN :
          /\ Put(Hash(th[self].new), ok)
          /\ changed' = (changed \/ ok)
    /\ th' = [th EXCEPT ![self] = Idle]
    /\ UNCHANGED <<up, sessSt>>

Next ==
    \/ \E self \in Threads :
          \/ \E cur, new \in Passwords : CPCheck(self, cur, new)
          \/ CPPut(self)
    \/ SessionSave
    \/ Start

Spec == Init /\ [][Next]_vars

-----------------------------------------------------------------------------
TypeOK ==
    /\ memHash \in Hashes \cup {EmptyHash, NoUser}
    /\ fileSt \in {"absent", "json", "empty", "garbage"}
    /\ fileUser \in BOOLEAN
    /\ up \in BOOLEAN
    /\ th \in [Threads -> Local]
    /\ changed \in BOOLEAN
    /\ sessSt \in {"absent", "json", "empty", "garbage"}

(***************************************************************************)
(* A started server always has the bootstrap user: GetByUsername of the   *)
(* bootstrap name finds a record, whatever failed or torn writes and      *)
(* restarts came before, so app.New either loads that record or creates   *)
(* it.  (Whether its hash verifies any password is AdminCanLogIn.)        *)
(***************************************************************************)
AdminAlwaysPresent == up => memHash # NoUser

(***************************************************************************)
(* Spec section 3: a user holds a password hash, set at bootstrap and     *)
(* mutated only by password changes; section 4.2: the file store keeps    *)
(* its users in a file it rewrites on every Put.  So in a started server  *)
(* the bootstrap user's hash is the hash of some password: someone can    *)
(* log in, and ChangePassword can verify a current password.              *)
(***************************************************************************)
AdminCanLogIn == up => memHash \in Hashes

(***************************************************************************)
(* Spec section 3: a user is created at bootstrap and then mutated only   *)
(* by password changes.  Once a ChangePassword has returned nil, the      *)
(* bootstrap password never authenticates again.                          *)
(***************************************************************************)
PasswordNeverReverts == up /\ changed => memHash # Hash(BootPassword)

=============================================================================
