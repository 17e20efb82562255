# Formal models of modern-mcs

This directory holds TLA+ models of the Go server under `src/`. Each
model has a TLC configuration that checks it on a small instance and
TLAPS proofs that hold for every value of the constants.

## The system

`cmd/server` starts `app.New`, which wires up:

| Part | Source | State | Operations |
|---|---|---|---|
| auth.Service | `internal/auth/service.go` | `sessions map[token]Session` behind `sessMu` (RWMutex) | Login, ValidateToken, Logout, ChangePassword, ListSessions(Views), RevokeToken, RevokeSessionByID, LoadSessionState |
| Session persistence | `service.go` `persistSessionsLocked`, `session_store_postgres.go` | a JSON state file, or table `auth_sessions` | Save (whole table), Load |
| User stores | `store.go`, `store_file.go`, `store_postgres.go` | `users map[username]User` (+ file / table) | GetByUsername, Put |
| SQL profiles | `internal/sqlprofile` | `profiles` map behind a mutex and a JSON file (Service), or table `sql_profiles` (PGService) | Create, List, Get, Update, Delete |
| Migrations | `internal/migrations` | the applied-state file or table `migration_applied` | List, Status, MarkApplied |
| HTTP server | `internal/httpserver/server.go` | none of its own | routes; `requireSession` calls ValidateToken on each protected request |
| config, audit | `internal/config`, `internal/audit` | none | environment parsing, log lines |

net/http serves each request on its own goroutine, so every auth.Service
method can run concurrently with every other. The service takes `sessMu`
for each read or write of the table, and persists synchronously while it
holds the lock. Every mutation writes the whole table: a Postgres
transaction that deletes all rows and reinserts them, or an
`os.WriteFile` of the JSON file. At startup `LoadSessionState` replaces
the table with whatever storage holds, and then `app.New` creates the
bootstrap user if it is missing.

Four behaviours make this code hard to test:

- **Partly locked operations.** ValidateToken reads under RLock,
  compares the clock after RUnlock, then takes Lock to evict. Login
  computes the session outside the lock and inserts it under the lock.
  ListSessions reads the clock before it locks. ChangePassword is
  ValidateToken, then GetByUsername, then Verify, then Put, with nothing
  held across the calls.
- **A failed Save.** Login deletes the token it inserted, which rolls
  back. Logout, RevokeToken and RevokeSessionByID keep the deletion in
  memory. ValidateToken and ListSessions ignore the error.
- **Restarts.** A restart loses every request in flight. The state that
  survives is whatever the last successful Save stored.
- **Time.** A session expires at `CreatedAt + TTL`, and
  `now.After(ExpiresAt)` decides whether it is still valid.

## Modules

- `AuthSessions.tla` models auth.Service together with its stores.
  - **State.** `sessions` is the in-memory table (token ↦ session or
    `NoSession`), `persisted` is what storage holds, `users` maps each
    user to a stored hash, and `now` is the clock. `th` holds each
    request goroutine's program counter and locals.
  - **History variables.** None of these changes what the code can do:
    - `issued` and `usedIds` record the tokens and ids already drawn, so
      `rand.Read` gives fresh values;
    - `granted` holds the tokens Login returned;
    - `loggedOut` holds the tokens whose Logout or Revoke* returned
      success;
    - `refused` holds the granted tokens the service later answered
      with InvalidToken.
  - **Actions.** Each critical section of the code is one action:
    - `LoginBegin` and `LoginCommit` (Login's work before the lock, and
      its locked insert with Save and rollback);
    - `ValidateToken` (the RLock read), `VTCheck` (the clock check) and
      `VTEvict` (the locked delete with best-effort Save);
    - `ChangePassword` (the policy check and the read), `CPLookup`
      (GetByUsername and Verify) and `CPPut` (Put);
    - `Logout` and `RevokeToken`, through `RemoveLocked`;
    - `RevokeSessionByID`;
    - `ListBegin` (the clock read) and `ListScan` (the locked eviction,
      with one Save if anything was evicted);
    - `Tick` (the clock advances) and `Restart` (process restart
      followed by LoadSessionState).

    Any Save may succeed or fail. A successful Save stores the whole
    table; a failed one stores nothing, because Postgres runs it as one
    transaction.
  - **Data abstractions.**
    - `HashPassword(p)` is an injective tag, which is what SHA-256 with
      a fixed pepper is for the properties.
    - validatePasswordPolicy is a set `WeakPasswords`.
    - Roles, user ids and JSON layout are left out.
- `MC_AuthSessions.tla` with `MC_AuthSessions*.cfg` instantiates it with:
  - 2 goroutines, 2 tokens and 2 session ids;
  - a bootstrap user `admin` and an unknown user `ghost`;
  - passwords `p1` and `p2`, plus one weak password;
  - `TTL = 1` and a clock of `0..2`.

  Both threads, tokens and ids are symmetric; the properties compare
  them only by equality.
- `SessionStore.tla` is the abstract specification of what the service
  asks of its session storage (the `SessionStore` interface, written
  only by `persistSessionsLocked`): a token is a one-time credential.
  - **State.** `table` is what Load would return, and `spent` is the set
    of tokens that can no longer be stored as new ones.
  - **Its one step, `Save`,** may change many entries at once. Each
    entry keeps its session, is deleted, or receives a session under a
    token that is neither stored nor spent. Every token stored is spent
    from then on.
  - **Refinement.** `AuthSessions` instantiates it as
    `Storage == INSTANCE SessionStore WITH table <- persisted,
    spent <- StoredTokens`. `StoredTokens` is the set of issued tokens
    that no Login between its two steps holds. The property
    `ImplementsSessionStore` is `Storage!Spec`.
- `AuthSessions_proofs.tla` holds the TLAPS proofs for AuthSessions.
  `AuthStorage_proofs.tla` holds the proof of the SessionStore
  refinement.
- `SQLProfiles.tla` models the file-backed SQL profile service
  (`internal/sqlprofile/service.go`).
  - **State.** `profiles` is `s.profiles`. `fileSt` and `fileData` are
    the state file: absent, JSON holding a map, empty, or cut short
    ("garbage"). `up` says whether `NewServiceWithFile` succeeded.
  - **History variables.** `issued` holds the ids generateID returned,
    `acked` the value the last successful call left per id, and
    `deleted` the ids whose Delete returned nil.
  - **Actions.** Create, Update and Delete each run whole under the
    service mutex. Each one is validate, then the change, then
    `persistLocked`, then the rollback to the snapshot when the write
    fails (`PersistOrRollback`). `os.WriteFile` truncates first, so a
    failed write may leave the file as it was, empty, or cut short.
    `Restart` is a new process running `loadState`. An absent or empty
    file gives an empty map, and a file that does not decode stops the
    service.
  - **Data abstractions.** A text field is `[blank, pad]`: whether
    TrimSpace leaves it empty, and whether it has surrounding white
    space. db_type also records its word and whether it has upper-case
    letters. Ports are `{0, 1, 65535, 65536}`, which puts values on both
    sides of each bound of validate.
- `MC_SQLProfiles.tla` uses 3 symmetric ids and five request bodies:
  - a plain valid one;
  - a padded, upper-case `pgsql` one;
  - one with port 65536;
  - one with db_type `oracle`;
  - one with a blank name.
- `Migrations.tla` models MarkApplied over the file applied-state store
  (`internal/migrations/service.go`).
  - Each request is two steps. `MarkLoad` is MarkApplied's name checks,
    then the `Load` of `fileAppliedStore.SetApplied` and the in-memory
    insert. `MarkSave` is `saveState` and the reply.
  - No lock is held between the two steps, as in the code.
  - `SaveCanFail` lets `MkdirAll`/`WriteFile` fail, possibly after
    truncating the file.
  - `MC_Migrations.tla` uses 2 requests, 2 migration names and one name
    the checks reject.
- `SQLProfiles_proofs.tla` and `Migrations_proofs.tla` hold the TLAPS
  proofs for those modules.
- `ProfileData.tla` holds what both SQL profile backends share: the
  abstract `Profile` record, `validate`, `Normalize` and `AllowedDB`
  (from `service.go`). `ProfileData_proofs.tla` proves `NormalizeGood`
  about them once, for both backends.
- `ProfileStore.tla` is the abstract specification of a SQL profile
  service (`httpserver.SQLProfileService`). Its only state is the
  table. It allows three kinds of step:
  - a Create of a free id with the normalised form of a valid body;
  - an Update of an existing row with such a form;
  - a Delete of an existing row.
- `PGProfiles.tla` models PGService (`service_postgres.go`) under
  concurrent requests.
  - **State.** `rows` is the table. `th` holds each request's program
    counter, the id and value of an Update between its two statements,
    and its last reply. The history variable `issued` holds the ids
    generateID returned.
  - **Actions.** There is one action per SQL statement: `Create`
    (validate, generateID, INSERT), `List`, `Get`, `Update` (validate
    and the UPDATE with its affected-row count), `UpdateGet` (the
    `return s.Get(id)` that ends Update), `Delete`, and `Restart`,
    which loses the requests in flight and keeps the rows.
  - **Fault model.** Every statement has one of three `Outcomes`. It
    commits, or it fails without committing, or it commits and still
    returns an error (the connection drops before the reply, or
    RowsAffected fails). generateID may fail.
  - **Refinement.** `Store == INSTANCE ProfileStore WITH table <- rows`,
    and the property `ImplementsStore` is `Store!Spec`.
  - `MC_PGProfiles.tla` uses 2 requests, 2 ids and three bodies: a
    plain one, a padded upper-case one, and one with port 65536.
- `UserFile.tla` models the file backend of the user store
  (`store_file.go`), together with the part of `app.New` that uses it
  and the session file's decodability.
  - **State.** `memHash` is the bootstrap user's hash in `s.users`: the
    hash of a password, the empty hash `EmptyHash`, or `NoUser`.
    `fileSt` is the user file: absent, JSON, empty, or cut short.
    `fileUser` says whether the JSON lists the bootstrap user. The file
    never holds a hash: `User.PasswordHash` is tagged `json:"-"`
    (`types.go:8`), so `load` gives the user back with `PasswordHash`
    `""`, which is `EmptyHash`. `sessSt` is the session state
    file, of which only the format is kept (its content is
    AuthSessions'). `up` says whether app.New returned a server.
  - **History variable.** `changed` says that some ChangePassword
    returned nil.
  - **Actions.**
    - `Start` is app.New, run on the first start and after a crash at
      any point: NewFileUserStore (`Loadable`, `Load`), then
      LoadSessionState (`SessionLoadable`), then the bootstrap `Put`
      when the user is missing. Any error stops the start.
    - `CPCheck` is ChangePassword up to its Put (policy,
      ValidateToken, GetByUsername, VerifyPassword).
    - `CPPut` is the Put of the new hash. `Put` sets memory and then
      calls `SaveFile` (persistLocked), whose os.WriteFile succeeds,
      or fails leaving the file as it was, empty, or cut short. A
      successful write lists the user without its hash.
    - `SessionSave` is any persistSessionsLocked of a running server,
      with the same three ways to fail.
  - **Constants.** Only the bootstrap user exists, because no
    operation creates another. A client never sets the bootstrap
    password again.
  - `MC_UserFile.tla` uses 2 requests and three passwords: the
    bootstrap one and two others, so that two changes in a row happen.
- `PGProfiles_proofs.tla` and `UserFile_proofs.tla` hold the TLAPS
  proofs for those modules.

## Runs

| run | cfg | expect | what it shows |
|---|---|---|---|
| auth_core | `MC_AuthSessions.cfg` | pass | TypeOK, DurableTable and RevocationDurable hold in every interleaving, and so does the refinement ImplementsSessionStore (531,746 distinct states, depth 28, about 75 s) |
| revival | `MC_AuthSessions_revival.cfg` | violation | NoRevival fails: Login, Logout whose Save fails (InvalidToken on the next validation), Restart, and the token validates again |
| expiry_boundary | `MC_AuthSessions_expiry.cfg` | violation | ValidOnlyBeforeExpiry fails: at `now = ExpiresAt` ValidateToken succeeds |
| sqlprofile_file | `MC_SQLProfiles.cfg` | pass | TypeOK, FileMatchesMemory, StoredValidNormalized and DeletedStaysDeleted hold through failed and torn writes and restarts (301 distinct states) |
| sqlprofile_restart | `MC_SQLProfiles_restart.cfg` | violation | AckedSurvivesRestart fails: Create succeeds, a second Create's write fails after truncating the file, and the restarted service starts empty |
| migrations_file | `MC_Migrations_file.cfg` | pass | TypeOK: the locals each request carries from its Load to its save stay well formed through concurrent, failing and torn writes, and every step is reachable |
| migrations_lost_mark | `MC_Migrations_lostmark.cfg` | violation | AppliedNeverLost fails: two MarkApplied requests both Load, both save, and the second file drops the first name |
| pg_refinement | `MC_PGProfiles.cfg` | pass | TypeOK, and ImplementsStore: every statement of PGService, whatever its outcome, is a step of ProfileStore or changes no row (1,298 distinct states) |
| pg_update_reply | `MC_PGProfiles_updatereply.cfg` | violation | UpdateReturnsOwnWrite fails: Create, Update's UPDATE commits, another request's Delete commits, and Update's Get answers not found |
| userfile | `MC_UserFile.cfg` | pass | TypeOK, and AdminAlwaysPresent: every started server finds the bootstrap user, loaded or re-created, through failed and torn writes and restarts (541 distinct states) |
| userfile_login_lost | `MC_UserFile_login.cfg` | violation | AdminCanLogIn fails: the first start Puts the bootstrap user, the file is written without its hash, and after a restart the user's hash is empty, so no password verifies |
| userfile_revert | `MC_UserFile_revert.cfg` | violation | PasswordNeverReverts fails: a password change, then a second one whose write empties the file, then a restart re-creates the bootstrap user |

The properties of auth_core:

- **DurableTable.** Every session in the table is in storage, unchanged.
  Breaking it takes a Login whose Save failed and was not rolled back,
  or a Save of a table that another goroutine's step has already
  changed.
- **RevocationDurable.** A successful revocation is final in memory and
  in storage, across every later Save of another goroutine and every
  restart.
- **ImplementsSessionStore.** Every Save keeps or deletes the stored
  sessions, and stores a new one only under an unspent token. A token
  is spent once its Login has left the locked section, whether that
  Login succeeded or rolled back.

Each property of auth_core has a mutant listed in PROJECT.json, and
TLC finds the property violated under each:

- Login's expiry set one tick late breaks TypeOK.
- A Login without rollback breaks DurableTable. It also breaks
  ImplementsSessionStore: the token of the failed Login stays in the
  table, and the next Save of another goroutine stores it after its
  Login has already ended.
- Saving before the delete breaks RevocationDurable.

**Bounds.**

- Two goroutines are enough for every pairwise interleaving of two
  operations.
- Two tokens let one session be revoked while another is saved.
- A TTL of one tick on a three-value clock gives a session that is
  valid, then at its boundary, then expired, which covers eviction by
  ValidateToken and by ListSessions.

The mutants of sqlprofile_file and migrations_file, which TLC also finds:

- A Normalize that puts the db_type text in the name breaks TypeOK.
- An Update that keeps the new value after a failed write breaks
  FileMatchesMemory.
- A Create that stores the name untrimmed breaks StoredValidNormalized.
- A Delete that returns nil without writing the file breaks
  DeletedStaysDeleted after a restart.
- MarkApplied without its name checks breaks TypeOK.

The mutants of pg_refinement and userfile, which TLC also finds:

- The Normalize mutant above also breaks TypeOK of pg_refinement.
- An Update that skips validate stores a body the abstract store
  refuses, which breaks ImplementsStore.
- A ChangePassword that stores the password without HashPassword
  breaks TypeOK.
- An app.New that creates the bootstrap user only when no user file
  exists, and not when the file is empty, breaks AdminAlwaysPresent.

For SQLProfiles, three ids are enough for a profile that is created, a
second one whose failed write truncates the file, and a third that is
still fresh. Each input exercises one check of validate or one
normalisation. For Migrations, two requests are the smallest case of
the lost update, and two names let both of them succeed.

For PGProfiles, two requests and two ids are enough for a Delete of the
row an Update is between statements on, and for a Create whose id a
retry could not reuse. For UserFile, two password changes in a row are
the shortest way to a torn write after a change that succeeded, and a
restart always follows.

No fairness is assumed and no liveness is checked. Every operation of
this code is a fixed, short sequence of steps. Locks are held only for
a bounded section, and nothing waits for another request. So the only
liveness question, whether a request returns, is settled by the shape
of the code and not by any schedule. A restart comes from outside the
program (an operator or a supervisor), so no fairness on `Start` or
`Restart` is justified by the code.

## Findings

1. **A revoked token comes back after a restart**
   (`service.go:146`, and `:248`, `:269`). When Save fails, Logout,
   RevokeToken and RevokeSessionByID return the error but keep the
   deletion. The spec (sections 5 and 7) says a failed mutation restores
   the previous table. Storage keeps the session, so the caller is told
   the token is invalid, and after the next restart the token works
   again.
2. **Expiry boundary** (`service.go:128`). The code uses
   `now.After(ExpiresAt)`, so a token is still valid at `ExpiresAt`. The
   spec (section 8) says it is invalid at or after `expiresAt`.
3. **An acknowledged profile is lost on restart**
   (`internal/sqlprofile/service.go:196`). persistLocked writes the
   file with `os.WriteFile`, which truncates it before writing. When a
   later write fails after the truncation, the caller rolls back memory
   and returns the error, but the file is left empty or cut short. At
   the next start, an empty file loads as no profiles, so every profile
   acknowledged before is gone. A cut-short file stops the service from
   starting. TestServicePersistsToFile expects every profile returned to
   come back.
4. **Concurrent MarkApplied loses a mark**
   (`internal/migrations/service.go:154`). fileAppliedStore.SetApplied
   is Load, insert, save, and it holds no lock. Two concurrent requests
   both load the same state, and the second save drops the first
   request's name, although that request returned nil.
5. **PGService.Update can answer for another request**
   (`internal/sqlprofile/service_postgres.go:157`). Update runs the
   UPDATE and then returns `s.Get(id)` as a separate statement. A
   Delete committed in between makes it answer ErrNotFound (HTTP 404)
   although its own UPDATE committed. An Update in between makes it
   return the other request's values. The file-backed Service.Update
   returns the profile it wrote, under its lock.
6. **The user file loses every password hash** (`internal/auth/types.go:8`).
   `User.PasswordHash` is tagged `json:"-"`, so persistLocked
   (`store_file.go:84`) writes each user without its hash. `load`
   (`store_file.go:65-73`) gives the user back with `PasswordHash`
   `""`. On any restart with a user file, app.New finds the bootstrap
   user and does not re-create it. The user keeps the empty hash, which
   no password verifies, so nobody can log in or change the password
   again. The spec (section 3) says a user holds a password hash that
   only a password change mutates. `store_file_test.go` reloads a user
   but checks only its ID. The run userfile_login_lost shows the
   shortest case: one successful start, then a restart.
7. **The bootstrap password comes back** (`internal/app/app.go:79`).
   A ChangePassword whose write truncates the user file and then fails
   leaves it empty. `load` reads an empty file as no users, so the next
   app.New creates the bootstrap user again with
   `MCS_BOOTSTRAP_PASSWORD`. An administrator who changed that password
   finds the default one working again. The spec (section 3) says a
   user is mutated only by password changes.

ChangePassword's read, verify and write are not atomic either.
`AuthSessions` reaches two concurrent changes made with the same old
password, where both succeed and the last Put wins. The spec says
nothing about concurrent password changes, so no run checks this.

## Proofs of AuthSessions (TLAPS, `AuthSessions_proofs.tla`)

The proofs assume only the named ASSUMEs of `AuthSessions`:

- `TTL` is a positive natural and `MaxTime` a natural;
- the weak passwords are passwords;
- each bootstrap password is a password or `NoUser`;
- `NoUser` is not a password.

**`TypeCorrect` — `Spec => []TypeOK`.** TypeOK alone is not inductive,
because the guards read the locals of a goroutine. It is strengthened
with `ThreadsOK`, which says what each goroutine's locals hold at each
program counter: a session snapshot and a token after the read, the new
password of a ChangePassword, and the user a CPPut writes. There is one
lemma per action.

**`Durability` (`Spec => []DurableTable`) and `RevocationFinal`
(`Spec => []RevocationDurable`).** Both follow from the inductive
invariant `IInv`, which is TInv, DurableTable, RevocationDurable and
`Fresh`. `Fresh` says:

- a token never issued is in no table and was never revoked;
- a Login between its two steps holds an issued token that is not in
  the table and was never revoked;
- no two pending Logins hold the same token.

Without `Fresh`, LoginCommit could overwrite a live session or revive a
revoked token, and the invariant would not be preserved.

The proof rests on `ShrinkStep(self)`, a step that only deletes
entries, saves the new table or nothing, and revokes only entries it
deleted. One lemma per operation shows that the steps of ValidateToken,
ChangePassword, Logout, the Revoke* operations and ListSessions are such
steps (`OtherShrink` collects them). `ShrinkDInv` shows that every such
step keeps the invariant. LoginBegin, LoginCommit and Restart each have
a lemma of their own. The refinement proof below reuses the same
lemmas.

TLC checked `IInv` on the auth_core instance before the proof was
written.

**`StorageRefinement` — `Spec => ImplementsSessionStore`**
(`AuthStorage_proofs.tla`). AuthSessions implements SessionStore. The
proof is the standard one: `Init` maps to `Storage!Init`, and
`NextRStep` shows that every step keeps the invariant `RInv` and is a
`Storage!Next` step or leaves `persisted` and `StoredTokens` unchanged.
`RInv` is `IInv` plus `PendingNotStored`: the token a Login holds
between its two steps is not in storage. With it, `StoredSpent` shows
that every stored token is spent. The steps then fall into three cases:

- **LoginCommit.** Its Save stores the new session under its own
  token. The Login is still pending, so the token is unspent, and it is
  not in storage. The rest of the table is stored already
  (DurableTable) or empty. The token is spent after the step whether
  or not the Save succeeded.
- **Shrinking steps** (every `OtherStep`, through `ShrinkStore`). They
  save the table with entries deleted, or save nothing.
- **LoginBegin, Tick and Restart** (through `KeepStore`). They leave
  storage alone. LoginBegin gives its Login a token that was never
  issued, so no spent token becomes pending again.

`StoredGrow` shows that the spent set only grows. TLC checked `RInv`
on auth_core before the proof.

## Proofs of SQLProfiles (TLAPS, `SQLProfiles_proofs.tla`)

The proofs assume that every input is a Profile and that `None` is
not one. They prove four theorems:

- `TypeCorrect`: `Spec => []TypeOK`;
- `FileCoherent`: `Spec => []FileMatchesMemory`;
- `StoredProfilesValid`: `Spec => []StoredValidNormalized`;
- `DeletionFinal`: `Spec => []DeletedStaysDeleted`.

All three follow from one inductive invariant `SInv`, which adds two
things to TypeOK and the properties:

- `GoodMap(fileData)`: every profile in the file is valid and
  normalised, so a restart loads only good profiles.
- `DeletedGone`: a deleted id, or one never issued, is absent from
  memory and from the file.

FileMatchesMemory alone is not inductive, because a restart reads the
file, and a Create picks an id that must be free in both maps.

The proof rests on a few lemmas:

- `NormalizeGood` (in `ProfileData_proofs`): Normalize of a valid input is a valid, normalised
  Profile (TrimSpace and ToLower are idempotent).
- `PersistShape`: persistLocked with its rollback either writes the new
  table to both memory and the file, or leaves memory as it was and
  leaves the file as it was, empty or garbage.
- `WriteStep`: a step that writes a good table, with no deleted or
  never-issued id in it, preserves SInv.

Create, Update and Delete each reduce to WriteStep. Restart has a lemma
of its own.

## Proofs of Migrations (TLAPS, `Migrations_proofs.tla`)

`TypeCorrect` proves `Spec => []TypeOK` for every set of requests and
names, from the assumption that `Names` is not empty. TypeOK alone is
not inductive, because MarkSave writes the state its request carries.
The inductive invariant `MInv` adds `SavesOwnName`: a request between
its Load and its save holds a state, made of names, that contains its
own name. Whether that name survives later saves is the question
migrations_lost_mark answers, and it does not.

## Proofs of PGProfiles (TLAPS, `PGProfiles_proofs.tla`)

The proofs assume that every input is a Profile and that `None` is not
one (the ASSUMEs of `ProfileData`). They prove two theorems:

- `TypeCorrect`: `Spec => []TypeOK`;
- `Refinement`: `Spec => ImplementsStore`, that is, PGService
  implements ProfileStore under `table <- rows`.

Both rest on the inductive invariant `PInv`, which adds two things to
TypeOK:

- `Fresh`: an id generateID has not returned is not in the table, so
  a Create's INSERT is a Create of a free id in ProfileStore.
- `GetHasId`: a request between Update's two statements holds an id,
  so the Get that ends it is well typed.

The refinement is proved the standard way: `Init` maps to
`Store!Init`, and `NextPInv` shows that every step keeps `PInv` and is
a `Store!Next` step or leaves `rows` unchanged. Within each action:

- a failed statement and every read leave `rows` unchanged;
- a committed INSERT is `Store!Create` (by `Fresh` and
  `NormalizeGood`);
- a committed UPDATE of an existing row is `Store!Update`;
- a DELETE is `Store!Delete` or removes nothing.

The "lost" outcome changes the rows exactly as "ok" does, and only
the reply differs.

## Proofs of UserFile (TLAPS, `UserFile_proofs.tla`)

The proofs assume that the bootstrap password is a password, that
`NoUser` is no hash, and that `EmptyHash` is neither `NoUser` nor the
hash of a password (`HashPassword` returns 64 hex digits, never `""`). They prove:

- `AdminPresent`: `Spec => []AdminAlwaysPresent`;
- `TypeCorrect`: `Spec => []TypeOK`.

TypeOK and AdminAlwaysPresent together are inductive (`UInv`). A Start
either fails (`up' = FALSE`), or loads the user with `EmptyHash`, or
Puts the bootstrap hash and is up only when that Put succeeded. A CPPut replaces the hash
by another hash. `SaveFileType` says a write leaves the file well
typed whichever way it fails. AdminPresent is about the user's
presence, which is what app.New's bootstrap logic guarantees; that the
loaded user can still log in is false (run userfile_login_lost).

## What is only model-checked

Every invariant and every action property of a passing run has a TLAPS
theorem. Two kinds of result stay with TLC:

- **The properties of the violation runs** (NoRevival,
  ValidOnlyBeforeExpiry, AckedSurvivesRestart, AppliedNeverLost,
  UpdateReturnsOwnWrite, AdminCanLogIn, PasswordNeverReverts).
  They do not hold, and TLC's counterexamples are the result.
- **Liveness.** Nothing about liveness is proved. The provers cannot
  reason about ENABLED or fairness, and the project checks no liveness
  property (see the end of "Runs" for why).

## Not modelled, and the plan

- **Not modelled:**
  - the `sid-<nanos>` fallback of mustID, which can give duplicate
    session ids. crypto/rand does not fail in practice. If it did,
    Login's generateToken would fail first, just before mustID.
  - several server instances sharing one Postgres database: Save
    deletes every row and reinserts its own table, so instances erase
    each other's sessions;
  - validatePasswordPolicy as an algorithm over characters;
  - the Postgres backend of migrations (one upsert per call), and
    PostgresUserStore (one upsert per Put, which is AuthSessions'
    all-or-nothing Put);
  - List and Status of migrations: they only read state (Status is
    `Recorded`);
  - the HTTP layer: it only forwards to the services, and its status
    codes and JSON are I/O.
- **Next steps:**
  - colliding ids with RevokeSessionByID;
  - two server instances over one session table;
  - an abstract specification of the in-memory session table (what
    ValidateToken may answer), refined by AuthSessions;
  - a refinement of ProfileStore by the file-backed SQLProfiles.
