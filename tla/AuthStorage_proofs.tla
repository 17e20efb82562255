------------------------- MODULE AuthStorage_proofs -------------------------
(***************************************************************************)
(* Proof that the auth service uses its session storage as a one-time     *)
(* credential store: AuthSessions implements SessionStore under the        *)
(* mapping table <- persisted, spent <- StoredTokens, for every value of   *)
(* the constants.                                                         *)
(*                                                                         *)
(* The argument: the only step that stores a session under a new token is *)
(* the Save of a Login holding that token in the locked section; the      *)
(* token is then unspent (that Login is pending) and not in storage       *)
(* (PendingNotStored).  Every other Save writes a table whose entries are *)
(* stored already (DurableTable) or deleted.  A token leaves the pending  *)
(* Logins only to become spent, and LoginBegin draws a token never issued.*)
(***************************************************************************)
EXTENDS AuthSessions_proofs

(* The token a Login holds between its two steps is not in storage: its   *)
(* Save has not run, and no other Save can have stored it, since no table *)
(* holds it.                                                              *)
PendingNotStored ==
    \A s \in Threads : Pending(s) => persisted[th[s].tok] = NoSession

RInv == IInv /\ PendingNotStored

(* Tokens in storage are spent: issued, and held by no pending Login.      *)
LEMMA StoredSpent ==
    ASSUME RInv, NEW t \in Tokens, persisted[t] # NoSession
    PROVE  t \in StoredTokens
BY DEF RInv, IInv, Fresh, PendingNotStored, StoredTokens, Pending

(* The spent tokens only grow when no token already issued becomes the    *)
(* token of a pending Login.                                              *)
LEMMA StoredGrow ==
    ASSUME issued \subseteq issued',
           \A s \in Threads : Pending(s)' =>
               \/ Pending(s) /\ th'[s].tok = th[s].tok
               \/ th'[s].tok \notin issued
    PROVE  StoredTokens \subseteq StoredTokens'
BY DEF StoredTokens, Pending

(* A step whose Save changes entries only by deleting them, or by storing *)
(* a session under an unspent token absent from storage, and that spends  *)
(* no fewer tokens, is a Save of SessionStore.                            *)
LEMMA SaveStep ==
    ASSUME RInv, RInv', StoredTokens \subseteq StoredTokens',
           \A t \in Tokens :
              \/ persisted'[t] = persisted[t]
              \/ persisted'[t] = NoSession
              \/ persisted[t] = NoSession /\ t \notin StoredTokens
                 /\ persisted'[t] \in Session
    PROVE  Storage!Next
<1>1. persisted' \in [Tokens -> Session \cup {NoSession}] /\ issued' \subseteq Tokens
  BY DEF RInv, IInv, TInv, TypeOK
<1>2. \A t \in Tokens : persisted'[t] # NoSession => t \in StoredTokens'
  BY DEF RInv, IInv, Fresh, PendingNotStored, StoredTokens, Pending
<1>3. StoredTokens' \subseteq Tokens
  BY <1>1 DEF StoredTokens
<1>4. QED
  BY <1>1, <1>2, <1>3 DEF Storage!Next, Storage!Save, Storage!EntryStep

(* A step that keeps storage and issues tokens only to Logins it starts   *)
(* keeps the pending tokens out of storage and spends no fewer tokens.    *)
LEMMA KeepStore ==
    ASSUME RInv, persisted' = persisted, issued \subseteq issued',
           \A s \in Threads : Pending(s)' =>
               \/ Pending(s) /\ th'[s].tok = th[s].tok
               \/ th'[s].tok \in Tokens \ issued
    PROVE  PendingNotStored' /\ StoredTokens \subseteq StoredTokens'
<1>1. PendingNotStored'
  BY DEF RInv, PendingNotStored, IInv, Fresh
<1>2. StoredTokens \subseteq StoredTokens'
  BY StoredGrow
<1>3. QED
  BY <1>1, <1>2

LEMMA LoginBeginStore ==
    ASSUME RInv, NEW self \in Threads, NEW u \in Usernames,
           NEW p \in Passwords, LoginBegin(self, u, p)
    PROVE  PendingNotStored' /\ StoredTokens \subseteq StoredTokens'
           /\ persisted' = persisted
<1>1. persisted' = persisted /\ issued \subseteq issued'
  BY DEF LoginBegin
<1>2. TInv
  BY DEF RInv, IInv
<1>3. CASE ~VerifyPassword(p, users[u])
  <2>1. th' = [th EXCEPT ![self] = Idle("InvalidCredentials")]
    BY <1>3 DEF LoginBegin
  <2>2. "InvalidCredentials" \in Results
    BY DEF Results
  <2>3. OthersKeep(self) /\ ~Pending(self)'
    BY <1>2, <2>1, <2>2, ThreadStepIdle DEF Pending
  <2>4. QED
    BY <1>1, <2>3, KeepStore DEF OthersKeep, Pending
<1>4. CASE VerifyPassword(p, users[u])
  <2>1. PICK t \in Tokens \ issued, i \in IDs \ usedIds :
          th' = [th EXCEPT ![self] =
                   [Idle("none") EXCEPT !.pc = "login_commit",
                      !.tok = t, !.user = u,
                      !.sess = [id |-> i, user |-> u, created |-> now,
                                expires |-> now + TTL]]]
    BY <1>4 DEF LoginBegin
  <2> DEFINE l == [Idle("none") EXCEPT !.pc = "login_commit",
                      !.tok = t, !.user = u,
                      !.sess = [id |-> i, user |-> u, created |-> now,
                                expires |-> now + TTL]]
  <2>2. l.tok = t
    BY DEF Idle
  <2>3. OthersKeep(self) /\ th'[self].tok = t
    BY <1>2, <2>1, <2>2, ExceptOthers
  <2>4. \A s \in Threads : Pending(s)' =>
            \/ Pending(s) /\ th'[s].tok = th[s].tok
            \/ th'[s].tok \in Tokens \ issued
    BY <2>3 DEF OthersKeep, Pending
  <2>5. QED
    BY <1>1, <2>4, KeepStore
<1>5. QED
  BY <1>3, <1>4

(* Every entry of storage keeps its session, is deleted, or receives a    *)
(* session under a token that is unspent and not stored.                  *)
EntriesStep ==
    \A t \in Tokens :
        \/ persisted'[t] = persisted[t]
        \/ persisted'[t] = NoSession
        \/ persisted[t] = NoSession /\ t \notin StoredTokens /\ persisted'[t] \in Session

(* Login's Save stores the session under the token of that pending Login: *)
(* unspent, and not in storage; the rest of the table is stored already   *)
(* or empty.  Whether the Save succeeds or not, the token is spent after. *)
LEMMA LoginCommitStore ==
    ASSUME RInv, NEW self \in Threads, LoginCommit(self)
    PROVE  PendingNotStored' /\ StoredTokens \subseteq StoredTokens' /\ EntriesStep
<1> DEFINE t == th[self].tok
           tbl == [sessions EXCEPT ![t] = th[self].sess]
<1>1. TInv /\ DInv
  BY DEF RInv, IInv, DInv
<1>2. Pending(self) /\ t \in Tokens /\ th[self].sess \in Session
  BY <1>1 DEF LoginCommit, Pending, TInv, ThreadsOK, LocalOK
<1>3. persisted[t] = NoSession /\ t \notin StoredTokens
  BY <1>2 DEF RInv, PendingNotStored, StoredTokens, Pending
<1>4. \A s \in Threads \ {self} : Pending(s) => th[s].tok # t
  BY <1>1, <1>2 DEF DInv, Fresh
<1>5. OthersKeep(self) /\ ~Pending(self)'
  <2>1. \E r \in {"ok", "StorageError"} : th' = [th EXCEPT ![self] = Idle(r)]
    BY DEF LoginCommit
  <2>2. {"ok", "StorageError"} \subseteq Results
    BY DEF Results
  <2>3. QED
    BY <1>1, <2>1, <2>2, ThreadStepIdle DEF Pending
<1>6. \A s \in Threads : Pending(s)' =>
        s # self /\ Pending(s) /\ th'[s].tok = th[s].tok
  BY <1>5 DEF OthersKeep, Pending
<1>7. StoredTokens \subseteq StoredTokens'
  <2>1. issued' = issued
    BY DEF LoginCommit
  <2>2. QED
    BY <1>6, <2>1, StoredGrow
<1>8. persisted' = persisted \/ persisted' = tbl
  BY DEF LoginCommit, SaveOK, SaveFails
<1>9. \A x \in Tokens \ {t} : tbl[x] = sessions[x]
  BY <1>1 DEF TInv, TypeOK
<1>10. PendingNotStored'
  <2> SUFFICES ASSUME NEW s \in Threads, Pending(s)'
               PROVE  persisted'[th'[s].tok] = NoSession
    BY DEF PendingNotStored
  <2>1. th[s].tok \in Tokens \ {t} /\ th'[s].tok = th[s].tok
    BY <1>1, <1>4, <1>6 DEF TInv, ThreadsOK, LocalOK, Pending
  <2>2. persisted[th[s].tok] = NoSession /\ sessions[th[s].tok] = NoSession
    BY <1>1, <1>6 DEF RInv, PendingNotStored, DInv, Fresh
  <2>3. QED
    BY <1>8, <1>9, <2>1, <2>2
<1>11. EntriesStep
  <2> SUFFICES ASSUME NEW x \in Tokens
               PROVE  \/ persisted'[x] = persisted[x]
                      \/ persisted'[x] = NoSession
                      \/ persisted[x] = NoSession /\ x \notin StoredTokens
                         /\ persisted'[x] \in Session
    BY DEF EntriesStep
  <2>1. CASE x = t
    <3>1. tbl[t] = th[self].sess
      BY <1>1, <1>2 DEF TInv, TypeOK
    <3>2. QED
      BY <1>2, <1>3, <1>8, <2>1, <3>1
  <2>2. CASE x # t
    <3>1. sessions[x] # NoSession => persisted[x] = sessions[x]
      BY <1>1 DEF DInv, DurableTable
    <3>2. QED
      BY <1>8, <1>9, <2>2, <3>1
  <2>3. QED
    BY <2>1, <2>2
<1>12. QED
  BY <1>7, <1>10, <1>11

LEMMA InitRInv == Init => RInv
<1> SUFFICES ASSUME Init PROVE RInv
  OBVIOUS
<1>1. Idle("none").pc = "idle"
  BY DEF Idle
<1>2. PendingNotStored
  BY <1>1 DEF Init, PendingNotStored, Pending
<1>3. QED
  BY <1>2, InitIInv DEF RInv

(* A shrinking step keeps the pending tokens out of storage, spends no    *)
(* fewer tokens, and deletes entries or leaves them.                      *)
LEMMA ShrinkStore ==
    ASSUME TInv, DInv, PendingNotStored, NEW self \in Threads, ShrinkStep(self)
    PROVE  /\ PendingNotStored'
           /\ StoredTokens \subseteq StoredTokens'
           /\ \A t \in Tokens : persisted'[t] = persisted[t] \/ persisted'[t] = NoSession
<1> USE DEF ShrinkStep
<1>1. \A s \in Threads : Pending(s)' => Pending(s) /\ th'[s].tok = th[s].tok
  BY DEF OthersKeep, Pending
<1>2. PendingNotStored'
  <2> SUFFICES ASSUME NEW s \in Threads, Pending(s)'
               PROVE  persisted'[th'[s].tok] = NoSession
    BY DEF PendingNotStored
  <2>1. th[s].tok \in Tokens /\ sessions[th[s].tok] = NoSession
        /\ persisted[th[s].tok] = NoSession
    BY <1>1 DEF TInv, ThreadsOK, LocalOK, Pending, DInv, Fresh, PendingNotStored
  <2>2. QED
    BY <1>1, <2>1
<1>3. StoredTokens \subseteq StoredTokens'
  BY <1>1, StoredGrow
<1>4. \A t \in Tokens : persisted'[t] = persisted[t] \/ persisted'[t] = NoSession
  BY DEF DInv, DurableTable
<1>5. QED
  BY <1>2, <1>3, <1>4



(* Every step keeps RInv and is a Save of SessionStore or leaves storage   *)
(* and the spent tokens as they were.                                     *)
LEMMA NextRStep ==
    RInv /\ [Next]_vars => RInv' /\ [Storage!Next]_<<persisted, StoredTokens>>
<1> SUFFICES ASSUME RInv, [Next]_vars
             PROVE  RInv' /\ [Storage!Next]_<<persisted, StoredTokens>>
  OBVIOUS
<1>1. IInv'
  BY NextIInv DEF RInv
<1>2. /\ PendingNotStored'
      /\ StoredTokens \subseteq StoredTokens'
      /\ EntriesStep
  <2>1. CASE \E self \in Threads, u \in Usernames, p \in Passwords :
               LoginBegin(self, u, p)
    BY <2>1, LoginBeginStore DEF EntriesStep
  <2>2. CASE \E self \in Threads : LoginCommit(self)
    BY <2>2, LoginCommitStore
  <2>3. CASE \E self \in Threads : OtherStep(self)
    BY <2>3, OtherShrink, ShrinkStore DEF RInv, IInv, DInv, EntriesStep
  <2>4. CASE Tick \/ UNCHANGED vars
    <3>a. persisted' = persisted /\ issued' = issued /\ th' = th
      BY <2>4 DEF Tick, vars
    <3>b. QED
      BY <3>a, KeepStore DEF Pending, EntriesStep
  <2>5. CASE Restart
    <3>a. persisted' = persisted /\ issued' = issued
      BY <2>5 DEF Restart
    <3>b. Idle("none").pc = "idle"
      BY DEF Idle
    <3>c. \A s \in Threads : ~Pending(s)'
      BY <2>5, <3>b DEF Restart, Pending
    <3>d. QED
      BY <3>a, <3>c, KeepStore DEF EntriesStep
  <2>6. QED
    BY <2>1, <2>2, <2>3, <2>4, <2>5, NextCases
<1>3. RInv'
  BY <1>1, <1>2 DEF RInv
<1>4. Storage!Next
  BY <1>2, <1>3, SaveStep DEF EntriesStep
<1>5. QED
  BY <1>3, <1>4

(***************************************************************************)
(* The auth service implements SessionStore, for every value of the       *)
(* constants: no Save of Login, ValidateToken's eviction, Logout,          *)
(* RevokeToken, RevokeSessionByID or ListSessions ever alters a stored    *)
(* session, and none stores a session under a token that was stored       *)
(* before or whose Login already finished, whichever goroutines interleave,*)
(* whichever Saves fail, and across restarts.                             *)
(***************************************************************************)
THEOREM StorageRefinement == Spec => ImplementsSessionStore
<1>1. Init => Storage!Init
  BY DEF Init, Storage!Init, StoredTokens
<1>2. QED
  BY <1>1, InitRInv, NextRStep, PTL DEF Spec, ImplementsSessionStore, Storage!Spec

=============================================================================
