----------------------------- MODULE SessionStore -----------------------------
(***************************************************************************)
(* What the auth service asks of its session storage (the SessionStore     *)
(* interface of src/internal/auth/session_store_postgres.go, written only  *)
(* through persistSessionsLocked): a token is a one-time credential.  A    *)
(* stored session is never altered; it stays or is removed.  A token is    *)
(* stored only if it was never in use before, so a removed, revoked or     *)
(* abandoned token never comes back.  Each Save is one atomic step that    *)
(* may change many entries.                                               *)
(***************************************************************************)
CONSTANTS
    Tokens,         \* bearer tokens
    Session,        \* the session records
    NoSession       \* "no entry"

VARIABLES
    table,          \* what Load would return: token -> Session or NoSession
    spent           \* tokens that can no longer be stored as new ones

Init ==
    /\ table = [t \in Tokens |-> NoSession]
    /\ spent = {}

(* A token entry keeps its session, is removed, or a session is stored    *)
(* under a token that is neither stored nor spent.                        *)
EntryStep(t) ==
    \/ table'[t] = table[t]
    \/ table'[t] = NoSession
    \/ table[t] = NoSession /\ t \notin spent /\ table'[t] \in Session

(* One Save: every entry steps, and every token stored now is spent from   *)
(* here on; tokens may be retired without ever being stored.              *)
Save ==
    /\ table' \in [Tokens -> Session \cup {NoSession}]
    /\ \A t \in Tokens : EntryStep(t)
    /\ spent' \subseteq Tokens
    /\ spent \cup {t \in Tokens : table'[t] # NoSession} \subseteq spent'

Next == Save

Spec == Init /\ [][Next]_<<table, spent>>

=============================================================================
