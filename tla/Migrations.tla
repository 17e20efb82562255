------------------------------ MODULE Migrations ------------------------------
(***************************************************************************)
(* MarkApplied of the migrations service (internal/migrations/service.go) *)
(* over the file applied-state store, with concurrent HTTP requests.      *)
(*                                                                         *)
(* fileAppliedStore.SetApplied reads the whole state file (Load), adds    *)
(* the name in memory and writes the whole file back (saveState), with no *)
(* lock: two requests may both load before either saves.  os.WriteFile    *)
(* truncates first, so a failed write can leave the file empty or cut     *)
(* short; Load reads an empty file as "nothing applied" and fails on one   *)
(* that does not decode.  (pgAppliedStore.SetApplied is one upsert        *)
(* statement that commits or does nothing, and is not modelled here.)    *)
(*                                                                         *)
(* The applied_at timestamp is left out: the properties are about which   *)
(* migrations are recorded, not when.                                     *)
(***************************************************************************)
CONSTANTS
    Threads,    \* goroutines serving POST /v1/system/migrations/<name>
    Names,      \* the .sql files of the migrations directory
    Requests,   \* names a client may send: Names and names MarkApplied rejects
    SaveCanFail \* whether MkdirAll/WriteFile may fail

ASSUME SaveCanFailAssumption == SaveCanFail \in BOOLEAN
ASSUME RequestsAssumption == Names \subseteq Requests
ASSUME NamesAssumption == Names # {}

VARIABLES
    fileSt,     \* "absent", "json", "empty" or "garbage"
    applied,    \* the names the state file records when it decodes
    th,         \* per request: pc, name, the state it loaded
    acked       \* history: names whose MarkApplied returned nil

vars == <<fileSt, applied, th, acked>>

Idle == [pc |-> "idle", name |-> CHOOSE n \in Names : TRUE, st |-> {}]

Local == [pc : {"idle", "save"}, name : Names, st : SUBSET Names]

Init ==
    /\ fileSt = "absent"
    /\ applied = {}
    /\ th = [t \in Threads |-> Idle]
    /\ acked = {}

(* fileAppliedStore.Load: no file or an empty one is an empty state, a    *)
(* JSON file its contents; a file that does not decode is an error.       *)
Loadable == fileSt \in {"absent", "empty", "json"}
Loaded == IF fileSt = "json" THEN applied ELSE {}

(* What Status reports as applied: what Load returns from the file        *)
(* (nothing for an empty file, and an error for one that does not decode).*)
Recorded == IF fileSt = "json" THEN applied ELSE {}

(* MarkApplied's checks: a trimmed name ending in .sql, without "/", of a *)
(* file that os.Stat finds in the directory.                              *)
Valid(n) == n \in Names

(* saveState: the file now holds st, or MkdirAll/WriteFile failed before  *)
(* or after truncating it.                                                *)
SaveState(st, ok) ==
    \/ /\ ok
       /\ fileSt' = "json" /\ applied' = st
    \/ /\ ~ok
       /\ \/ UNCHANGED <<fileSt, applied>>
          \/ fileSt' \in {"empty", "garbage"} /\ UNCHANGED applied

(* Mutant of MarkLoad: MarkApplied's name checks are skipped.            *)
MarkLoadNoCheck(self, n) ==
    /\ th[self].pc = "idle"
    /\ \/ /\ Loadable
          /\ th' = [th EXCEPT ![self] = [pc |-> "save", name |-> n,
                                         st |-> Loaded \cup {n}]]
       \/ /\ ~Loadable
          /\ UNCHANGED th
    /\ UNCHANGED <<fileSt, applied, acked>>

(* MarkApplied up to the store call (the name is a .sql file that exists) *)
(* and, for the file store, SetApplied's Load and the in-memory insert;   *)
(* a Load error is returned.                                              *)
MarkLoad(self, n) ==
    /\ th[self].pc = "idle"
    /\ Valid(n)
    /\ \/ /\ Loadable
          /\ th' = [th EXCEPT ![self] = [pc |-> "save", name |-> n,
                                         st |-> Loaded \cup {n}]]
       \/ /\ ~Loadable
          /\ UNCHANGED th
    /\ UNCHANGED <<fileSt, applied, acked>>

(* SetApplied's saveState, and the reply.                                 *)
MarkSave(self) ==
    /\ th[self].pc = "save"
    /\ \E ok \in IF SaveCanFail THEN BOOLEAN ELSE {TRUE} :
          /\ SaveState(th[self].st, ok)
          /\ acked' = IF ok THEN acked \cup {th[self].name} ELSE acked
    /\ th' = [th EXCEPT ![self] = Idle]

Next ==
    \E self \in Threads :
        \/ \E n \in Requests : MarkLoad(self, n)
        \/ MarkSave(self)

Spec == Init /\ [][Next]_vars

-----------------------------------------------------------------------------
TypeOK ==
    /\ fileSt \in {"absent", "json", "empty", "garbage"}
    /\ applied \subseteq Names
    /\ th \in [Threads -> Local]
    /\ acked \subseteq Names

(***************************************************************************)
(* TestStatusAndMarkApplied: a migration marked applied stays applied in   *)
(* the store (Status reports it) after any later MarkApplied calls.       *)
(***************************************************************************)
AppliedNeverLost == acked \subseteq Recorded

=============================================================================
