----------------------------- MODULE SQLProfiles -----------------------------
(***************************************************************************)
(* The file-backed SQL profile service (internal/sqlprofile/service.go).  *)
(* Create, Update and Delete each run under the service mutex: they change *)
(* the map, write the whole map to the state file, and on a failed write   *)
(* put back the snapshot taken before the change.  os.WriteFile truncates  *)
(* the file before writing, so a failed or interrupted write can leave it  *)
(* empty or cut short.  A restart is NewServiceWithFile: loadState reads  *)
(* the file, and a file it cannot decode stops the service from starting. *)
(* The profile data, validate and Normalize are in ProfileData.          *)
(***************************************************************************)
EXTENDS ProfileData

VARIABLES
    profiles,   \* s.profiles
    fileSt,     \* what the state file holds: "absent", "json", "empty", "garbage"
    fileData,   \* the map encoded in the file when fileSt = "json"
    up,         \* the process is serving (NewServiceWithFile succeeded)
    issued,     \* history: ids generateID has returned
    acked,      \* history: the value the last successful call left per id
    deleted     \* history: ids whose Delete returned nil

vars == <<profiles, fileSt, fileData, up, issued, acked, deleted>>

-----------------------------------------------------------------------------
(* NewServiceWithFile on a path where no file exists yet.                 *)
Init ==
    /\ profiles = EmptyMap
    /\ fileSt = "absent"
    /\ fileData = EmptyMap
    /\ up = TRUE
    /\ issued = {}
    /\ acked = EmptyMap
    /\ deleted = {}

(* persistLocked followed by the caller's rollback: either the file now   *)
(* holds tbl and the map keeps it, or MkdirAll/WriteFile failed (before    *)
(* or after truncating the file) and the map goes back to prev.  ok says  *)
(* which.                                                                  *)
PersistOrRollback(tbl, prev, ok) ==
    \/ /\ ok
       /\ fileSt' = "json" /\ fileData' = tbl
       /\ profiles' = tbl
    \/ /\ ~ok
       /\ \/ UNCHANGED <<fileSt, fileData>>
          \/ fileSt' \in {"empty", "garbage"} /\ UNCHANGED fileData
       /\ profiles' = prev

(* Mutant of Update: the failed write keeps the new value in the map.     *)
UpdateNoRollback(id, p) ==
    /\ up
    /\ validate(p)
    /\ profiles[id] # None
    /\ LET tbl == [profiles EXCEPT ![id] = Normalize(p)]
       IN \E ok \in BOOLEAN :
            /\ PersistOrRollback(tbl, tbl, ok)
            /\ acked' = IF ok THEN [acked EXCEPT ![id] = Normalize(p)] ELSE acked
    /\ UNCHANGED <<up, issued, deleted>>

(* Mutant of Create: the name is stored as sent, without TrimSpace.       *)
CreateNoTrim(p) ==
    /\ up
    /\ validate(p)
    /\ \E id \in Ids \ issued :
          LET q == [p EXCEPT !.dbType = ToLower(TrimSpace(p.dbType))]
              tbl == [profiles EXCEPT ![id] = q]
          IN /\ issued' = issued \cup {id}
             /\ \E ok \in BOOLEAN :
                   /\ PersistOrRollback(tbl, profiles, ok)
                   /\ acked' = IF ok THEN [acked EXCEPT ![id] = q] ELSE acked
    /\ UNCHANGED <<up, deleted>>

(* Create: validate, a fresh id from generateID, normalise, then under the *)
(* lock insert, persist, and roll back on failure.                         *)
Create(p) ==
    /\ up
    /\ validate(p)
    /\ \E id \in Ids \ issued :
          LET tbl == [profiles EXCEPT ![id] = Normalize(p)]
          IN /\ issued' = issued \cup {id}
             /\ \E ok \in BOOLEAN :
                   /\ PersistOrRollback(tbl, profiles, ok)
                   /\ acked' = IF ok THEN [acked EXCEPT ![id] = Normalize(p)]
                               ELSE acked
    /\ UNCHANGED <<up, deleted>>

(* Update: validate, then under the lock ErrNotFound for an unknown id,   *)
(* else overwrite the fields, persist, and roll back on failure.          *)
Update(id, p) ==
    /\ up
    /\ validate(p)
    /\ profiles[id] # None
    /\ LET tbl == [profiles EXCEPT ![id] = Normalize(p)]
       IN \E ok \in BOOLEAN :
            /\ PersistOrRollback(tbl, profiles, ok)
            /\ acked' = IF ok THEN [acked EXCEPT ![id] = Normalize(p)] ELSE acked
    /\ UNCHANGED <<up, issued, deleted>>

(* Mutant of Delete: nil is returned without writing the file.            *)
DeleteNoPersist(id) ==
    /\ up
    /\ profiles[id] # None
    /\ profiles' = [profiles EXCEPT ![id] = None]
    /\ acked' = [acked EXCEPT ![id] = None]
    /\ deleted' = deleted \cup {id}
    /\ UNCHANGED <<fileSt, fileData, up, issued>>

(* Delete: under the lock ErrNotFound for an unknown id, else remove,     *)
(* persist, and roll back on failure.                                     *)
Delete(id) ==
    /\ up
    /\ profiles[id] # None
    /\ LET tbl == [profiles EXCEPT ![id] = None]
       IN \E ok \in BOOLEAN :
            /\ PersistOrRollback(tbl, profiles, ok)
            /\ acked' = IF ok THEN [acked EXCEPT ![id] = None] ELSE acked
            /\ deleted' = IF ok THEN deleted \cup {id} ELSE deleted
    /\ UNCHANGED <<up, issued>>

(* The process stops (between calls, or inside a write, which leaves the  *)
(* same file as a failed write) and NewServiceWithFile runs loadState: no *)
(* file or an empty one gives an empty map, a JSON file its map, and a    *)
(* file that does not decode an error, so the service does not start.     *)
Restart ==
    /\ fileSt' = fileSt /\ fileData' = fileData
    /\ \/ /\ fileSt \in {"absent", "empty"}
          /\ profiles' = EmptyMap /\ up' = TRUE
       \/ /\ fileSt = "json"
          /\ profiles' = fileData /\ up' = TRUE
       \/ /\ fileSt = "garbage"
          /\ profiles' = EmptyMap /\ up' = FALSE
    /\ UNCHANGED <<issued, acked, deleted>>

Next ==
    \/ \E p \in Inputs : Create(p)
    \/ \E id \in Ids, p \in Inputs : Update(id, p)
    \/ \E id \in Ids : Delete(id)
    \/ Restart

Spec == Init /\ [][Next]_vars

-----------------------------------------------------------------------------
TypeOK ==
    /\ profiles \in [Ids -> Profile \cup {None}]
    /\ fileSt \in {"absent", "json", "empty", "garbage"}
    /\ fileData \in [Ids -> Profile \cup {None}]
    /\ up \in BOOLEAN
    /\ issued \subseteq Ids
    /\ acked \in [Ids -> Profile \cup {None}]
    /\ deleted \subseteq Ids

(***************************************************************************)
(* Whenever the file decodes, it holds exactly the map the service        *)
(* serves: every successful call wrote its map, and every failed write    *)
(* was undone in memory, whatever sequence of calls, failures and         *)
(* restarts came before.                                                  *)
(***************************************************************************)
FileMatchesMemory == up /\ fileSt = "json" => fileData = profiles

(***************************************************************************)
(* Every profile the service holds passed validate and is normalised: a   *)
(* trimmed, non-empty name and an allowed lower-case db_type, whichever   *)
(* of Create, Update and reload put it there.                             *)
(***************************************************************************)
StoredValidNormalized ==
    \A id \in Ids : profiles[id] # None =>
        /\ validate(profiles[id])
        /\ ~profiles[id].name.pad
        /\ AllowedDB(profiles[id].dbType)

(***************************************************************************)
(* A profile whose Delete returned nil never comes back: no rollback of a *)
(* later failed call and no restart restores it.                          *)
(***************************************************************************)
DeletedStaysDeleted == \A id \in deleted : profiles[id] = None

(***************************************************************************)
(* TestServicePersistsToFile: a profile Create returned is found, as it  *)
(* was last acknowledged, by the service a restart creates, and every     *)
(* acknowledged change survives.                                          *)
(***************************************************************************)
AckedSurvivesRestart == up => profiles = acked

=============================================================================
