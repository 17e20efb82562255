----------------------------- MODULE ProfileStore -----------------------------
(***************************************************************************)
(* What a SQL profile service promises of its table, whatever the backend *)
(* (httpserver.SQLProfileService): each profile is created under an id no *)
(* profile holds, as the normalised form of a valid request body; it is   *)
(* replaced only by the normalised form of a valid body, and removed only *)
(* while it exists.  Reads change nothing.  Each change is one atomic     *)
(* step of the table.                                                     *)
(***************************************************************************)
EXTENDS ProfileData

VARIABLE table      \* id |-> profile, or None

Init == table = EmptyMap

Create(id, p) ==
    /\ validate(p)
    /\ table[id] = None
    /\ table' = [table EXCEPT ![id] = Normalize(p)]

Update(id, p) ==
    /\ validate(p)
    /\ table[id] # None
    /\ table' = [table EXCEPT ![id] = Normalize(p)]

Delete(id) ==
    /\ table[id] # None
    /\ table' = [table EXCEPT ![id] = None]

Next ==
    \E id \in Ids :
        \/ \E p \in Inputs : Create(id, p) \/ Update(id, p)
        \/ Delete(id)

Spec == Init /\ [][Next]_table

=============================================================================
