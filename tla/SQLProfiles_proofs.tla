-------------------------- MODULE SQLProfiles_proofs --------------------------
(***************************************************************************)
(* Proofs, for every set of ids and request bodies, that the file-backed  *)
(* SQL profile service keeps its file coherent with memory, stores only   *)
(* valid normalised profiles, and never brings back a deleted one.         *)
(***************************************************************************)
EXTENDS SQLProfiles, ProfileData_proofs, TLAPS

USE InputsAssumption, NoneAssumption

(* A map whose every profile passed validate and is normalised.           *)
GoodMap(m) == \A id \in Ids : m[id] # None => GoodProfile(m[id])

(* Ids generateID has not returned are in neither map; deleted ids were   *)
(* issued once, and neither memory nor the file holds them: a rollback    *)
(* restores a snapshot taken after the delete, and a restart loads a file *)
(* written after it.                                                      *)
DeletedGone ==
    /\ deleted \subseteq issued
    /\ \A id \in deleted : profiles[id] = None /\ fileData[id] = None
    /\ \A id \in Ids \ issued : profiles[id] = None /\ fileData[id] = None

SInv ==
    /\ TypeOK
    /\ FileMatchesMemory
    /\ GoodMap(profiles) /\ GoodMap(fileData)
    /\ DeletedGone

(* Replacing one entry of a good map by a good profile or None.           *)
LEMMA GoodMapUpdate ==
    ASSUME NEW m \in [Ids -> Profile \cup {None}], GoodMap(m),
           NEW id \in Ids, NEW q \in Profile \cup {None},
           q # None => GoodProfile(q)
    PROVE  /\ [m EXCEPT ![id] = q] \in [Ids -> Profile \cup {None}]
           /\ GoodMap([m EXCEPT ![id] = q])
BY DEF GoodMap

LEMMA EmptyGood ==
    EmptyMap \in [Ids -> Profile \cup {None}] /\ GoodMap(EmptyMap)
BY DEF EmptyMap, GoodMap

LEMMA InitSInv == Init => SInv
BY EmptyGood DEF Init, SInv, TypeOK, FileMatchesMemory, DeletedGone, EmptyMap

(* What a step of Create, Update or Delete does, in terms of the table    *)
(* tbl it writes: the file and map end up as tbl, or the map is the old   *)
(* one and the file is unchanged or no longer decodes.                    *)
LEMMA PersistShape ==
    ASSUME NEW tbl, NEW ok, PersistOrRollback(tbl, profiles, ok)
    PROVE  \/ ok /\ fileSt' = "json" /\ fileData' = tbl /\ profiles' = tbl
           \/ ~ok /\ profiles' = profiles /\ fileData' = fileData
              /\ (fileSt' = fileSt \/ fileSt' \in {"empty", "garbage"})
BY DEF PersistOrRollback

(* A locked write of the table tbl keeps SInv, if tbl is good, holds no   *)
(* deleted or never-issued id, and a failed write records no deletion.    *)
LEMMA WriteStep ==
    ASSUME SInv, NEW tbl \in [Ids -> Profile \cup {None}], GoodMap(tbl),
           \A id \in deleted' : tbl[id] = None,
           \A id \in Ids \ issued' : tbl[id] = None,
           deleted \subseteq deleted', deleted' \subseteq issued',
           issued \subseteq issued', issued' \subseteq Ids,
           NEW ok \in BOOLEAN, PersistOrRollback(tbl, profiles, ok),
           up' = up, acked' \in [Ids -> Profile \cup {None}],
           ~ok => deleted' = deleted
    PROVE  SInv'
<1>1. CASE ok
  <2>1. fileSt' = "json" /\ fileData' = tbl /\ profiles' = tbl
    BY <1>1, PersistShape
  <2>2. TypeOK'
    BY <2>1 DEF SInv, TypeOK
  <2>3. DeletedGone'
    BY <2>1 DEF DeletedGone
  <2>4. QED
    BY <2>1, <2>2, <2>3 DEF SInv, FileMatchesMemory
<1>2. CASE ~ok
  <2>1. profiles' = profiles /\ fileData' = fileData
        /\ (fileSt' = fileSt \/ fileSt' \in {"empty", "garbage"})
    BY <1>2, PersistShape
  <2>2. TypeOK'
    BY <2>1 DEF SInv, TypeOK
  <2>3. FileMatchesMemory'
    BY <2>1 DEF SInv, FileMatchesMemory
  <2>4. DeletedGone'
    BY <1>2, <2>1 DEF SInv, DeletedGone
  <2>5. QED
    BY <2>1, <2>2, <2>3, <2>4 DEF SInv
<1>3. QED
  BY <1>1, <1>2

LEMMA CreateSInv ==
    ASSUME SInv, NEW p \in Inputs, Create(p)
    PROVE  SInv'
<1>1. PICK id \in Ids \ issued :
        /\ issued' = issued \cup {id}
        /\ \E ok \in BOOLEAN :
              /\ PersistOrRollback([profiles EXCEPT ![id] = Normalize(p)], profiles, ok)
              /\ acked' = IF ok THEN [acked EXCEPT ![id] = Normalize(p)] ELSE acked
  BY DEF Create
<1> DEFINE tbl == [profiles EXCEPT ![id] = Normalize(p)]
<1>2. PICK ok \in BOOLEAN :
        /\ PersistOrRollback(tbl, profiles, ok)
        /\ acked' = IF ok THEN [acked EXCEPT ![id] = Normalize(p)] ELSE acked
  BY <1>1
<1>3. Normalize(p) \in Profile /\ GoodProfile(Normalize(p))
  BY NormalizeGood, InputsAssumption DEF Create
<1>4. tbl \in [Ids -> Profile \cup {None}] /\ GoodMap(tbl)
  BY <1>3, GoodMapUpdate DEF SInv, TypeOK
<1>5. deleted' = deleted /\ up' = up
  BY DEF Create
<1>6. \A i \in deleted' : tbl[i] = None
  BY <1>1, <1>5 DEF SInv, DeletedGone, TypeOK
<1>7. \A i \in Ids \ issued' : tbl[i] = None
  BY <1>1 DEF SInv, DeletedGone, TypeOK
<1>8. deleted' \subseteq issued' /\ issued \subseteq issued' /\ issued' \subseteq Ids
  BY <1>1, <1>5 DEF SInv, DeletedGone, TypeOK
<1>9. acked' \in [Ids -> Profile \cup {None}]
  BY <1>2, <1>3 DEF SInv, TypeOK
<1>10. QED
  BY <1>2, <1>4, <1>5, <1>6, <1>7, <1>8, <1>9, WriteStep

LEMMA UpdateSInv ==
    ASSUME SInv, NEW id \in Ids, NEW p \in Inputs, Update(id, p)
    PROVE  SInv'
<1> DEFINE tbl == [profiles EXCEPT ![id] = Normalize(p)]
<1>1. PICK ok \in BOOLEAN :
        /\ PersistOrRollback(tbl, profiles, ok)
        /\ acked' = IF ok THEN [acked EXCEPT ![id] = Normalize(p)] ELSE acked
  BY DEF Update
<1>2. Normalize(p) \in Profile /\ GoodProfile(Normalize(p))
  BY NormalizeGood, InputsAssumption DEF Update
<1>3. tbl \in [Ids -> Profile \cup {None}] /\ GoodMap(tbl)
  BY <1>2, GoodMapUpdate DEF SInv, TypeOK
<1>4. deleted' = deleted /\ issued' = issued /\ up' = up /\ profiles[id] # None
  BY DEF Update
<1>5. id \notin deleted /\ id \in issued
  BY <1>4 DEF SInv, DeletedGone
<1>6. \A i \in deleted' : tbl[i] = None
  BY <1>4, <1>5 DEF SInv, DeletedGone, TypeOK
<1>7. \A i \in Ids \ issued' : tbl[i] = None
  BY <1>4, <1>5 DEF SInv, DeletedGone, TypeOK
<1>8. deleted' \subseteq issued' /\ issued \subseteq issued' /\ issued' \subseteq Ids
  BY <1>4 DEF SInv, DeletedGone, TypeOK
<1>9. acked' \in [Ids -> Profile \cup {None}]
  BY <1>1, <1>2 DEF SInv, TypeOK
<1>10. QED
  BY <1>1, <1>3, <1>4, <1>6, <1>7, <1>8, <1>9, WriteStep

LEMMA DeleteSInv ==
    ASSUME SInv, NEW id \in Ids, Delete(id)
    PROVE  SInv'
<1> DEFINE tbl == [profiles EXCEPT ![id] = None]
<1>1. PICK ok \in BOOLEAN :
        /\ PersistOrRollback(tbl, profiles, ok)
        /\ acked' = IF ok THEN [acked EXCEPT ![id] = None] ELSE acked
        /\ deleted' = IF ok THEN deleted \cup {id} ELSE deleted
  BY DEF Delete
<1>2. tbl \in [Ids -> Profile \cup {None}] /\ GoodMap(tbl)
  BY GoodMapUpdate DEF SInv, TypeOK
<1>3. issued' = issued /\ up' = up /\ profiles[id] # None
  BY DEF Delete
<1>4. id \in issued
  BY <1>3 DEF SInv, DeletedGone
<1>5. \A i \in deleted' : tbl[i] = None
  BY <1>1 DEF SInv, DeletedGone, TypeOK
<1>6. \A i \in Ids \ issued' : tbl[i] = None
  BY <1>3 DEF SInv, DeletedGone, TypeOK
<1>7. deleted \subseteq deleted' /\ deleted' \subseteq issued'
      /\ issued \subseteq issued' /\ issued' \subseteq Ids
  BY <1>1, <1>3, <1>4 DEF SInv, DeletedGone, TypeOK
<1>8. acked' \in [Ids -> Profile \cup {None}]
  BY <1>1 DEF SInv, TypeOK
<1>9. ~ok => deleted' = deleted
  BY <1>1
<1>10. QED
  BY <1>1, <1>2, <1>3, <1>5, <1>6, <1>7, <1>8, <1>9, WriteStep

LEMMA RestartSInv ==
    ASSUME SInv, Restart
    PROVE  SInv'
<1>1. UNCHANGED <<fileSt, fileData, issued, acked, deleted>>
  BY DEF Restart
<1>2. CASE fileSt = "json"
  <2>1. profiles' = fileData /\ up' = TRUE
    BY <1>2 DEF Restart
  <2>2. QED
    BY <1>1, <2>1 DEF SInv, TypeOK, FileMatchesMemory, DeletedGone
<1>3. CASE fileSt # "json"
  <2>1. profiles' = EmptyMap /\ up' \in BOOLEAN
    BY <1>3 DEF Restart
  <2>2. fileSt' # "json"
    BY <1>1, <1>3
  <2>3. QED
    BY <1>1, <2>1, <2>2, EmptyGood DEF SInv, TypeOK, FileMatchesMemory, DeletedGone, EmptyMap
<1>4. QED
  BY <1>2, <1>3

LEMMA NextSInv == SInv /\ [Next]_vars => SInv'
<1> SUFFICES ASSUME SInv, [Next]_vars PROVE SInv'
  OBVIOUS
<1>1. ASSUME NEW p \in Inputs, Create(p) PROVE SInv'
  BY <1>1, CreateSInv
<1>2. ASSUME NEW id \in Ids, NEW p \in Inputs, Update(id, p) PROVE SInv'
  BY <1>2, UpdateSInv
<1>3. ASSUME NEW id \in Ids, Delete(id) PROVE SInv'
  BY <1>3, DeleteSInv
<1>4. CASE Restart
  BY <1>4, RestartSInv
<1>5. CASE UNCHANGED vars
  BY <1>5 DEF vars, SInv, TypeOK, FileMatchesMemory, GoodMap, DeletedGone
<1>6. QED
  BY <1>1, <1>2, <1>3, <1>4, <1>5 DEF Next

(***************************************************************************)
(* For every set of ids and request bodies: whenever the state file       *)
(* decodes, it holds exactly the map the running service serves, through  *)
(* failed and torn writes, rollbacks and restarts.                        *)
(***************************************************************************)
THEOREM FileCoherent == Spec => []FileMatchesMemory
<1>1. SInv => FileMatchesMemory
  BY DEF SInv
<1>2. QED
  BY <1>1, InitSInv, NextSInv, PTL DEF Spec

(***************************************************************************)
(* Every profile the service holds passed validate and has a trimmed name *)
(* and a lower-case allowed db_type, whether Create, Update or a reload    *)
(* of the file put it there.                                              *)
(***************************************************************************)
THEOREM StoredProfilesValid == Spec => []StoredValidNormalized
<1>1. SInv => StoredValidNormalized
  BY DEF SInv, GoodMap, GoodProfile, StoredValidNormalized
<1>2. QED
  BY <1>1, InitSInv, NextSInv, PTL DEF Spec

(***************************************************************************)
(* A profile whose Delete returned nil is never served again: no rollback *)
(* of a later failed call and no restart brings it back.                  *)
(***************************************************************************)
THEOREM DeletionFinal == Spec => []DeletedStaysDeleted
<1>1. SInv => DeletedStaysDeleted
  BY DEF SInv, DeletedGone, DeletedStaysDeleted
<1>2. QED
  BY <1>1, InitSInv, NextSInv, PTL DEF Spec

(***************************************************************************)
(* Every reachable state of the file-backed profile service is well typed *)
(* (memory, file, and the history of issued, acknowledged and deleted     *)
(* ids), for any ids and request bodies.                                  *)
(***************************************************************************)
THEOREM TypeCorrect == Spec => []TypeOK
<1>1. SInv => TypeOK
  BY DEF SInv
<1>2. QED
  BY <1>1, InitSInv, NextSInv, PTL DEF Spec

=============================================================================
