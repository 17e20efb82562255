--------------------------- MODULE UserFile_proofs ----------------------------
(***************************************************************************)
(* Proofs about the file-backed user store and the bootstrap of app.New.  *)
(* TypeOK and AdminAlwaysPresent are both inductive together: every start *)
(* that returns a server has loaded a user (with the empty hash the file  *)
(* gives back) or Put the bootstrap one, and a password change replaces   *)
(* the hash by another hash.                                              *)
(***************************************************************************)
EXTENDS UserFile, TLAPS

USE BootAssumption, NoUserAssumption, EmptyHashAssumption

UInv == TypeOK /\ AdminAlwaysPresent

LEMMA HashNotNoUser ==
    ASSUME NEW p \in Passwords
    PROVE  Hash(p) \in Hashes /\ Hash(p) # NoUser
BY DEF Hash, Hashes

LEMMA IdleLocal == Idle \in Local
BY DEF Idle, Local

LEMMA InitUInv == Init => UInv
BY IdleLocal DEF Init, UInv, TypeOK, AdminAlwaysPresent

(* A save keeps the file typed.                                           *)
LEMMA SaveFileType ==
    ASSUME TypeOK, NEW ok \in BOOLEAN, SaveFile(ok)
    PROVE  fileSt' \in {"absent", "json", "empty", "garbage"}
           /\ fileUser' \in BOOLEAN
BY DEF SaveFile, TypeOK

LEMMA StartUInv == UInv /\ Start => UInv'
<1> SUFFICES ASSUME UInv, Start PROVE UInv'
  OBVIOUS
<1>1. th' \in [Threads -> Local]
  BY IdleLocal DEF Start
<1>2. CASE ~(Loadable /\ SessionLoadable)
  BY <1>1, <1>2 DEF Start, UInv, TypeOK, AdminAlwaysPresent
<1>3. CASE Loadable /\ SessionLoadable /\ Load # NoUser
  <2>1. Load = EmptyHash
    BY <1>3 DEF Load
  <2>2. memHash' = Load /\ up' = TRUE
        /\ UNCHANGED <<fileSt, fileUser, changed, sessSt>>
    BY <1>3 DEF Start
  <2>3. QED
    BY <1>1, <1>3, <2>1, <2>2 DEF UInv, TypeOK, AdminAlwaysPresent
<1>4. CASE Loadable /\ SessionLoadable /\ Load = NoUser
  <2>1. PICK ok \in BOOLEAN : Put(Hash(BootPassword), ok) /\ up' = ok
    BY <1>4 DEF Start
  <2>2. Hash(BootPassword) \in Hashes /\ Hash(BootPassword) # NoUser
    BY HashNotNoUser
  <2>3. memHash' = Hash(BootPassword) /\ SaveFile(ok)
    BY <2>1 DEF Put
  <2>4. fileSt' \in {"absent", "json", "empty", "garbage"}
        /\ fileUser' \in BOOLEAN
    BY <2>2, <2>3, SaveFileType DEF UInv
  <2>5. changed' = changed /\ sessSt' = sessSt
    BY DEF Start
  <2>6. QED
    BY <1>1, <2>1, <2>2, <2>3, <2>4, <2>5 DEF UInv, TypeOK, AdminAlwaysPresent
<1>5. QED
  BY <1>2, <1>3, <1>4

LEMMA SessionSaveUInv == UInv /\ SessionSave => UInv'
BY DEF SessionSave, UInv, TypeOK, AdminAlwaysPresent

LEMMA CPCheckUInv ==
    ASSUME UInv, NEW self \in Threads, NEW cur \in Passwords,
           NEW new \in Passwords, CPCheck(self, cur, new)
    PROVE  UInv'
<1>1. th' \in [Threads -> Local]
  BY DEF CPCheck, UInv, TypeOK, Local
<1>2. QED
  BY <1>1 DEF CPCheck, UInv, TypeOK, AdminAlwaysPresent

LEMMA CPPutUInv ==
    ASSUME UInv, NEW self \in Threads, CPPut(self)
    PROVE  UInv'
<1> DEFINE h == Hash(th[self].new)
<1>1. th[self].new \in Passwords
  BY DEF UInv, TypeOK, Local
<1>2. h \in Hashes /\ h # NoUser
  BY <1>1, HashNotNoUser
<1>3. PICK ok \in BOOLEAN : Put(h, ok) /\ changed' = (changed \/ ok)
  BY DEF CPPut
<1>4. memHash' = h /\ SaveFile(ok)
  BY <1>3 DEF Put
<1>5. fileSt' \in {"absent", "json", "empty", "garbage"}
      /\ fileUser' \in BOOLEAN
  BY <1>2, <1>4, SaveFileType DEF UInv
<1>6. th' \in [Threads -> Local] /\ up' = up /\ sessSt' = sessSt
  BY IdleLocal DEF CPPut, UInv, TypeOK
<1>7. QED
  BY <1>2, <1>3, <1>4, <1>5, <1>6 DEF UInv, TypeOK, AdminAlwaysPresent

LEMMA NextUInv == UInv /\ [Next]_vars => UInv'
<1> SUFFICES ASSUME UInv, [Next]_vars PROVE UInv'
  OBVIOUS
<1>1. CASE \E self \in Threads, cur, new \in Passwords : CPCheck(self, cur, new)
  BY <1>1, CPCheckUInv
<1>2. CASE \E self \in Threads : CPPut(self)
  BY <1>2, CPPutUInv
<1>3. CASE Start
  BY <1>3, StartUInv
<1>4. CASE SessionSave
  BY <1>4, SessionSaveUInv
<1>5. CASE UNCHANGED vars
  BY <1>5 DEF vars, UInv, TypeOK, AdminAlwaysPresent
<1>6. QED
  BY <1>1, <1>2, <1>3, <1>4, <1>5 DEF Next

(***************************************************************************)
(* Every reachable state of the file user store and its starts is well    *)
(* typed, for any threads and passwords.                                  *)
(***************************************************************************)
THEOREM TypeCorrect == Spec => []TypeOK
BY InitUInv, NextUInv, PTL DEF Spec, UInv

(***************************************************************************)
(* app.New never returns a server in which GetByUsername misses the       *)
(* bootstrap user, whatever failed or torn writes of FileUserStore and    *)
(* restarts came before.  The record it finds may carry the empty hash    *)
(* of a reload (the run userfile_login_lost shows that); this theorem is  *)
(* about its presence, which the bootstrap logic of app.New guarantees.   *)
(***************************************************************************)
THEOREM AdminPresent == Spec => []AdminAlwaysPresent
BY InitUInv, NextUInv, PTL DEF Spec, UInv
=============================================================================
