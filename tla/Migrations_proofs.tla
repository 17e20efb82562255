-------------------------- MODULE Migrations_proofs --------------------------
(***************************************************************************)
(* Proofs, for every set of requests and migration names, about the      *)
(* locals MarkApplied carries from its Load to its save over the file     *)
(* store: they stay typed, and the state a request saves contains the     *)
(* name it marks.                                                         *)
(***************************************************************************)
EXTENDS Migrations, TLAPS

USE SaveCanFailAssumption, RequestsAssumption, NamesAssumption

(* A request between its Load and its save holds a state that contains   *)
(* the name it is marking.                                                *)
SavesOwnName == \A t \in Threads : th[t].pc = "save" => th[t].name \in th[t].st

MInv == TypeOK /\ SavesOwnName

LEMMA IdleLocal == Idle \in Local
BY DEF Idle, Local

LEMMA IdlePc == Idle.pc = "idle"
BY DEF Idle

LEMMA InitMInv == Init => MInv
<1> SUFFICES ASSUME Init PROVE MInv
  OBVIOUS
<1>1. TypeOK
  BY IdleLocal DEF Init, TypeOK
<1>2. SavesOwnName
  BY IdlePc DEF Init, SavesOwnName
<1>3. QED
  BY <1>1, <1>2 DEF MInv

LEMMA SaveStateType ==
    ASSUME TypeOK, NEW st \in SUBSET Names, NEW ok \in BOOLEAN, SaveState(st, ok)
    PROVE  /\ fileSt' \in {"absent", "json", "empty", "garbage"}
           /\ applied' \subseteq Names
           /\ ok => fileSt' = "json" /\ applied' = st
BY DEF SaveState, TypeOK

LEMMA MarkLoadMInv ==
    ASSUME MInv, NEW self \in Threads, NEW n \in Requests, MarkLoad(self, n)
    PROVE  MInv'
<1>1. n \in Names /\ th[self].pc = "idle"
  BY DEF MarkLoad, Valid
<1>2. Loaded \subseteq Names
  BY DEF MInv, TypeOK, Loaded
<1>3. CASE Loadable
  <2> DEFINE r == [pc |-> "save", name |-> n, st |-> Loaded \cup {n}]
  <2>1. th' = [th EXCEPT ![self] = r]
    BY <1>3 DEF MarkLoad
  <2>2. r \in Local /\ r.pc = "save" /\ r.name \in r.st
    BY <1>1, <1>2 DEF Local
  <2>3. QED
    BY <2>1, <2>2 DEF MarkLoad, MInv, TypeOK, SavesOwnName
<1>4. CASE ~Loadable
  BY <1>4 DEF MarkLoad, MInv, TypeOK, SavesOwnName
<1>5. QED
  BY <1>3, <1>4

LEMMA MarkSaveMInv ==
    ASSUME MInv, NEW self \in Threads, MarkSave(self)
    PROVE  MInv' /\ \A n \in Names : n \in acked' \ acked => n \in Recorded'
<1>1. PICK ok \in (IF SaveCanFail THEN BOOLEAN ELSE {TRUE}) :
        /\ SaveState(th[self].st, ok)
        /\ acked' = IF ok THEN acked \cup {th[self].name} ELSE acked
  BY DEF MarkSave
<1>2. ok \in BOOLEAN
  BY <1>1
<1>3. th[self] \in Local /\ th[self].pc = "save"
  BY DEF MarkSave, MInv, TypeOK
<1>4. /\ fileSt' \in {"absent", "json", "empty", "garbage"}
      /\ applied' \subseteq Names
      /\ ok => fileSt' = "json" /\ applied' = th[self].st
  BY <1>1, <1>2, <1>3, SaveStateType DEF MInv, Local
<1>5. th' = [th EXCEPT ![self] = Idle]
  BY DEF MarkSave
<1>6. TypeOK'
  BY <1>1, <1>3, <1>4, <1>5, IdleLocal DEF MInv, TypeOK, Local
<1>7. SavesOwnName'
  BY <1>5, IdlePc DEF MInv, TypeOK, SavesOwnName
<1>8. \A n \in Names : n \in acked' \ acked => n \in Recorded'
  BY <1>1, <1>3, <1>4 DEF MInv, SavesOwnName, Recorded
<1>9. QED
  BY <1>6, <1>7, <1>8 DEF MInv

LEMMA NextMInv ==
    MInv /\ [Next]_vars => MInv' /\ [\A n \in Names : n \in acked' \ acked => n \in Recorded']_vars
<1> SUFFICES ASSUME MInv, [Next]_vars
             PROVE  MInv' /\ [\A n \in Names : n \in acked' \ acked => n \in Recorded']_vars
  OBVIOUS
<1>1. ASSUME NEW self \in Threads, NEW n \in Requests, MarkLoad(self, n)
      PROVE  MInv' /\ [\A m \in Names : m \in acked' \ acked => m \in Recorded']_vars
  BY <1>1, MarkLoadMInv DEF MarkLoad
<1>2. ASSUME NEW self \in Threads, MarkSave(self)
      PROVE  MInv' /\ [\A m \in Names : m \in acked' \ acked => m \in Recorded']_vars
  BY <1>2, MarkSaveMInv
<1>3. CASE UNCHANGED vars
  BY <1>3 DEF vars, MInv, TypeOK, SavesOwnName
<1>4. QED
  BY <1>1, <1>2, <1>3 DEF Next

(***************************************************************************)
(* For every set of requests and names: the requests' locals keep their   *)
(* types through every interleaving of Load and save.                     *)
(***************************************************************************)
THEOREM TypeCorrect == Spec => []TypeOK
<1>1. MInv => TypeOK
  BY DEF MInv
<1>2. MInv /\ [Next]_vars => MInv'
  BY NextMInv
<1>3. QED
  BY <1>1, <1>2, InitMInv, PTL DEF Spec
=============================================================================
