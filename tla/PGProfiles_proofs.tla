--------------------------- MODULE PGProfiles_proofs ---------------------------
(***************************************************************************)
(* Proof, for every set of requests, ids and request bodies, that         *)
(* PGService implements the abstract profile store under the mapping      *)
(* table <- rows.                                                         *)
(***************************************************************************)
EXTENDS PGProfiles, ProfileData_proofs, TLAPS

USE InputsAssumption, NoneAssumption

(* No row holds an id generateID has not returned.                        *)
Fresh == \A id \in Ids \ issued : rows[id] = None

(* A request between the UPDATE and the SELECT of Update holds an id.    *)
GetHasId == \A t \in Threads : th[t].pc = "get" => th[t].id \in Ids

PInv == TypeOK /\ Fresh /\ GetHasId

LEMMA DoneLocal ==
    ASSUME NEW r \in Replies
    PROVE  Done(r) \in Local
BY DEF Done, Local

LEMMA ReplyType ==
    ASSUME NEW k \in {"none", "ok", "notfound", "invalid", "error"},
           NEW v \in Profile \cup {None}
    PROVE  Reply(k, v) \in Replies
BY DEF Reply, Replies

LEMMA AnswerType ==
    ASSUME TypeOK, GetHasId, NEW self \in Threads, NEW r \in Replies, Answer(self, r)
    PROVE  th' \in [Threads -> Local] /\ GetHasId'
<1>1. Done(r).pc = "idle"
  BY DEF Done
<1>2. QED
  BY <1>1, DoneLocal DEF Answer, TypeOK, GetHasId

LEMMA GetReplyType ==
    ASSUME TypeOK, NEW id \in Ids
    PROVE  GetReply(id) \in Replies
BY ReplyType DEF GetReply, TypeOK

LEMMA InitPInv == Init => PInv
<1>1. Done(Reply("none", None)) \in Local /\ Done(Reply("none", None)).pc = "idle"
  BY DoneLocal, ReplyType DEF Done
<1>2. QED
  BY <1>1 DEF Init, PInv, TypeOK, Fresh, EmptyMap, GetHasId

(* The abstract steps, stated over rows.                                  *)
LEMMA StoreCreateStep ==
    ASSUME NEW id \in Ids, NEW p \in Inputs, validate(p), rows[id] = None,
           rows' = [rows EXCEPT ![id] = Normalize(p)]
    PROVE  Store!Next
<1>1. Store!Create(id, p)
  BY DEF Store!Create, Store!validate, validate, Store!Normalize, Normalize,
         Store!AllowedDB, AllowedDB, Store!TrimSpace, TrimSpace,
         Store!ToLower, ToLower, Store!Blank, Blank
<1>2. QED
  BY <1>1 DEF Store!Next

LEMMA CreatePInv ==
    ASSUME PInv, NEW self \in Threads, NEW p \in Inputs, Create(self, p)
    PROVE  PInv' /\ [Store!Next]_rows
<1>1. th[self].pc = "idle"
  BY DEF Create
<1>2. CASE /\ UNCHANGED <<rows, issued>>
           /\ Answer(self, Reply("invalid", None)) \/ Answer(self, Reply("error", None))
  <2>1. Reply("invalid", None) \in Replies /\ Reply("error", None) \in Replies
    BY ReplyType
  <2>2. QED
    BY <1>2, <2>1, AnswerType DEF PInv, TypeOK, Fresh
<1>3. CASE /\ validate(p)
           /\ \E id \in Ids \ issued, o \in Outcomes :
                /\ issued' = issued \cup {id}
                /\ rows' = IF o = "fail" THEN rows
                           ELSE [rows EXCEPT ![id] = Normalize(p)]
                /\ Answer(self, IF o = "ok" THEN Reply("ok", Normalize(p))
                                ELSE Reply("error", None))
  <2>1. PICK id \in Ids \ issued, o \in Outcomes :
                /\ issued' = issued \cup {id}
                /\ rows' = IF o = "fail" THEN rows
                           ELSE [rows EXCEPT ![id] = Normalize(p)]
                /\ Answer(self, IF o = "ok" THEN Reply("ok", Normalize(p))
                                ELSE Reply("error", None))
    BY <1>3
  <2>2. Normalize(p) \in Profile
    BY <1>3, NormalizeGood
  <2>3. (IF o = "ok" THEN Reply("ok", Normalize(p)) ELSE Reply("error", None)) \in Replies
    BY <2>2, ReplyType
  <2>4. TypeOK' /\ GetHasId'
    BY <2>1, <2>2, <2>3, AnswerType DEF PInv, TypeOK
  <2>5. Fresh'
    BY <2>1 DEF PInv, TypeOK, Fresh
  <2>6. [Store!Next]_rows
    <3>1. CASE o = "fail"
      BY <2>1, <3>1
    <3>2. CASE o # "fail"
      BY <1>3, <2>1, <3>2, StoreCreateStep DEF PInv, Fresh
    <3>3. QED
      BY <3>1, <3>2
  <2>7. QED
    BY <2>4, <2>5, <2>6 DEF PInv
<1>4. QED
  <2>1. <1>2!1 \/ <1>3!1
    BY DEF Create
  <2>2. QED
    BY <1>2, <1>3, <2>1

(* A step that changes neither the table nor the ids drawn.               *)
LEMMA ReadStep ==
    ASSUME PInv, UNCHANGED <<rows, issued>>, th' \in [Threads -> Local], GetHasId'
    PROVE  PInv' /\ [Store!Next]_rows
BY DEF PInv, TypeOK, Fresh

LEMMA ListPInv ==
    ASSUME PInv, NEW self \in Threads, List(self)
    PROVE  PInv' /\ [Store!Next]_rows
<1>1. Reply("ok", None) \in Replies
  BY ReplyType
<1>2. QED
  BY <1>1, AnswerType, ReadStep DEF List, PInv

LEMMA GetPInv ==
    ASSUME PInv, NEW self \in Threads, NEW id \in Ids, Get(self, id)
    PROVE  PInv' /\ [Store!Next]_rows
<1>1. GetReply(id) \in Replies /\ Reply("error", None) \in Replies
  BY GetReplyType, ReplyType DEF PInv
<1>2. th' \in [Threads -> Local] /\ GetHasId'
  BY <1>1, AnswerType DEF Get, PInv
<1>3. QED
  BY <1>2, ReadStep DEF Get

LEMMA UpdateGetPInv ==
    ASSUME PInv, NEW self \in Threads, UpdateGet(self)
    PROVE  PInv' /\ [Store!Next]_rows
<1>1. th[self].id \in Ids
  BY DEF UpdateGet, PInv, GetHasId
<1>2. GetReply(th[self].id) \in Replies /\ Reply("error", None) \in Replies
  BY <1>1, GetReplyType, ReplyType DEF PInv
<1>3. th' \in [Threads -> Local] /\ GetHasId'
  BY <1>2, AnswerType DEF UpdateGet, PInv
<1>4. QED
  BY <1>3, ReadStep DEF UpdateGet

LEMMA RestartPInv ==
    ASSUME PInv, Restart
    PROVE  PInv' /\ [Store!Next]_rows
<1>1. Reply("none", None) \in Replies
  BY ReplyType
<1>2. Done(Reply("none", None)) \in Local /\ Done(Reply("none", None)).pc = "idle"
  BY <1>1, DoneLocal DEF Done
<1>3. QED
  BY <1>2, ReadStep DEF Restart, GetHasId

LEMMA DeletePInv ==
    ASSUME PInv, NEW self \in Threads, NEW id \in Ids, Delete(self, id)
    PROVE  PInv' /\ [Store!Next]_rows
<1>1. PICK o \in Outcomes :
        /\ rows' = IF o = "fail" THEN rows ELSE [rows EXCEPT ![id] = None]
        /\ Answer(self, CASE o = "ok" /\ rows[id] # None -> Reply("ok", None)
                          [] o = "ok" -> Reply("notfound", None)
                          [] OTHER -> Reply("error", None))
  BY DEF Delete
<1>2. issued' = issued
  BY DEF Delete
<1>3. (CASE o = "ok" /\ rows[id] # None -> Reply("ok", None)
         [] o = "ok" -> Reply("notfound", None)
         [] OTHER -> Reply("error", None)) \in Replies
  BY ReplyType
<1>4. TypeOK' /\ GetHasId'
  BY <1>1, <1>2, <1>3, AnswerType DEF PInv, TypeOK
<1>5. Fresh'
  BY <1>1, <1>2 DEF PInv, TypeOK, Fresh
<1>6. [Store!Next]_rows
  <2>1. CASE o = "fail" \/ rows[id] = None
    BY <1>1, <2>1 DEF PInv, TypeOK
  <2>2. CASE o # "fail" /\ rows[id] # None
    <3>1. Store!Delete(id)
      BY <1>1, <2>2 DEF Store!Delete
    <3>2. QED
      BY <3>1 DEF Store!Next
  <2>3. QED
    BY <2>1, <2>2
<1>7. QED
  BY <1>4, <1>5, <1>6 DEF PInv

LEMMA StoreUpdateStep ==
    ASSUME NEW id \in Ids, NEW p \in Inputs, validate(p), rows[id] # None,
           rows' = [rows EXCEPT ![id] = Normalize(p)]
    PROVE  Store!Next
<1>1. Store!Update(id, p)
  BY DEF Store!Update, Store!validate, validate, Store!Normalize, Normalize,
         Store!AllowedDB, AllowedDB, Store!TrimSpace, TrimSpace,
         Store!ToLower, ToLower, Store!Blank, Blank
<1>2. QED
  BY <1>1 DEF Store!Next

LEMMA UpdatePInv ==
    ASSUME PInv, NEW self \in Threads, NEW id \in Ids, NEW p \in Inputs,
           Update(self, id, p)
    PROVE  PInv' /\ [Store!Next]_rows
<1>1. issued' = issued
  BY DEF Update
<1>2. CASE ~validate(p)
  <2>1. rows' = rows /\ Answer(self, Reply("invalid", None))
    BY <1>2 DEF Update
  <2>2. Reply("invalid", None) \in Replies
    BY ReplyType
  <2>3. QED
    BY <1>1, <2>1, <2>2, AnswerType, ReadStep DEF PInv
<1>3. CASE validate(p)
  <2> DEFINE G == [pc |-> "get", id |-> id, val |-> Normalize(p),
                   reply |-> Reply("none", None)]
  <2>1. PICK o \in Outcomes :
          /\ rows' = IF o = "fail" \/ rows[id] = None THEN rows
                     ELSE [rows EXCEPT ![id] = Normalize(p)]
          /\ IF o = "ok" /\ rows[id] # None
             THEN th' = [th EXCEPT ![self] = G]
             ELSE Answer(self, IF o = "ok" THEN Reply("notfound", None)
                               ELSE Reply("error", None))
    BY <1>3 DEF Update
  <2>2. Normalize(p) \in Profile
    BY <1>3, NormalizeGood
  <2>3. G \in Local /\ G.pc = "get" /\ G.id \in Ids
    BY <2>2, ReplyType DEF Local
  <2>4. TypeOK' /\ GetHasId'
    <3>1. CASE o = "ok" /\ rows[id] # None
      <4>1. th' = [th EXCEPT ![self] = G]
        BY <2>1, <3>1
      <4>2. QED
        BY <1>1, <2>1, <2>2, <2>3, <4>1 DEF PInv, TypeOK, GetHasId
    <3>2. CASE ~(o = "ok" /\ rows[id] # None)
      <4>1. Answer(self, IF o = "ok" THEN Reply("notfound", None)
                         ELSE Reply("error", None))
        BY <2>1, <3>2
      <4>2. (IF o = "ok" THEN Reply("notfound", None) ELSE Reply("error", None)) \in Replies
        BY ReplyType
      <4>3. QED
        BY <1>1, <2>1, <2>2, <4>1, <4>2, AnswerType DEF PInv, TypeOK
    <3>3. QED
      BY <3>1, <3>2
  <2>5. Fresh'
    BY <1>1, <2>1 DEF PInv, TypeOK, Fresh
  <2>6. [Store!Next]_rows
    <3>1. CASE o = "fail" \/ rows[id] = None
      BY <2>1, <3>1
    <3>2. CASE ~(o = "fail" \/ rows[id] = None)
      BY <1>3, <2>1, <3>2, StoreUpdateStep
    <3>3. QED
      BY <3>1, <3>2
  <2>7. QED
    BY <2>4, <2>5, <2>6 DEF PInv
<1>4. QED
  BY <1>2, <1>3

LEMMA NextPInv == PInv /\ [Next]_vars => PInv' /\ [Store!Next]_rows
<1> SUFFICES ASSUME PInv, [Next]_vars PROVE PInv' /\ [Store!Next]_rows
  OBVIOUS
<1>1. ASSUME NEW self \in Threads, NEW p \in Inputs, Create(self, p)
      PROVE  PInv' /\ [Store!Next]_rows
  BY <1>1, CreatePInv
<1>2. ASSUME NEW self \in Threads, List(self)
      PROVE  PInv' /\ [Store!Next]_rows
  BY <1>2, ListPInv
<1>3. ASSUME NEW self \in Threads, NEW id \in Ids, Get(self, id)
      PROVE  PInv' /\ [Store!Next]_rows
  BY <1>3, GetPInv
<1>4. ASSUME NEW self \in Threads, NEW id \in Ids, Delete(self, id)
      PROVE  PInv' /\ [Store!Next]_rows
  BY <1>4, DeletePInv
<1>5. ASSUME NEW self \in Threads, NEW id \in Ids, NEW p \in Inputs, Update(self, id, p)
      PROVE  PInv' /\ [Store!Next]_rows
  BY <1>5, UpdatePInv
<1>6. ASSUME NEW self \in Threads, UpdateGet(self)
      PROVE  PInv' /\ [Store!Next]_rows
  BY <1>6, UpdateGetPInv
<1>7. CASE Restart
  BY <1>7, RestartPInv
<1>8. CASE UNCHANGED vars
  BY <1>8 DEF vars, PInv, TypeOK, Fresh, GetHasId
<1>9. QED
  BY <1>1, <1>2, <1>3, <1>4, <1>5, <1>6, <1>7, <1>8 DEF Next

(***************************************************************************)
(* For every set of requests, ids and bodies: every state of PGService    *)
(* is well typed (the table holds profiles, each request's locals fit).   *)
(***************************************************************************)
THEOREM TypeCorrect == Spec => []TypeOK
<1>1. PInv => TypeOK
  BY DEF PInv
<1>2. QED
  BY <1>1, InitPInv, NextPInv, PTL DEF Spec

(***************************************************************************)
(* For every set of requests, ids and bodies: PGService implements the    *)
(* profile store.  Its initial table is empty, every statement of Create, *)
(* Update and Delete is a step of the abstract table, whatever it answers *)
(* and whatever other requests did between the statements of an Update,  *)
(* and every other step leaves the table alone.                           *)
(***************************************************************************)
THEOREM Refinement == Spec => ImplementsStore
<1>1. Init => Store!Init
  BY DEF Init, Store!Init, EmptyMap, Store!EmptyMap
<1>2. QED
  BY <1>1, InitPInv, NextPInv, PTL DEF Spec, ImplementsStore, Store!Spec

=============================================================================
