-------------------------- MODULE ProfileData_proofs --------------------------
(***************************************************************************)
(* Facts about validate and Normalize that both profile services use.     *)
(***************************************************************************)
EXTENDS ProfileData, TLAPS

(* A profile that passed validate and is normalised.                      *)
GoodProfile(q) == validate(q) /\ ~q.name.pad /\ AllowedDB(q.dbType)

(* Normalize of a valid body is a valid, normalised Profile: TrimSpace    *)
(* and ToLower are idempotent and keep what validate looks at.            *)
LEMMA NormalizeGood ==
    ASSUME NEW p \in Profile, validate(p)
    PROVE  Normalize(p) \in Profile /\ GoodProfile(Normalize(p))
<1> DEFINE q == Normalize(p)
           d == ToLower(TrimSpace(p.dbType))
<1>1. TrimSpace(p.name) \in Text /\ ~TrimSpace(p.name).pad
      /\ TrimSpace(p.name).blank = p.name.blank
  BY DEF Profile, Text, TrimSpace
<1>2. d \in DBText /\ ToLower(TrimSpace(d)) = d
  BY DEF Profile, DBText, TrimSpace, ToLower
<1>3. q \in Profile
  BY <1>1, <1>2 DEF Normalize, Profile
<1>4. /\ q.name = TrimSpace(p.name) /\ q.dbType = d
      /\ q.host = p.host /\ q.port = p.port
      /\ q.database = p.database /\ q.commands = p.commands
  BY DEF Normalize, Profile
<1>5. AllowedDB(d)
  BY DEF validate
<1>6. validate(q)
  <2>1. ~Blank(q.name)
    BY <1>1, <1>4 DEF validate, Blank
  <2>2. AllowedDB(ToLower(TrimSpace(q.dbType)))
    BY <1>2, <1>4, <1>5
  <2>3. ~Blank(q.host) /\ ~Blank(q.database) /\ ~Blank(q.commands)
    BY <1>4 DEF validate, Blank
  <2>4. q.port > 0 /\ q.port <= 65535
    BY <1>4 DEF validate
  <2>5. QED
    BY <2>1, <2>2, <2>3, <2>4 DEF validate
<1>7. QED
  BY <1>1, <1>3, <1>4, <1>5, <1>6 DEF GoodProfile

=============================================================================
