------------------------------ MODULE PGProfiles ------------------------------
(***************************************************************************)
(* PGService (internal/sqlprofile/service_postgres.go) serving concurrent *)
(* HTTP requests.  Each SQL statement is one atomic step of the table     *)
(* rows: Postgres runs it in its own implicit transaction.  Update is two *)
(* statements, the UPDATE and then the SELECT of Get, and another request *)
(* may run between them.                                                  *)
(*                                                                         *)
(* A statement may commit and answer, fail without committing, or commit  *)
(* and still return an error (the connection drops before the reply, or   *)
(* RowsAffected fails): Outcomes.  generateID draws 12 random bytes; two  *)
(* draws are taken to differ, so an id is drawn from Ids \ issued.  A      *)
(* restart of the process loses the requests in flight; rows stay.        *)
(***************************************************************************)
EXTENDS ProfileData

CONSTANT Threads    \* goroutines serving /v1/sql-profiles requests

VARIABLES
    rows,       \* table sql_profiles: id |-> profile, or None
    th,         \* per request: pc, the id and value of an Update, last reply
    issued      \* history: ids generateID has returned

vars == <<rows, th, issued>>

Outcomes == {"ok", "fail", "lost"}

Reply(kind, val) == [kind |-> kind, val |-> val]
Replies == [kind : {"none", "ok", "notfound", "invalid", "error"},
            val : Profile \cup {None}]

Local == [pc : {"idle", "get"}, id : Ids \cup {None},
          val : Profile \cup {None}, reply : Replies]

(* A request that has returned reply r (handlers answer and the goroutine *)
(* ends).                                                                 *)
Done(r) == [pc |-> "idle", id |-> None, val |-> None, reply |-> r]

(* NewPGService: ensureSchema on an empty table; no request yet.          *)
Init ==
    /\ rows = EmptyMap
    /\ th = [t \in Threads |-> Done(Reply("none", None))]
    /\ issued = {}

Answer(self, r) == th' = [th EXCEPT ![self] = Done(r)]

(* Get: ErrNotFound when the SELECT finds no row, an error when it fails. *)
GetReply(id) ==
    IF rows[id] = None THEN Reply("notfound", None) ELSE Reply("ok", rows[id])

(* Create: validate, generateID, normalise, INSERT.                       *)
Create(self, p) ==
    /\ th[self].pc = "idle"
    /\ \/ /\ ~validate(p)
          /\ Answer(self, Reply("invalid", None))
          /\ UNCHANGED <<rows, issued>>
       \/ /\ validate(p)
          /\ Answer(self, Reply("error", None))     \* generateID failed
          /\ UNCHANGED <<rows, issued>>
       \/ /\ validate(p)
          /\ \E id \in Ids \ issued, o \in Outcomes :
                /\ issued' = issued \cup {id}
                /\ rows' = IF o = "fail" THEN rows
                           ELSE [rows EXCEPT ![id] = Normalize(p)]
                /\ Answer(self, IF o = "ok" THEN Reply("ok", Normalize(p))
                                ELSE Reply("error", None))

(* List: one SELECT; a failed query returns nil.  Nothing changes.        *)
List(self) ==
    /\ th[self].pc = "idle"
    /\ Answer(self, Reply("ok", None))
    /\ UNCHANGED <<rows, issued>>

(* Get as a request of its own.                                           *)
Get(self, id) ==
    /\ th[self].pc = "idle"
    /\ \/ Answer(self, GetReply(id))
       \/ Answer(self, Reply("error", None))
    /\ UNCHANGED <<rows, issued>>

(* Mutant of Update: the request body is not validated.                   *)
UpdateSkipValidate(self, id, p) ==
    /\ th[self].pc = "idle"
    /\ \E o \in Outcomes :
          /\ rows' = IF o = "fail" \/ rows[id] = None THEN rows
                     ELSE [rows EXCEPT ![id] = Normalize(p)]
          /\ IF o = "ok" /\ rows[id] # None
             THEN th' = [th EXCEPT ![self] = [pc |-> "get", id |-> id,
                                              val |-> Normalize(p),
                                              reply |-> Reply("none", None)]]
             ELSE Answer(self, IF o = "ok" THEN Reply("notfound", None)
                               ELSE Reply("error", None))
    /\ UNCHANGED issued

(* Update: validate, normalise, the UPDATE statement and its affected-row *)
(* count; when a row was changed, the Get of UpdateGet follows.           *)
Update(self, id, p) ==
    /\ th[self].pc = "idle"
    /\ \/ /\ ~validate(p)
          /\ Answer(self, Reply("invalid", None))
          /\ UNCHANGED rows
       \/ /\ validate(p)
          /\ \E o \in Outcomes :
                /\ rows' = IF o = "fail" \/ rows[id] = None THEN rows
                           ELSE [rows EXCEPT ![id] = Normalize(p)]
                /\ IF o = "ok" /\ rows[id] # None
                   THEN th' = [th EXCEPT ![self] = [pc |-> "get", id |-> id,
                                                    val |-> Normalize(p),
                                                    reply |-> Reply("none", None)]]
                   ELSE Answer(self, IF o = "ok" THEN Reply("notfound", None)
                                     ELSE Reply("error", None))
    /\ UNCHANGED issued

(* return s.Get(id) at the end of Update.                                 *)
UpdateGet(self) ==
    /\ th[self].pc = "get"
    /\ \/ Answer(self, GetReply(th[self].id))
       \/ Answer(self, Reply("error", None))
    /\ UNCHANGED <<rows, issued>>

(* Delete: the DELETE statement and its affected-row count.               *)
Delete(self, id) ==
    /\ th[self].pc = "idle"
    /\ \E o \in Outcomes :
          /\ rows' = IF o = "fail" THEN rows ELSE [rows EXCEPT ![id] = None]
          /\ Answer(self, CASE o = "ok" /\ rows[id] # None -> Reply("ok", None)
                            [] o = "ok" -> Reply("notfound", None)
                            [] OTHER -> Reply("error", None))
    /\ UNCHANGED issued

(* The process stops and starts again; the database keeps its rows.       *)
Restart ==
    /\ th' = [t \in Threads |-> Done(Reply("none", None))]
    /\ UNCHANGED <<rows, issued>>

Next ==
    \/ \E self \in Threads :
          \/ \E p \in Inputs : Create(self, p)
          \/ List(self)
          \/ \E id \in Ids : Get(self, id) \/ Delete(self, id)
          \/ \E id \in Ids, p \in Inputs : Update(self, id, p)
          \/ UpdateGet(self)
    \/ Restart

Spec == Init /\ [][Next]_vars

-----------------------------------------------------------------------------
TypeOK ==
    /\ rows \in [Ids -> Profile \cup {None}]
    /\ th \in [Threads -> Local]
    /\ issued \subseteq Ids

Store == INSTANCE ProfileStore WITH table <- rows

(***************************************************************************)
(* PGService implements the profile store: every statement of Create,     *)
(* Update and Delete, whatever it answers, is a step of the abstract      *)
(* table (a fresh id, a valid normalised body, a row that exists), and    *)
(* List, Get, the Get of Update and restarts change nothing.              *)
(***************************************************************************)
ImplementsStore == Store!Spec

(***************************************************************************)
(* Update answers what it wrote: when the SELECT after its UPDATE returns, *)
(* the reply is the profile this request stored (or an error), as the     *)
(* file-backed Service.Update returns the value it wrote under its lock.  *)
(***************************************************************************)
UpdateReturnsOwnWrite ==
    [][\A t \in Threads :
         th[t].pc = "get" /\ th'[t].pc = "idle" =>
            th'[t].reply \in {Reply("ok", th[t].val), Reply("error", None),
                              Reply("none", None)}]_vars

=============================================================================
