----------------------------- MODULE ProfileData -----------------------------
(***************************************************************************)
(* The data of the SQL profile services (internal/sqlprofile): a profile, *)
(* validate, and the normalisation both Create and Update apply.  Shared  *)
(* by the file-backed Service, PGService and the abstract store.          *)
(*                                                                         *)
(* Text fields are abstracted to what validate and the normalisation look *)
(* at: whether the trimmed text is empty, whether it carries surrounding  *)
(* white space, and for db_type the lower-cased word and whether it has   *)
(* upper-case letters.  Timestamps, username and use_ssl are not looked   *)
(* at by any check and are left out.                                      *)
(***************************************************************************)
EXTENDS Integers

CONSTANTS
    Ids,        \* values generateID can return
    Inputs,     \* request bodies a client may send
    None        \* no profile under an id

(* A piece of text: whether it is only white space (TrimSpace gives "")   *)
(* and whether it carries leading or trailing white space.                *)
Text == [blank : BOOLEAN, pad : BOOLEAN]
DBWords == {"mysql", "mssql", "pgsql", "oracle"}
DBText == [word : DBWords, upper : BOOLEAN, pad : BOOLEAN]
Ports == {0, 1, 65535, 65536}

Profile == [name : Text, dbType : DBText, host : Text, port : Ports,
            database : Text, commands : Text]

ASSUME InputsAssumption == Inputs \subseteq Profile
ASSUME NoneAssumption == None \notin Profile

(* strings.TrimSpace, strings.ToLower and the test TrimSpace(x) == "".    *)
TrimSpace(t) == [t EXCEPT !.pad = FALSE]
ToLower(d) == [d EXCEPT !.upper = FALSE]
Blank(t) == t.blank

(* allowedDBTypes: the exact lower-case names, after TrimSpace/ToLower.   *)
AllowedDB(d) == d.word \in {"mysql", "mssql", "pgsql"} /\ ~d.upper /\ ~d.pad

validate(p) ==
    /\ ~Blank(p.name)
    /\ AllowedDB(ToLower(TrimSpace(p.dbType)))
    /\ ~Blank(p.host)
    /\ p.port > 0 /\ p.port <= 65535
    /\ ~Blank(p.database)
    /\ ~Blank(p.commands)

(* Mutant of Normalize: the name is set from the trimmed db_type string.   *)
NormalizeSwapped(p) == [p EXCEPT !.name = TrimSpace(p.dbType),
                                 !.dbType = ToLower(TrimSpace(p.dbType))]

(* The fields Create and Update rewrite: trimmed name, lower-cased db_type. *)
Normalize(p) == [p EXCEPT !.name = TrimSpace(p.name),
                          !.dbType = ToLower(TrimSpace(p.dbType))]

EmptyMap == [i \in Ids |-> None]

=============================================================================
