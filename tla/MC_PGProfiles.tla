---------------------------- MODULE MC_PGProfiles ----------------------------
(* Two requests, two ids, and three request bodies: a plain valid one, a  *)
(* valid one that needs trimming and lower-casing, and one whose port is  *)
(* one past the bound.  Two ids let one request update a profile while    *)
(* the other creates, and two valid bodies make two updates of one id     *)
(* distinguishable.                                                       *)
EXTENDS PGProfiles, TLC

CONSTANTS t1, t2, i1, i2

MCThreads == {t1, t2}
MCIds == {i1, i2}

W == [blank |-> FALSE, pad |-> FALSE]

Plain == [name |-> W, dbType |-> [word |-> "mysql", upper |-> FALSE, pad |-> FALSE],
          host |-> W, port |-> 1, database |-> W, commands |-> W]

Padded == [Plain EXCEPT !.name = [blank |-> FALSE, pad |-> TRUE],
                        !.dbType = [word |-> "pgsql", upper |-> TRUE, pad |-> TRUE],
                        !.port = 65535]

MCInputs == {Plain, Padded, [Plain EXCEPT !.port = 65536]}

Symmetry == Permutations(MCThreads) \cup Permutations(MCIds)
=============================================================================
