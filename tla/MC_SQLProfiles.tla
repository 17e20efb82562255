---------------------------- MODULE MC_SQLProfiles ----------------------------
(* Three ids and five request bodies: a plain valid one, a valid one that  *)
(* needs trimming and lower-casing at the port's upper bound, and three    *)
(* that validate rejects (port one past the bound, an unknown db_type, a   *)
(* blank name).                                                            *)
EXTENDS SQLProfiles, TLC

CONSTANTS i1, i2, i3

MCIds == {i1, i2, i3}

W == [blank |-> FALSE, pad |-> FALSE]

Plain == [name |-> W, dbType |-> [word |-> "mysql", upper |-> FALSE, pad |-> FALSE],
          host |-> W, port |-> 1, database |-> W, commands |-> W]

Padded == [Plain EXCEPT !.name = [blank |-> FALSE, pad |-> TRUE],
                        !.dbType = [word |-> "pgsql", upper |-> TRUE, pad |-> TRUE],
                        !.host = [blank |-> FALSE, pad |-> TRUE],
                        !.port = 65535]

MCInputs == {Plain, Padded,
             [Plain EXCEPT !.port = 65536],
             [Plain EXCEPT !.dbType = [word |-> "oracle", upper |-> FALSE, pad |-> FALSE]],
             [Plain EXCEPT !.name = [blank |-> TRUE, pad |-> TRUE]]}

Symmetry == Permutations(MCIds)
=============================================================================
