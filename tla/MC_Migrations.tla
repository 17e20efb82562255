---------------------------- MODULE MC_Migrations ----------------------------
(* Two concurrent requests, two migration files and one name MarkApplied  *)
(* rejects.                                                                *)
EXTENDS Migrations, TLC

CONSTANTS r1, r2, m1, m2, bad

MCThreads == {r1, r2}
MCNames == {m1, m2}
MCRequests == {m1, m2, bad}

Symmetry == Permutations(MCThreads)
=============================================================================
