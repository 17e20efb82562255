----------------------------- MODULE MC_UserFile ------------------------------
(* Two change-password requests and three passwords: the bootstrap one and *)
(* two a client may change to, so that two changes in a row, and a change  *)
(* back to an earlier password, both happen.                               *)
EXTENDS UserFile, TLC

CONSTANTS t1, t2, boot, pw1, pw2

MCThreads == {t1, t2}
MCPasswords == {boot, pw1, pw2}
=============================================================================
