---------------------------- MODULE MCClientSound ----------------------------
(* ClientSound with small constants for TLC. *)
EXTENDS ClientSound

MCGrades == {<<1, 1>>, <<2, 5>>}
MCLevels == {<<1, 1>>, <<3, 5>>}
=============================================================================
