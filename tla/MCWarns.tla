------------------------------ MODULE MCWarns ------------------------------
(* Two users, one of whom is of the level of the admins and cannot be warned. *)
EXTENDS Warns

CONSTANTS u1, u2

MCUser   == {u1, u2}
MCWarned == {u1}
===========================================================================
