------------------------------ MODULE MCMail ------------------------------
(* Two users, one of them an admin, and a hostbot; boxes of one mail.       *)
EXTENDS Mail

CONSTANTS u1, u2

MCUser  == {u1, u2}
MCAdmin == {u1}
===========================================================================
