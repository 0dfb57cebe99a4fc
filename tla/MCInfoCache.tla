---------------------------- MODULE MCInfoCache ----------------------------
(* Two accounts, one of them new to guard; a width in which three lost      *)
(* games pass below 0.                                                      *)
EXTENDS InfoCache

CONSTANTS u1, u2

MCUser  == {u1, u2}
MCKnown == {u1}
=============================================================================
