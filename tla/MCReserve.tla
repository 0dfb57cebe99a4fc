----------------------------- MODULE MCReserve -----------------------------
(* The way to a game other than a challenge: a table of six player slots,   *)
(* an admin of level 4, who may host at any time, and five players of       *)
(* level 1: together just enough to fill the table.                         *)
EXTENDS Challenge, TLC

CONSTANTS a, b, c, d, e, h

MCPlayer   == {a, b, c, d, e, h}
MCLvl      == [u \in MCPlayer |-> IF u = h THEN 4 ELSE 1]
MCRankPass == MCPlayer \X MCPlayer
MCSymmetry == Permutations(MCPlayer \ {h})

MCCommands == {7, 10}            \* res, priv
=============================================================================
