---------------------------- MODULE MCHosting ----------------------------
(* One hostbot, which may stand in the pool twice and in two spellings, and *)
(* ids that wrap around after two games.                                    *)
EXTENDS Hosting

CONSTANTS b1, B1, o1

MCBot   == {b1}
MCAlias == {B1}
MCLower == [n \in MCBot \cup MCAlias |-> b1]
==========================================================================
