---------------------------- MODULE MCChallenge ----------------------------
(* Six players and two picks per captain: the smallest draft in which a     *)
(* captain picks twice in a row.  Two players may be captains, the others   *)
(* have level 1.  Only the challenge commands (8) are enabled.              *)
EXTENDS Challenge, TLC

CONSTANTS a, b, c, d, e, f

MCPlayer   == {a, b, c, d, e, f}
MCLvl      == [u \in MCPlayer |-> IF u \in {a, b} THEN 2 ELSE 1]
MCRankPass == MCPlayer \X MCPlayer
MCCommands == {8}
MCSymmetry == Permutations({a, b}) \cup Permutations({c, d, e, f})

\* At most one observer at a time, who gives his slot back at most once
\* between two resets of the table.
MCBound == Cardinality(Taken(ObsSlots)) <= 1 /\ meplayppl \in {0, Word - 1}
=============================================================================
