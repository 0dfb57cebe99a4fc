------------------------------ MODULE MCTable ------------------------------
(* Both ways to a game together, with every command of the module enabled   *)
(* and the players an admin, a captain and a player of level 1 from abroad: *)
(* too few for a draft, enough to reserve, host, hold, challenge, sign and  *)
(* clear in every order.                                                    *)
EXTENDS Challenge, TLC

CONSTANTS admin, cap, guest

MCPlayer   == {admin, cap, guest}
MCLvl      == (admin :> 4) @@ (cap :> 2) @@ (guest :> 1)
MCRankPass == MCPlayer \X MCPlayer
MCForeign  == {guest}
MCCommands == {7, 8, 10, 18, 38, 39, 84}

\* At most two seats are taken, the counter makes at most one step below
\* zero, and of the minima .minslots can set two are followed.
MCBound ==
  /\ Cardinality(Taken(PlayerSlots)) <= 2 /\ Cardinality(Taken(ObsSlots)) <= 1
  /\ meplayppl \in {0, 1, 2, Word - 1}
  /\ ReservesNeeded \in {2, 5}
=============================================================================
