------------------------------- MODULE Draft -------------------------------
(***************************************************************************)
(* What a challenge promises to the two captains, with everything about    *)
(* commands, chat events and slots left out: somebody proposes, somebody   *)
(* answers, the captains pick TeamPicks players each, and the challenge    *)
(* may end at any moment.  Picks go in snake order: the team that is       *)
(* behind picks, and on a tie the team that picked last picks again.       *)
(* Challenge.tla implements this specification.                            *)
(***************************************************************************)
EXTENDS Integers

CONSTANT TeamPicks      \* players each captain picks (4 in the program)

VARIABLES
  phase,                \* how far the challenge has come
  team,                 \* team[c]: players captain c has picked so far
  turn                  \* the captain who picks next

vars == <<phase, team, turn>>

Captain == {1, 2}
Phase   == {"idle", "proposed", "signing", "picking"}
Other(c) == 3 - c
NoPicks  == [c \in Captain |-> 0]

Init ==
  /\ phase = "idle"
  /\ team = NoPicks
  /\ turn = 1

Propose ==
  /\ phase = "idle"
  /\ phase' = "proposed"
  /\ UNCHANGED <<team, turn>>

Answer ==
  /\ phase = "proposed"
  /\ phase' = "signing"
  /\ UNCHANGED <<team, turn>>

\* The first picker is drawn at random.
StartPick ==
  /\ phase = "signing"
  /\ phase' = "picking"
  /\ turn' \in Captain
  /\ UNCHANGED team

Pick ==
  /\ phase = "picking"
  /\ team[turn] < TeamPicks
  /\ team' = [team EXCEPT ![turn] = @ + 1]
  /\ turn' = IF team'[1] = team'[2] THEN turn ELSE Other(turn)
  /\ UNCHANGED phase

End ==
  /\ phase /= "idle"
  /\ phase' = "idle"
  /\ team' = NoPicks
  /\ turn' = 1

Next == Propose \/ Answer \/ StartPick \/ Pick \/ End

Spec == Init /\ [][Next]_vars
=============================================================================
