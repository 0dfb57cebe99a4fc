-------------------------- MODULE ChallengeProofs --------------------------
(* Theorems about the challenge for every set of players, every pool limit  *)
(* and every (even) number of picks.  The inductive invariant IInv is in    *)
(* Challenge.tla; its parts are preserved one by one below.                 *)
EXTENDS Challenge, FiniteSetTheorems, TLAPS

---------------------------------------------------------------------------
(* Facts about the operators.                                              *)

\* The slots as intervals, and the captains' slots as none of the teams'.
LEMMA SlotFacts ==
  /\ PlayerSlots \subseteq Slots /\ ObsSlots \subseteq Slots
  /\ PickSlots \subseteq PlayerSlots
  /\ PickSlots1 \cap PickSlots2 = {} /\ PickSlots \cap ObsSlots = {}
  /\ 0 \in Slots /\ 0 \notin PickSlots
  /\ Slots \subseteq Nat
BY TeamAssumption DEF PlayerSlots, ObsSlots, Slots, PickSlots, PickSlots1, PickSlots2, LastSlot

\* holdpicked of ResetChallenge signs nobody: the held player is in the slot.
LEMMA NobodyHeldBack == ASSUME NEW h PROVE HeldBack(h) = {}
BY SlotFacts DEF HeldBack, IsInPool, InSlots

\* Counters stay in uint32_t.
LEMMA WordFacts ==
  ASSUME NEW n \in 0 .. Word - 1
  PROVE  Inc(n) \in 0 .. Word - 1 /\ Dec(n) \in 0 .. Word - 1 /\ 0 \in 0 .. Word - 1
BY WordAssumption, TeamAssumption DEF Inc, Dec

\* Clearing a player's first slot gives a table again, and only clears.
LEMMA ClearFirstFacts ==
  ASSUME NEW table \in [Slots -> Names], NEW u
  PROVE  /\ ClearFirst(table, u) \in [Slots -> Names]
         /\ \A s \in Slots : ClearFirst(table, u)[s] \in {table[s], None}
BY DEF ClearFirst, Names

\* Resets leave a table with the player slots empty.
LEMMA ResetFacts ==
  ASSUME slots \in [Slots -> Names], NEW r \in BOOLEAN
  PROVE  /\ SlotsReset(r) \in [Slots -> Names]
         /\ \A s \in PlayerSlots : SlotsReset(r)[s] = None
BY TeamAssumption DEF SlotsReset, Names, PlayerSlots, ObsSlots, LastSlot, Slots

\* An observer takes an observer slot.
LEMMA ObsSlotFree ==
  ASSUME SlotsOf(None, ObsSlots) /= {}
  PROVE  First(SlotsOf(None, ObsSlots)) \in ObsSlots
<1> DEFINE S == SlotsOf(None, ObsSlots)
<1>1. \E s \in S : \A t \in S : s <= t
  BY TeamAssumption DEF SlotsOf, ObsSlots, LastSlot
<1>2. First(S) \in S
  BY <1>1 DEF First
<1> QED BY <1>2 DEF SlotsOf

---------------------------------------------------------------------------
(* Type correctness.                                                       *)

\* What ResetChallenge keeps of the types, whoever calls it.
LEMMA ResetTypes ==
  ASSUME TypeOK, NEW r \in BOOLEAN, NEW h \in BOOLEAN, NEW g \in BOOLEAN, ResetChallenge(r, h, g)
  PROVE  TypeOK'
<1>1. slots' \in [Slots -> Names]
  BY ResetFacts DEF TypeOK, ResetChallenge, ClearTable
<1>2. signed' = signed
  BY NobodyHeldBack DEF ResetChallenge
<1>3. meplayppl' \in 0 .. Word - 1
  BY WordAssumption, TeamAssumption DEF ResetChallenge, ClearTable
<1>4. Challenge' \in BOOLEAN /\ ChallengeStep' \in 0..4
  <2>1. CASE EndsChallenge(g)
    <3>1. Challenge' = FALSE /\ ChallengeStep' = 0
      BY <2>1 DEF ResetChallenge, ForgetChallenge
    <3>2. Challenge' \in BOOLEAN
      BY <3>1, Zenon
    <3> QED BY <3>1, <3>2
  <2>2. CASE ~EndsChallenge(g)
    <3>1. Challenge' = Challenge /\ ChallengeStep' = ChallengeStep
      BY <2>2 DEF ResetChallenge, ForgetChallenge, chalVars
    <3> QED BY <3>1 DEF TypeOK
  <2> QED BY <2>1, <2>2
<1>5. Challenger' \in Player \cup {None} /\ Challenged' \in Player \cup {None}
  BY DEF ResetChallenge, ForgetChallenge, chalVars, TypeOK
<1>6. /\ FreeReady' \in BOOLEAN /\ meplayon' \in BOOLEAN
      /\ holdslots' \in BOOLEAN /\ SignLock' \in BOOLEAN
  BY DEF ResetChallenge, ClearTable
<1>7. UNCHANGED <<users, ReservesNeeded, PickUser, PickStep, holdnumb1, holdnumb2>>
  BY DEF ResetChallenge, ClearTable, draftVars
<1> QED BY <1>1, <1>2, <1>3, <1>4, <1>5, <1>6, <1>7 DEF TypeOK

\* Init establishes the types.
LEMMA TypeInit == Init => TypeOK
<1> SUFFICES ASSUME Init PROVE TypeOK
  OBVIOUS
<1>1. slots \in [Slots -> Names]
  BY DEF Init, Names
<1>2. meplayppl \in 0 .. Word - 1 /\ PickStep \in 1 .. 2 * TeamPicks + 1
  BY WordAssumption, TeamAssumption DEF Init
<1>3. holdnumb1 \in Nat /\ holdnumb2 \in Nat /\ PickUser \in {0, 1} /\ ReservesNeeded \in Nat
  BY TeamAssumption DEF Init
<1>4. /\ FreeReady \in BOOLEAN /\ meplayon \in BOOLEAN
      /\ holdslots \in BOOLEAN /\ SignLock \in BOOLEAN /\ Challenge \in BOOLEAN
  BY Zenon DEF Init
<1>5. users \subseteq Player /\ signed \subseteq users
  BY DEF Init
<1>6. ChallengeStep \in 0..4 /\ Challenger \in Player \cup {None} /\ Challenged \in Player \cup {None}
  BY DEF Init
<1> QED BY <1>1, <1>2, <1>3, <1>4, <1>5, <1>6 DEF TypeOK

\* A step of any handler keeps the types.
LEMMA TypeStep == TypeOK /\ [Next]_vars => TypeOK'
<1> SUFFICES ASSUME TypeOK, [Next]_vars PROVE TypeOK'
  OBVIOUS
<1> USE DEF resVars, chalVars, draftVars
<1>1. ASSUME NEW u \in Player, Join(u) PROVE TypeOK'
  BY <1>1 DEF TypeOK, Join
<1>2. ASSUME NEW u \in Player, Leave(u), Challenge /\ IsCaptain(u) PROVE TypeOK'
  <2>1. CaptainLeaves(u) /\ users' = users \ {u} /\ UNCHANGED draftVars
    BY <1>2 DEF Leave
  <2>2. slots' \in [Slots -> Names]
    BY <2>1, ResetFacts, ClearFirstFacts DEF CaptainLeaves, TypeOK
  <2>3. meplayppl' \in 0 .. Word - 1
    <3>1. Dec(0) \in 0 .. Word - 1 /\ 0 \in 0 .. Word - 1
      BY WordFacts, WordAssumption, TeamAssumption
    <3> QED BY <2>1, <3>1 DEF CaptainLeaves
  <2>4. signed' = signed \ {u}
    BY <2>1, NobodyHeldBack DEF CaptainLeaves, UnSign
  <2>5. Challenge' \in BOOLEAN /\ ChallengeStep' = 0 /\ Challenger' = None /\ Challenged' = None
    BY <2>1, Zenon DEF CaptainLeaves, ForgetChallenge, EndsChallenge
  <2>6. /\ FreeReady' \in BOOLEAN /\ meplayon' \in BOOLEAN
        /\ holdslots' \in BOOLEAN /\ SignLock' \in BOOLEAN
        /\ ReservesNeeded' = ReservesNeeded
    BY <2>1 DEF CaptainLeaves
  <2> QED BY <2>1, <2>2, <2>3, <2>4, <2>5, <2>6 DEF TypeOK
<1>3. ASSUME NEW u \in Player, Leave(u), ~(Challenge /\ IsCaptain(u)) PROVE TypeOK'
  <2>1. MemberLeaves(u) /\ users' = users \ {u} /\ UNCHANGED draftVars
    BY <1>3 DEF Leave
  <2>2. slots' \in [Slots -> Names] /\ meplayppl' \in 0 .. Word - 1
    BY <2>1, ClearFirstFacts, WordFacts DEF MemberLeaves, TypeOK
  <2>3. signed' = signed \ {u}
    BY <2>1 DEF MemberLeaves, UnSign
  <2> QED BY <2>1, <2>2, <2>3 DEF MemberLeaves, TypeOK
<1>4. ASSUME NEW u \in Player, Res(u) PROVE TypeOK'
  <2>1. ResSlots(u) \in [Slots -> Names]
    BY DEF ResSlots, TypeOK, Names
  <2>2. slots' \in [Slots -> Names]
    <3>1. CASE slots' = ResSlots(u)
      BY <2>1, <3>1
    <3>2. CASE slots' = [s \in Slots |-> IF s \in PlayerSlots THEN None ELSE slots[s]]
      BY <3>2 DEF Names, TypeOK
    <3> QED BY <1>4, <3>1, <3>2 DEF Res
  <2>3. ResCount(u) \in 0 .. Word - 1
    BY WordFacts DEF ResCount, TypeOK
  <2>4. FreeReady' \in BOOLEAN
    BY <1>4 DEF Res, Enough
  <2>5. SignLock' \in BOOLEAN
    BY <1>4 DEF Res, TypeOK
  <2>6. /\ holdslots' = TRUE /\ meplayppl' = ResCount(u)
        /\ UNCHANGED <<users, signed, ReservesNeeded, meplayon, chalVars, draftVars>>
    BY <1>4 DEF Res
  <2> QED BY <2>2, <2>3, <2>4, <2>5, <2>6 DEF TypeOK
<1>5. ASSUME NEW u \in Player, HostCommand(u) PROVE TypeOK'
  BY <1>5 DEF HostCommand, TypeOK, Names
<1>6. ASSUME NEW u \in Player, NEW v \in Player, NEW s \in Slots, Hold(u, v, s) PROVE TypeOK'
  BY <1>6 DEF Hold, TypeOK, Names
<1>7. ASSUME NEW u \in Player, ClrSlots(u) \/ ClrObs(u) PROVE TypeOK'
  BY <1>7 DEF ClrSlots, ClrObs, TypeOK, Names
<1>8. ASSUME NEW u \in Player, NEW n \in 1 .. 2 * TeamPicks + 2, MinSlots(u, n) PROVE TypeOK'
  BY <1>8, TeamAssumption DEF MinSlots, TypeOK
<1>9. ASSUME NEW u \in Player, NEW o \in Player \cup {None}, Propose(u, o) PROVE TypeOK'
  <2>1. slots' \in [Slots -> Names]
    BY <1>9, ResetFacts DEF TypeOK, Propose, ClearTable
  <2>2. signed' = signed \ {u}
    BY <1>9, NobodyHeldBack DEF Propose, UnSign
  <2>3. meplayppl' \in 0 .. Word - 1
    BY <1>9, WordAssumption, TeamAssumption DEF Propose, ClearTable
  <2>4. /\ FreeReady' \in BOOLEAN /\ meplayon' \in BOOLEAN /\ holdslots' \in BOOLEAN
        /\ SignLock' \in BOOLEAN /\ Challenge' \in BOOLEAN
    BY <1>9 DEF Propose, ClearTable
  <2>5. /\ ChallengeStep' \in 0..4 /\ Challenger' = u /\ Challenged' = o
        /\ UNCHANGED <<users, ReservesNeeded, draftVars>>
    BY <1>9 DEF Propose, ClearTable
  <2> QED BY <2>1, <2>2, <2>3, <2>4, <2>5 DEF TypeOK
<1>10. ASSUME NEW u \in Player, ChallengeCommand(u) PROVE TypeOK'
  BY <1>9, <1>10 DEF ChallengeCommand, UnSign, TypeOK
<1>11. ASSUME NEW u \in Player, Refuse(u) \/ Abort(u) PROVE TypeOK'
  BY <1>11, ResetTypes DEF Refuse, Abort
<1>12. ASSUME NEW u \in Player, Accept(u) PROVE TypeOK'
  BY <1>12 DEF Accept, UnSign, TypeOK
<1>13. ASSUME NEW u \in Player, Sign(u) PROVE TypeOK'
  BY <1>13 DEF Sign, TypeOK
<1>14. ASSUME NEW u \in Player, SignObs(u) PROVE TypeOK'
  BY <1>14 DEF SignObs, TypeOK, Names
<1>15. ASSUME NEW u \in Player, Out(u) PROVE TypeOK'
  BY <1>15, ClearFirstFacts, WordFacts DEF Out, UnSign, Enough, TypeOK
<1>16. ASSUME NEW u \in Player, StartPick(u) PROVE TypeOK'
  BY <1>16, TeamAssumption DEF StartPick, TypeOK
<1>17. ASSUME NEW u \in Player, PickCommand(u) PROVE TypeOK'
  <2>1. PICK name \in signed \cup RandomUser : Pick(u, name)
    BY <1>17 DEF PickCommand
  <2>2. name \in Names
    BY <2>1 DEF RandomUser, Names, TypeOK
  <2>3. slots' \in [Slots -> Names]
    BY <2>1, <2>2 DEF Pick, TypeOK
  <2> QED BY <1>17, <2>1, <2>3, TeamAssumption DEF PickCommand, Pick, UnSign, TypeOK
<1>18. CASE Rejoin
  BY <1>18 DEF Rejoin, TypeOK
<1>19. CASE HostbotOk
  BY <1>19, ResetTypes DEF HostbotOk
<1>20. CASE UNCHANGED vars
  BY <1>20 DEF vars, TypeOK
<1> QED
  BY <1>1, <1>2, <1>3, <1>4, <1>5, <1>6, <1>7, <1>8, <1>10, <1>11, <1>12, <1>13, <1>14,
     <1>15, <1>16, <1>17, <1>18, <1>19, <1>20
     DEF Next, ChatEvent, ReserveCommand, CaptainCommand, PoolCommand

\* The variables of the challenge always have their types.
THEOREM TypeCorrect == Spec => []TypeOK
BY TypeInit, TypeStep, PTL DEF Spec

---------------------------------------------------------------------------
(* The challenge: who the captains are, what the table holds, how far the  *)
(* draft is.                                                               *)

Course == CaptainsKnown /\ TableEmpty /\ DraftCounts /\ DraftPlayers

\* Without a challenge there is nothing to show.
LEMMA Ended ==
  ASSUME ChallengeStep' = 0, Challenger' = None, Challenged' = None
  PROVE  Course'
BY DEF Course, CaptainsKnown, TableEmpty, DraftCounts, DraftPlayers, Drafting

\* A handler that leaves the challenge and the teams' slots alone, and signs
\* only players .sign would sign, keeps the course of the challenge.
LEMMA Quiet ==
  ASSUME TypeOK, Course, UNCHANGED <<chalVars, draftVars>>,
         ChallengeStep > 0 => \A s \in PickSlots : slots'[s] = slots[s],
         \A v \in signed' : v \in signed \/ MaySign(v)
  PROVE  Course'
<1> USE DEF chalVars, draftVars
<1>1. CaptainsKnown'
  BY DEF Course, CaptainsKnown, MaySign, IsCaptain
<1>2. \A S \in SUBSET PickSlots : ChallengeStep > 0 => Taken(S)' = Taken(S)
  BY DEF Taken
<1>3. TableEmpty'
  BY <1>2 DEF Course, TableEmpty
<1>4. DraftCounts'
  <2>1. PickSlots1 \in SUBSET PickSlots /\ PickSlots2 \in SUBSET PickSlots
    BY DEF PickSlots
  <2>2. Drafting => Taken(PickSlots1)' = Taken(PickSlots1) /\ Taken(PickSlots2)' = Taken(PickSlots2)
    BY <1>2, <2>1 DEF Drafting, TypeOK
  <2> QED BY <2>2 DEF Course, DraftCounts, Drafting, Team1, Team2
<1>5. DraftPlayers'
  <2> SUFFICES ASSUME Drafting PROVE DraftPlayers'
    BY DEF DraftPlayers, Drafting
  <2>1. \A s \in PickSlots : slots'[s] = slots[s]
    BY DEF Drafting, TypeOK
  <2>2. ASSUME NEW s \in PickSlots, slots[s] \in Player
        PROVE  slots[s] \notin signed' \cup {Challenger, Challenged}
    <3>1. slots[s] \notin signed \cup {Challenger, Challenged}
      BY <2>2 DEF Course, DraftPlayers
    <3>2. ~MaySign(slots[s])
      BY SlotFacts DEF MaySign, IsInPool, InSlots
    <3> QED BY <3>1, <3>2
  <2>3. \A s, t \in PickSlots : slots[s] \in Player /\ slots[s] = slots[t] => s = t
    BY DEF Course, DraftPlayers
  <2> QED BY <2>1, <2>2, <2>3 DEF DraftPlayers
<1> QED BY <1>1, <1>3, <1>4, <1>5 DEF Course

\* Clearing somebody's slot before the draft leaves the teams' slots empty.
LEMMA ClearQuiet ==
  ASSUME TypeOK, TableEmpty, ~Drafting, NEW u, ChallengeStep > 0, NEW s \in PickSlots
  PROVE  ClearFirst(slots, u)[s] = slots[s]
<1>1. slots[s] = None
  BY DEF TypeOK, TableEmpty, Taken, Drafting
<1>2. ClearFirst(slots, u)[s] \in {slots[s], None}
  BY ClearFirstFacts, SlotFacts DEF TypeOK
<1> QED BY <1>1, <1>2

\* A reset ends the challenge, or (.ok before the draft) does not touch it.
LEMMA ResetCourse ==
  ASSUME TypeOK, ReservationsReopen, Course,
         NEW r \in BOOLEAN, NEW h \in BOOLEAN, NEW g \in BOOLEAN, ResetChallenge(r, h, g)
  PROVE  ReservationsReopen' /\ Course'
<1>1. signed' = signed /\ meplayon' = TRUE /\ SignLock' = FALSE /\ UNCHANGED draftVars
  BY NobodyHeldBack DEF ResetChallenge, ClearTable
<1>2. CASE EndsChallenge(g)
  <2>1. Challenge' = FALSE /\ ChallengeStep' = 0 /\ Challenger' = None /\ Challenged' = None
    BY <1>2 DEF ResetChallenge, ForgetChallenge
  <2>2. ReservationsReopen'
    BY <1>1, <2>1 DEF ReservationsReopen
  <2> QED BY <2>1, <2>2, Ended
<1>3. CASE ~EndsChallenge(g)
  <2>1. UNCHANGED chalVars /\ ChallengeStep <= 2
    BY <1>3 DEF ResetChallenge, ForgetChallenge, EndsChallenge, TypeOK
  <2>2. ReservationsReopen'
    BY <1>1, <2>1 DEF ReservationsReopen, chalVars
  <2>3. \A s \in PlayerSlots : slots'[s] = None
    BY ResetFacts DEF ResetChallenge, ClearTable, TypeOK
  <2>4. ChallengeStep > 0 => \A s \in PickSlots : slots'[s] = slots[s]
    <3>1. ChallengeStep > 0 => ChallengeStep \in {1, 2}
      BY <2>1 DEF TypeOK
    <3>2. ChallengeStep > 0 => \A s \in PickSlots : slots[s] = None
      BY <3>1 DEF Course, TableEmpty, Taken
    <3> QED BY <2>3, <3>2, SlotFacts
  <2> QED BY <1>1, <2>1, <2>2, <2>4, Quiet
<1> QED BY <1>2, <1>3

\* .startpick: both teams are empty, as is the table.
LEMMA StartPickCourse ==
  ASSUME TypeOK, Course, NEW u \in Player, StartPick(u)
  PROVE  Course'
<1> USE TeamAssumption
<1>1. /\ ChallengeStep = 2 /\ ChallengeStep' = 3 /\ PickStep' = 1
      /\ holdnumb1' = 1 /\ holdnumb2' = TeamPicks + 2
      /\ UNCHANGED <<signed, slots, Challenger, Challenged>>
  BY DEF StartPick
<1>2. Taken(PickSlots) = {}
  BY <1>1 DEF Course, TableEmpty
<1>3. Taken(PickSlots1) = {} /\ Taken(PickSlots2) = {} /\ \A s \in PickSlots : slots[s] = None
  BY <1>2 DEF Taken, PickSlots
<1>4. DraftCounts'
  <2>1. Team1' = 0 /\ Team2' = 0
    BY <1>1 DEF Team1, Team2
  <2>2. Taken(PickSlots1)' = 1 .. 0 /\ Taken(PickSlots2)' = TeamPicks + 2 .. TeamPicks + 1
    BY <1>1, <1>3 DEF Taken
  <2> QED BY <1>1, <2>1, <2>2 DEF DraftCounts, Lead
<1>5. DraftPlayers'
  BY <1>1, <1>3, PlayerAssumption DEF DraftPlayers
<1>6. CaptainsKnown' /\ TableEmpty'
  BY <1>1 DEF Course, CaptainsKnown, TableEmpty
<1> QED BY <1>4, <1>5, <1>6 DEF Course

\* Snake order keeps room in the team whose turn it is.
LEMMA RoomToPick ==
  ASSUME TypeOK, Course, Drafting, PickStep \in 1 .. 2 * TeamPicks
  PROVE  /\ ChallengersTurn => Team1 < TeamPicks
         /\ ~ChallengersTurn => Team2 < TeamPicks
<1> DEFINE F == IF PickUser = 0 THEN Team1 ELSE Team2
           G == IF PickUser = 0 THEN Team2 ELSE Team1
<1>1. F \in Int /\ G \in Int /\ F + G = PickStep - 1 /\ F - G = Lead(PickStep)
  BY TeamAssumption DEF Course, DraftCounts, TypeOK
<1>2. FirstPickerTurn(PickStep) => F < TeamPicks
  BY <1>1, TeamAssumption DEF FirstPickerTurn, Lead
<1>3. ~FirstPickerTurn(PickStep) => G < TeamPicks
  BY <1>1, TeamAssumption DEF FirstPickerTurn, Lead
<1> QED BY <1>2, <1>3 DEF ChallengersTurn, TypeOK

\* A pick changes who is ahead the way the turns say.
LEMMA LeadStep ==
  ASSUME NEW k \in Nat
  PROVE  Lead(k + 1) = IF FirstPickerTurn(k) THEN Lead(k) + 1 ELSE Lead(k) - 1
BY DEF Lead, FirstPickerTurn

\* Who is picked is in no team and no captain.
LEMMA PickedPlayers ==
  ASSUME TypeOK, Course, ChallengeStep = 3, ChallengeStep' \in {3, 4},
         NEW p \in PickSlots, NEW name \in signed \cup RandomUser,
         slots' = [slots EXCEPT ![p] = name], signed' = signed \ {name},
         UNCHANGED <<Challenger, Challenged>>
  PROVE  CaptainsKnown' /\ TableEmpty' /\ DraftPlayers'
<1>1. CaptainsKnown' /\ TableEmpty'
  BY DEF Course, CaptainsKnown, TableEmpty
<1>2. name \in Player => name \in signed
  BY PlayerAssumption DEF RandomUser
<1>3. /\ \A s \in PickSlots :
           slots[s] \in Player => slots[s] \notin signed \cup {Challenger, Challenged}
      /\ \A s, t \in PickSlots : slots[s] \in Player /\ slots[s] = slots[t] => s = t
  BY DEF Course, DraftPlayers, Drafting
<1>4. Challenger \notin signed /\ Challenged \notin signed
  BY DEF Course, CaptainsKnown
<1>5. \A s \in PickSlots : slots'[s] = IF s = p THEN name ELSE slots[s]
  BY SlotFacts DEF TypeOK
<1>6. \A s \in PickSlots :
        slots'[s] \in Player => slots'[s] \notin signed' \cup {Challenger, Challenged}
  BY <1>2, <1>3, <1>4, <1>5
<1>7. \A s, t \in PickSlots : slots'[s] \in Player /\ slots'[s] = slots'[t] => s = t
  BY <1>2, <1>3, <1>5
<1> QED BY <1>1, <1>6, <1>7 DEF DraftPlayers

\* .pick: the name goes into the next slot of the captain's own team.
LEMMA PickCourse ==
  ASSUME TypeOK, Course, ChallengeStep = 3, NEW u, NEW name \in signed \cup RandomUser,
         Pick(u, name), UNCHANGED <<Challenger, Challenged>>
  PROVE  Course'
<1> USE TeamAssumption
<1>1. /\ PickStep \in 1 .. 2 * TeamPicks /\ PickStep' = PickStep + 1 /\ PickUser' = PickUser
      /\ ChallengeStep' \in {3, 4} /\ (ChallengeStep' = 4 => PickStep = 2 * TeamPicks)
      /\ signed' = signed \ {name}
  BY DEF Pick, LastPick, UnSign
<1>2. /\ Team1 \in 0 .. TeamPicks /\ Team2 \in 0 .. TeamPicks
      /\ Team1 + Team2 = PickStep - 1
      /\ (IF PickUser = 0 THEN Team1 - Team2 ELSE Team2 - Team1) = Lead(PickStep)
      /\ Taken(PickSlots1) = 1 .. Team1
      /\ Taken(PickSlots2) = TeamPicks + 2 .. TeamPicks + 1 + Team2
  BY DEF Course, DraftCounts, Drafting
<1>3. name /= None
  BY PlayerAssumption DEF RandomUser, TypeOK
<1>4. /\ Lead(PickStep) \in Int
      /\ Lead(PickStep') = IF FirstPickerTurn(PickStep) THEN Lead(PickStep) + 1 ELSE Lead(PickStep) - 1
  <2>1. PickStep \in Nat
    BY <1>1
  <2> QED BY <1>1, <2>1, LeadStep DEF Lead
<1>5. PickUser = 0 \/ PickUser = 1
  BY DEF TypeOK
<1>6. CASE ChallengersTurn
  <2>1. /\ slots' = [slots EXCEPT ![holdnumb1] = name]
        /\ holdnumb1' = holdnumb1 + 1 /\ holdnumb2' = holdnumb2
    BY <1>6 DEF Pick
  <2>2. Team1 < TeamPicks /\ Team1' = Team1 + 1 /\ Team2' = Team2
    BY <1>1, <1>6, <2>1, RoomToPick DEF Team1, Team2, TypeOK, Drafting
  <2>3. holdnumb1 \in PickSlots1 /\ holdnumb1 = Team1 + 1
    BY <1>2, <2>2 DEF Team1, PickSlots1, TypeOK
  <2>4. \A s \in PickSlots : slots'[s] = IF s = holdnumb1 THEN name ELSE slots[s]
    BY <2>1, SlotFacts DEF TypeOK
  <2>5. Taken(PickSlots1)' = Taken(PickSlots1) \cup {holdnumb1}
    BY <1>3, <2>3, <2>4 DEF Taken, PickSlots
  <2>6. Taken(PickSlots2)' = Taken(PickSlots2)
    BY <2>3, <2>4, SlotFacts DEF Taken, PickSlots
  <2>7. Taken(PickSlots1)' = 1 .. Team1'
    BY <1>2, <2>2, <2>3, <2>5
  <2>8. Taken(PickSlots2)' = TeamPicks + 2 .. TeamPicks + 1 + Team2'
    BY <1>2, <2>2, <2>6
  <2>9. (IF PickUser' = 0 THEN Team1' - Team2' ELSE Team2' - Team1') = Lead(PickStep')
    <3>1. FirstPickerTurn(PickStep) <=> PickUser = 0
      BY <1>6, <1>5 DEF ChallengersTurn
    <3> QED BY <1>1, <1>2, <1>4, <1>5, <2>2, <3>1
  <2>10. DraftCounts'
    BY <1>1, <1>2, <2>2, <2>7, <2>8, <2>9 DEF DraftCounts
  <2> QED BY <1>1, <2>1, <2>3, <2>10, PickedPlayers DEF Course, PickSlots
<1>7. CASE ~ChallengersTurn
  <2>1. /\ slots' = [slots EXCEPT ![holdnumb2] = name]
        /\ holdnumb2' = holdnumb2 + 1 /\ holdnumb1' = holdnumb1
    BY <1>7 DEF Pick
  <2>2. Team2 < TeamPicks /\ Team2' = Team2 + 1 /\ Team1' = Team1
    BY <1>1, <1>7, <2>1, RoomToPick DEF Team1, Team2, TypeOK, Drafting
  <2>3. holdnumb2 \in PickSlots2 /\ holdnumb2 = TeamPicks + 2 + Team2
    BY <1>2, <2>2 DEF Team2, PickSlots2, LastSlot, TypeOK
  <2>4. \A s \in PickSlots : slots'[s] = IF s = holdnumb2 THEN name ELSE slots[s]
    BY <2>1, SlotFacts DEF TypeOK
  <2>5. Taken(PickSlots2)' = Taken(PickSlots2) \cup {holdnumb2}
    BY <1>3, <2>3, <2>4 DEF Taken, PickSlots
  <2>6. Taken(PickSlots1)' = Taken(PickSlots1)
    BY <2>3, <2>4, SlotFacts DEF Taken, PickSlots
  <2>7. Taken(PickSlots2)' = TeamPicks + 2 .. TeamPicks + 1 + Team2'
    BY <1>2, <2>2, <2>3, <2>5
  <2>8. Taken(PickSlots1)' = 1 .. Team1'
    BY <1>2, <2>2, <2>6
  <2>9. (IF PickUser' = 0 THEN Team1' - Team2' ELSE Team2' - Team1') = Lead(PickStep')
    <3>1. FirstPickerTurn(PickStep) <=> PickUser = 1
      BY <1>7, <1>5 DEF ChallengersTurn
    <3> QED BY <1>1, <1>2, <1>4, <1>5, <2>2, <3>1
  <2>10. DraftCounts'
    BY <1>1, <1>2, <2>2, <2>7, <2>8, <2>9 DEF DraftCounts
  <2> QED BY <1>1, <2>1, <2>3, <2>10, PickedPlayers DEF Course, PickSlots
<1> QED BY <1>6, <1>7

\* .challenge: the challenger is known, and nothing is taken.
LEMMA ProposeCourse ==
  ASSUME TypeOK, ReservationsReopen, Course, NEW u \in Player, NEW o \in (Player \ {u}) \cup {None},
         Propose(u, o)
  PROVE  ReservationsReopen' /\ Course'
<1>1. /\ signed' = signed \ {u} /\ Challenge' = TRUE /\ ChallengeStep' = 1
      /\ Challenger' = u /\ Challenged' = o /\ SignLock' = FALSE
  BY NobodyHeldBack DEF Propose, ClearTable, UnSign
<1>2. \A s \in PickSlots : slots'[s] = None
  BY ResetFacts, SlotFacts DEF Propose, ClearTable, TypeOK
<1>3. CaptainsKnown' /\ TableEmpty' /\ DraftCounts' /\ DraftPlayers'
  BY <1>1, <1>2, PlayerAssumption
     DEF CaptainsKnown, TableEmpty, Taken, DraftCounts, DraftPlayers, Drafting
<1>4. ReservationsReopen'
  BY <1>1 DEF ReservationsReopen
<1> QED BY <1>3, <1>4 DEF Course

\* .accept: the two captains are two players, and both are out of the pool.
LEMMA AcceptCourse ==
  ASSUME TypeOK, Course, NEW u \in Player, Accept(u)
  PROVE  Course'
<1>1. /\ signed' = signed \ {u} /\ ChallengeStep = 1 /\ u /= Challenger
      /\ Challenger' = Challenger /\ slots' = slots
  BY DEF Accept, UnSign
<1>2. CaptainsKnown'
  <2>1. CASE MayAccept(u)
    BY <1>1, <2>1 DEF Accept, Course, CaptainsKnown
  <2>2. CASE ~MayAccept(u)
    BY <1>1, <2>2 DEF Accept, Course, CaptainsKnown
  <2> QED BY <2>1, <2>2
<1>3. Taken(PickSlots) = {} /\ ChallengeStep' \in {1, 2}
  BY <1>1 DEF Course, TableEmpty, Accept
<1> QED BY <1>1, <1>2, <1>3 DEF Course, TableEmpty, Taken, DraftCounts, DraftPlayers, Drafting

\* Every step of every handler.
LEMMA CourseStep ==
  TypeOK /\ ReservationsReopen /\ Course /\ [Next]_vars => ReservationsReopen' /\ Course'
<1> SUFFICES ASSUME TypeOK, ReservationsReopen, Course, [Next]_vars
             PROVE  ReservationsReopen' /\ Course'
  OBVIOUS
<1>0. (Challenge <=> ChallengeStep > 0) /\ (Challenge => ~SignLock) /\ (~Challenge => meplayon)
  BY DEF ReservationsReopen
<1>1. ASSUME NEW u \in Player, Join(u) PROVE ReservationsReopen' /\ Course'
  BY <1>1, Quiet DEF Join, ReservationsReopen, resVars, chalVars
<1>2. ASSUME NEW u \in Player, Leave(u), Challenge /\ IsCaptain(u)
      PROVE  ReservationsReopen' /\ Course'
  <2>1. /\ Challenge' = FALSE /\ ChallengeStep' = 0 /\ Challenger' = None /\ Challenged' = None
        /\ meplayon' = TRUE
    BY <1>2 DEF Leave, CaptainLeaves, ForgetChallenge, EndsChallenge
  <2> QED BY <2>1, Ended DEF ReservationsReopen
<1>3. ASSUME NEW u \in Player, Leave(u), ~(Challenge /\ IsCaptain(u))
      PROVE  ReservationsReopen' /\ Course'
  <2>1. MemberLeaves(u) /\ UNCHANGED draftVars
    BY <1>3 DEF Leave
  <2>2. ChallengeStep > 0 => \A s \in PickSlots : slots'[s] = slots[s]
    <3>1. CASE InSlots(u) /\ ~KeepsSlot /\ ChallengeStep > 0
      <4>1. ~Drafting
        BY <1>0, <3>1 DEF KeepsSlot, Drafting, TypeOK
      <4>2. slots' = ClearFirst(slots, u)
        BY <2>1, <3>1 DEF MemberLeaves
      <4> QED BY <3>1, <4>1, <4>2, ClearQuiet DEF Course
    <3>2. CASE ~(InSlots(u) /\ ~KeepsSlot)
      BY <2>1, <3>2 DEF MemberLeaves
    <3> QED BY <3>1, <3>2
  <2>3. Course'
    BY <2>1, <2>2, Quiet DEF MemberLeaves, UnSign
  <2> QED BY <2>1, <2>3 DEF MemberLeaves, ReservationsReopen, chalVars
<1>4. ASSUME NEW u \in Player, Res(u) PROVE ReservationsReopen' /\ Course'
  <2>1. ~Challenge /\ meplayon' = meplayon /\ UNCHANGED <<signed, chalVars, draftVars>>
    BY <1>4 DEF Res
  <2>2. Course'
    BY <1>0, <2>1, Quiet
  <2> QED BY <1>0, <2>1, <2>2 DEF ReservationsReopen, chalVars
<1>5. ASSUME NEW u \in Player, HostCommand(u) PROVE ReservationsReopen' /\ Course'
  <2>1. Course'
    BY <1>5, SlotFacts, Quiet DEF HostCommand, TypeOK
  <2> QED BY <1>5, <2>1 DEF HostCommand, ReservationsReopen, chalVars
<1>6. ASSUME NEW u \in Player, NEW v \in Player, NEW s \in Slots, Hold(u, v, s)
      PROVE  ReservationsReopen' /\ Course'
  <2>1. Course'
    BY <1>0, <1>6, Quiet DEF Hold
  <2> QED BY <1>6, <2>1 DEF Hold, ReservationsReopen, chalVars
<1>7. ASSUME NEW u \in Player, ClrSlots(u) \/ ClrObs(u) PROVE ReservationsReopen' /\ Course'
  <2>1. CASE ClrSlots(u)
    BY <1>0, <2>1, Quiet DEF ClrSlots, ReservationsReopen, chalVars, resVars
  <2>2. CASE ClrObs(u)
    <3>1. \A s \in PickSlots : slots'[s] = slots[s]
      BY <2>2, SlotFacts DEF ClrObs
    <3> QED BY <2>2, <3>1, Quiet DEF ClrObs, ReservationsReopen, chalVars, resVars
  <2> QED BY <1>7, <2>1, <2>2
<1>8. ASSUME NEW u \in Player, NEW n, MinSlots(u, n) PROVE ReservationsReopen' /\ Course'
  BY <1>8, Quiet DEF MinSlots, ReservationsReopen, chalVars
<1>9. ASSUME NEW u \in Player, ChallengeCommand(u) PROVE ReservationsReopen' /\ Course'
  <2>1. CASE Propose(u, None)
    BY <2>1, ProposeCourse
  <2>2. ASSUME NEW v \in Player, MayChallenge(u, v), Propose(u, v)
        PROVE  ReservationsReopen' /\ Course'
    BY <2>2, ProposeCourse DEF MayChallenge
  <2>3. CASE signed' = UnSign(signed, u) /\ UNCHANGED <<users, slots, resVars, chalVars, draftVars>>
    BY <2>3, Quiet DEF UnSign, ReservationsReopen, chalVars, resVars
  <2> QED BY <1>9, <2>1, <2>2, <2>3 DEF ChallengeCommand
<1>10. ASSUME NEW u \in Player, Refuse(u) \/ Abort(u) PROVE ReservationsReopen' /\ Course'
  BY <1>10, ResetCourse DEF Refuse, Abort
<1>11. ASSUME NEW u \in Player, Accept(u) PROVE ReservationsReopen' /\ Course'
  <2>1. Challenge /\ ChallengeStep' > 0 /\ UNCHANGED <<Challenge, SignLock>>
    BY <1>0, <1>11 DEF Accept, resVars
  <2> QED BY <1>0, <1>11, <2>1, AcceptCourse DEF ReservationsReopen
<1>12. ASSUME NEW u \in Player, Sign(u) \/ SignObs(u) PROVE ReservationsReopen' /\ Course'
  <2>1. CASE Sign(u)
    BY <2>1, Quiet DEF Sign, ReservationsReopen, chalVars, resVars
  <2>2. CASE SignObs(u)
    <3>1. \A s \in PickSlots : slots'[s] = slots[s]
      BY <2>2, SlotFacts, ObsSlotFree DEF SignObs, TypeOK
    <3> QED BY <2>2, <3>1, Quiet DEF SignObs, ReservationsReopen, chalVars, resVars
  <2> QED BY <1>12, <2>1, <2>2
<1>13. ASSUME NEW u \in Player, Out(u) PROVE ReservationsReopen' /\ Course'
  <2>1. ChallengeStep > 0 => \A s \in PickSlots : slots'[s] = slots[s]
    <3>1. CASE InSlots(u) /\ ChallengeStep > 0
      <4>1. ~Drafting
        BY <1>0, <1>13, <3>1 DEF Out, MayLeavePool, Drafting, TypeOK
      <4>2. slots' = ClearFirst(slots, u)
        BY <1>13, <3>1 DEF Out
      <4> QED BY <3>1, <4>1, <4>2, ClearQuiet DEF Course
    <3>2. CASE ~InSlots(u)
      BY <1>13, <3>2 DEF Out
    <3> QED BY <3>1, <3>2
  <2>2. Course'
    BY <1>13, <2>1, Quiet DEF Out, UnSign
  <2> QED BY <1>13, <2>2 DEF Out, ReservationsReopen, chalVars
<1>14. ASSUME NEW u \in Player, StartPick(u) PROVE ReservationsReopen' /\ Course'
  <2>1. ChallengeStep = 2 /\ ChallengeStep' = 3 /\ UNCHANGED <<Challenge, SignLock, meplayon>>
    BY <1>14 DEF StartPick, resVars
  <2> QED BY <1>0, <1>14, <2>1, StartPickCourse DEF ReservationsReopen
<1>15. ASSUME NEW u \in Player, PickCommand(u) PROVE ReservationsReopen' /\ Course'
  <2>1. PICK name \in signed \cup RandomUser : Pick(u, name)
    BY <1>15 DEF PickCommand
  <2>2. /\ Challenge /\ ChallengeStep = 3
        /\ UNCHANGED <<Challenge, SignLock, meplayon, Challenger, Challenged>>
    BY <1>15 DEF PickCommand, resVars
  <2>3. ChallengeStep' > 0
    BY <2>1 DEF Pick
  <2> QED BY <1>0, <2>1, <2>2, <2>3, PickCourse DEF ReservationsReopen
<1>16. CASE Rejoin
  BY <1>16, Quiet DEF Rejoin, ReservationsReopen, chalVars, resVars
<1>17. CASE HostbotOk
  BY <1>17, ResetCourse DEF HostbotOk
<1>18. CASE UNCHANGED vars
  BY <1>18, Quiet DEF vars, ReservationsReopen, chalVars, resVars
<1> QED
  BY <1>1, <1>2, <1>3, <1>4, <1>5, <1>6, <1>7, <1>8, <1>9, <1>10, <1>11, <1>12, <1>13, <1>14,
     <1>15, <1>16, <1>17, <1>18
     DEF Next, ChatEvent, ReserveCommand, CaptainCommand, PoolCommand

---------------------------------------------------------------------------
(* The theorems.                                                           *)

LEMMA IInvInit == Init => IInv
<1> SUFFICES ASSUME Init PROVE IInv
  OBVIOUS
<1>1. TypeOK
  BY TypeInit
<1>2. ReservationsReopen /\ CaptainsKnown /\ TableEmpty /\ DraftCounts /\ DraftPlayers
  BY DEF Init, ReservationsReopen, CaptainsKnown, TableEmpty, DraftCounts, DraftPlayers, Drafting
<1> QED BY <1>1, <1>2 DEF IInv

LEMMA IInvStep == IInv /\ [Next]_vars => IInv'
BY TypeStep, CourseStep DEF IInv, Course

\* The inductive invariant holds in every state of the program.
THEOREM IInvCorrect == Spec => []IInv
BY IInvInit, IInvStep, PTL DEF Spec

\* Whatever ends a challenge opens the reservations again.
THEOREM ReopenCorrect == Spec => []ReservationsReopen
<1>1. IInv => ReservationsReopen
  BY DEF IInv
<1> QED BY <1>1, IInvCorrect, PTL

\* Captains are never signed nor drafted, whoever signs, hosts, holds or leaves.
THEOREM CaptainsCorrect == Spec => []CaptainsOutOfPool
<1>1. IInv => CaptainsOutOfPool
  <2> SUFFICES ASSUME IInv, ChallengeStep >= 2 PROVE CaptainsOutOfPool
    BY DEF CaptainsOutOfPool
  <2>1. ChallengeStep \in {2, 3, 4}
    BY DEF IInv, TypeOK
  <2>2. /\ Challenger \in Player \ signed /\ Challenged \in Player \ signed
        /\ Challenger /= Challenged
    BY <2>1 DEF IInv, CaptainsKnown
  <2>3. ASSUME NEW u \in {Challenger, Challenged}, NEW s \in PickSlots, slots[s] = u PROVE FALSE
    <3>1. CASE ChallengeStep = 2
      BY <2>2, <2>3, <3>1, PlayerAssumption DEF IInv, TableEmpty, Taken
    <3>2. CASE Drafting
      BY <2>2, <2>3, <3>2 DEF IInv, DraftPlayers
    <3> QED BY <2>1, <3>1, <3>2 DEF Drafting
  <2> QED BY <2>2, <2>3 DEF CaptainsOutOfPool, SlotsOf
<1> QED BY <1>1, IInvCorrect, PTL

\* A set without two different members has at most one.
LEMMA AtMostOne ==
  ASSUME NEW S, \A x, y \in S : x = y
  PROVE  Cardinality(S) <= 1
<1>1. CASE S = {}
  BY <1>1, FS_EmptySet
<1>2. CASE S /= {}
  <2>1. PICK x \in S : TRUE
    BY <1>2
  <2>2. S = {x}
    BY <2>1
  <2> QED BY <2>2, FS_Singleton
<1> QED BY <1>1, <1>2

\* A draft hands out every player once.
THEOREM NoDoublePickCorrect == Spec => []NoDoublePick
<1>1. IInv => NoDoublePick
  <2> SUFFICES ASSUME IInv, Drafting, NEW u \in Player
               PROVE  /\ Cardinality(SlotsOf(u, PickSlots)) <= 1
                      /\ SlotsOf(u, PickSlots) /= {} => u \notin signed
    BY DEF NoDoublePick
  <2>1. \A s, t \in SlotsOf(u, PickSlots) : s = t
    BY DEF IInv, DraftPlayers, SlotsOf
  <2>2. SlotsOf(u, PickSlots) /= {} => u \notin signed
    BY DEF IInv, DraftPlayers, SlotsOf
  <2> QED BY <2>1, <2>2, AtMostOne
<1> QED BY <1>1, IInvCorrect, PTL

\* The teams never differ by more than one player and fill without a gap.
THEOREM BalanceCorrect == Spec => []DraftBalanced
<1>1. IInv => DraftBalanced
  <2> SUFFICES ASSUME IInv, Drafting PROVE DraftBalanced
    BY DEF DraftBalanced
  <2>1. /\ Team1 \in Int /\ Team2 \in Int
        /\ (IF PickUser = 0 THEN Team1 - Team2 ELSE Team2 - Team1) \in {-1, 0, 1}
    BY TeamAssumption DEF IInv, DraftCounts, Lead
  <2>2. Team1 - Team2 \in {-1, 0, 1}
    BY <2>1
  <2> QED BY <2>2 DEF IInv, DraftCounts, DraftBalanced
<1> QED BY <1>1, IInvCorrect, PTL

\* A game is only started with both teams complete.
THEOREM CompleteCorrect == Spec => []TeamsComplete
<1>1. IInv => TeamsComplete
  <2> SUFFICES ASSUME IInv, Drafting, ChallengeStep = 4 \/ PickStep > 2 * TeamPicks
               PROVE  Taken(PickSlots) = PickSlots
    BY DEF TeamsComplete, Drafting
  <2>1. PickStep = 2 * TeamPicks + 1
    BY TeamAssumption DEF IInv, DraftCounts, TypeOK
  <2>2. Lead(PickStep) = 0
    BY <2>1, TeamAssumption DEF Lead
  <2>3. Team1 = TeamPicks /\ Team2 = TeamPicks
    BY <2>1, <2>2, TeamAssumption DEF IInv, DraftCounts, TypeOK
  <2>4. Taken(PickSlots1) = PickSlots1 /\ Taken(PickSlots2) = PickSlots2
    BY <2>3, TeamAssumption DEF IInv, DraftCounts, PickSlots1, PickSlots2, LastSlot
  <2> QED BY <2>4 DEF Taken, PickSlots
<1> QED BY <1>1, IInvCorrect, PTL

\* Nobody plays for two teams, or twice for one.
THEOREM OneTeamCorrect == Spec => []OneTeamEach
BY CaptainsCorrect, NoDoublePickCorrect, PTL DEF OneTeamEach

\* Teams are level at every pick and complete at the start.
THEOREM TeamsLevelCorrect == Spec => []TeamsLevel
BY BalanceCorrect, CompleteCorrect, PTL DEF TeamsLevel

---------------------------------------------------------------------------
(* What one step can do to a challenge.                                    *)

LEMMA StepKinds ==
  ASSUME IInv, [Next]_vars
  PROVE  \/ /\ UNCHANGED <<ChallengeStep, draftVars>>
            /\ Drafting => \A s \in PickSlots : slots'[s] = slots[s]
         \/ ChallengeStep = 0 /\ ChallengeStep' = 1
         \/ ChallengeStep = 1 /\ ChallengeStep' = 2
         \/ \E u \in Player : StartPick(u)
         \/ ChallengeStep = 3 /\ \E u \in Player, name \in signed \cup RandomUser : Pick(u, name)
         \/ ChallengeStep > 0 /\ ChallengeStep' = 0
<1> USE DEF resVars, chalVars, draftVars
<1> DEFINE Still == /\ UNCHANGED <<ChallengeStep, draftVars>>
                    /\ Drafting => \A s \in PickSlots : slots'[s] = slots[s]
           Over  == ChallengeStep > 0 /\ ChallengeStep' = 0
<1>0. TypeOK /\ (Challenge <=> ChallengeStep > 0)
  BY DEF IInv, ReservationsReopen
<1>1. ASSUME NEW u \in Player, Join(u) PROVE Still
  BY <1>1 DEF Join
<1>2. ASSUME NEW u \in Player, Leave(u) PROVE Still \/ Over
  <2>1. CASE Challenge /\ IsCaptain(u)
    BY <1>0, <1>2, <2>1 DEF Leave, CaptainLeaves, ForgetChallenge, EndsChallenge
  <2>2. CASE ~(Challenge /\ IsCaptain(u))
    <3>1. MemberLeaves(u) /\ UNCHANGED draftVars
      BY <1>2, <2>2 DEF Leave
    <3>2. Drafting => KeepsSlot
      BY <1>0 DEF Drafting, KeepsSlot, TypeOK
    <3> QED BY <3>1, <3>2 DEF MemberLeaves
  <2> QED BY <2>1, <2>2
<1>3. ASSUME NEW u \in Player, Res(u) PROVE Still
  BY <1>0, <1>3 DEF Res, Drafting, TypeOK
<1>4. ASSUME NEW u \in Player, HostCommand(u) PROVE Still
  BY <1>4, SlotFacts DEF HostCommand, IInv, TypeOK
<1>5. ASSUME NEW u \in Player, NEW v \in Player, NEW s \in Slots, Hold(u, v, s) PROVE Still
  BY <1>0, <1>5 DEF Hold, Drafting, TypeOK
<1>6. ASSUME NEW u \in Player, ClrSlots(u) PROVE Still
  BY <1>0, <1>6 DEF ClrSlots, Drafting, TypeOK
<1>7. ASSUME NEW u \in Player, ClrObs(u) PROVE Still
  BY <1>7, SlotFacts DEF ClrObs
<1>8. ASSUME NEW u \in Player, ChallengeCommand(u)
      PROVE  Still \/ (ChallengeStep = 0 /\ ChallengeStep' = 1)
  BY <1>8 DEF ChallengeCommand, Propose
<1>9. ASSUME NEW r \in BOOLEAN, NEW h \in BOOLEAN, NEW g \in BOOLEAN, ResetChallenge(r, h, g)
      PROVE  Still \/ Over
  <2>1. UNCHANGED draftVars
    BY <1>9 DEF ResetChallenge
  <2>2. CASE EndsChallenge(g)
    BY <1>9, <2>1, <2>2 DEF ResetChallenge, ForgetChallenge, TypeOK, IInv, Drafting
  <2>3. CASE ~EndsChallenge(g)
    BY <1>0, <1>9, <2>1, <2>3 DEF ResetChallenge, ForgetChallenge, EndsChallenge, Drafting, TypeOK
  <2> QED BY <2>2, <2>3
<1>10. ASSUME NEW u \in Player, Refuse(u) \/ Abort(u) PROVE Still \/ Over
  BY <1>9, <1>10 DEF Refuse, Abort
<1>11. ASSUME NEW u \in Player, Accept(u)
       PROVE  Still \/ (ChallengeStep = 1 /\ ChallengeStep' = 2)
  BY <1>11 DEF Accept
<1>12. ASSUME NEW u \in Player, Sign(u) PROVE Still
  BY <1>12 DEF Sign
<1>13. ASSUME NEW u \in Player, SignObs(u) PROVE Still
  BY <1>0, <1>13, SlotFacts, ObsSlotFree DEF SignObs, TypeOK
<1>14. ASSUME NEW u \in Player, Out(u) PROVE Still
  BY <1>0, <1>14 DEF Out, MayLeavePool, Drafting, TypeOK
<1>15. ASSUME NEW u \in Player, PickCommand(u)
       PROVE  ChallengeStep = 3 /\ \E v \in Player, name \in signed \cup RandomUser : Pick(v, name)
  BY <1>15 DEF PickCommand
<1>16. Rejoin => Still
  BY DEF Rejoin
<1>17. HostbotOk => Still \/ Over
  BY <1>9 DEF HostbotOk
<1>18. CASE UNCHANGED vars
  BY <1>18 DEF vars
<1>19. ASSUME NEW u \in Player, NEW n, MinSlots(u, n) PROVE Still
  BY <1>19 DEF MinSlots
<1> HIDE DEF Still, Over
<1> DEFINE Named  == ChallengeStep = 0 /\ ChallengeStep' = 1
           Agreed == ChallengeStep = 1 /\ ChallengeStep' = 2
           Picks  == /\ ChallengeStep = 3
                     /\ \E u \in Player, name \in signed \cup RandomUser : Pick(u, name)
           Starts == \E u \in Player : StartPick(u)
<1>20. ASSUME NEW u \in Player, ChatEvent(u) PROVE Still \/ Over
  BY <1>1, <1>2, <1>20 DEF ChatEvent
<1>21. ASSUME NEW u \in Player, ReserveCommand(u) PROVE Still
  BY <1>3, <1>4, <1>5, <1>6, <1>7, <1>19, <1>21 DEF ReserveCommand
<1>22. ASSUME NEW u \in Player, CaptainCommand(u)
       PROVE  Still \/ Over \/ Named \/ Agreed \/ Picks \/ Starts
  BY <1>8, <1>10, <1>11, <1>15, <1>22 DEF CaptainCommand
<1>23. ASSUME NEW u \in Player, PoolCommand(u) PROVE Still
  BY <1>12, <1>13, <1>14, <1>23 DEF PoolCommand
<1>24. CASE Next
  <2> HIDE DEF Named, Agreed, Picks, Starts
  <2>1. Still \/ Over \/ Named \/ Agreed \/ Picks \/ Starts
    BY <1>16, <1>17, <1>20, <1>21, <1>22, <1>23, <1>24 DEF Next
  <2> QED BY <2>1 DEF Still, Over, Named, Agreed, Picks, Starts
<1> QED BY <1>18, <1>24 DEF Still, Over

\* Once picked, always picked: no step changes a taken slot of the teams
\* before the draft is over.
THEOREM PicksFinalCorrect == Spec => PicksAreFinal
<1>1. ASSUME IInv, [Next]_vars, Drafting, ChallengeStep' >= 3, NEW s \in Taken(PickSlots)
      PROVE  slots'[s] = slots[s]
  <2>1. s \in PickSlots
    BY <1>1 DEF Taken
  <2>2. ASSUME NEW u \in Player, NEW name, Pick(u, name), ChallengeStep = 3
        PROVE  slots'[s] = slots[s]
    <3>1. holdnumb1 \notin Taken(PickSlots1) /\ holdnumb2 \notin Taken(PickSlots2)
      BY <1>1, TeamAssumption DEF IInv, DraftCounts, Team1, Team2, TypeOK
    <3>2. Team1 \in 0 .. TeamPicks /\ Team2 \in 0 .. TeamPicks /\ PickStep \in 1 .. 2 * TeamPicks
      BY <1>1, <2>2 DEF IInv, DraftCounts, Pick
    <3>3. (ChallengersTurn => Team1 < TeamPicks) /\ (~ChallengersTurn => Team2 < TeamPicks)
      BY <1>1, <3>2, RoomToPick DEF IInv, Course
    <3>4. CASE ChallengersTurn
      <4>1. holdnumb1 \in PickSlots1
        BY <1>1, <3>2, <3>3, <3>4, TeamAssumption DEF IInv, TypeOK, Team1, PickSlots1
      <4>2. s /= holdnumb1
        BY <1>1, <3>1, <4>1 DEF Taken
      <4> QED BY <1>1, <2>1, <2>2, <3>4, <4>2, SlotFacts DEF Pick, IInv, TypeOK
    <3>5. CASE ~ChallengersTurn
      <4>1. holdnumb2 \in PickSlots2
        BY <1>1, <3>2, <3>3, <3>5, TeamAssumption
           DEF IInv, TypeOK, Team2, PickSlots2, LastSlot
      <4>2. s /= holdnumb2
        BY <1>1, <3>1, <4>1 DEF Taken
      <4> QED BY <1>1, <2>1, <2>2, <3>5, <4>2, SlotFacts DEF Pick, IInv, TypeOK
    <3> QED BY <3>4, <3>5
  <2>3. ASSUME NEW u \in Player, StartPick(u) PROVE FALSE
    BY <1>1, <2>3 DEF StartPick, Drafting
  <2> QED BY <1>1, <2>1, <2>2, <2>3, StepKinds DEF Drafting
<1>2. IInv /\ [Next]_vars =>
        [Drafting /\ ChallengeStep' >= 3 =>
           \A s \in Taken(PickSlots) : slots'[s] = slots[s]]_vars
  BY <1>1
<1> QED BY <1>2, IInvCorrect, PTL DEF Spec, PicksAreFinal

---------------------------------------------------------------------------
(* The table while it is being reserved.                                   *)

\* What a step does to the seats unless it is part of a draft.
LEMMA TableStep ==
  ASSUME IInv, [Next]_vars, ~Drafting'
  PROVE  \/ /\ ~Drafting /\ (holdslots => holdslots')
            /\ \A s \in PlayerSlots : slots'[s] \in {slots[s], None}
         \/ \A s \in PlayerSlots : slots'[s] = None
         \/ ~Drafting /\ \E u \in Player : Res(u) \/ HostCommand(u)
         \/ ~Drafting /\ \E u, v \in Player, s \in Slots : Hold(u, v, s)
<1> USE DEF resVars, chalVars, draftVars
<1> DEFINE Fewer == /\ ~Drafting /\ (holdslots => holdslots')
                    /\ \A s \in PlayerSlots : slots'[s] \in {slots[s], None}
           Empty == \A s \in PlayerSlots : slots'[s] = None
<1>0. TypeOK /\ slots \in [Slots -> Names] /\ ChallengeStep \in 0..4 /\ PlayerSlots \subseteq Slots
  BY SlotFacts DEF IInv, TypeOK
<1>1. ASSUME slots' = slots, holdslots' = holdslots, ~Drafting PROVE Fewer
  BY <1>1
<1>2. ASSUME NEW table \in [Slots -> Names], NEW u, slots' = ClearFirst(table, u)
      PROVE  \A s \in PlayerSlots : slots'[s] \in {table[s], None}
  BY <1>0, <1>2, ClearFirstFacts
<1>3. ASSUME ~Drafting', ChallengeStep' = ChallengeStep PROVE ~Drafting
  BY <1>3 DEF Drafting
<1>4. ASSUME NEW r \in BOOLEAN, slots' = SlotsReset(r) PROVE Empty
  BY <1>0, <1>4, ResetFacts
<1> HIDE DEF Fewer
<1>5. ASSUME NEW u \in Player, Join(u) PROVE Fewer
  BY <1>1, <1>3, <1>5 DEF Join
<1>6. ASSUME NEW u \in Player, Leave(u) PROVE Fewer \/ Empty
  <2>1. CASE Challenge /\ IsCaptain(u)
    <3>1. slots' = ClearFirst(SlotsReset(FALSE), u)
      BY <1>6, <2>1 DEF Leave, CaptainLeaves
    <3> QED BY <1>0, <1>2, <3>1, ResetFacts
  <2>2. CASE ~(Challenge /\ IsCaptain(u))
    <3>1. /\ holdslots' = holdslots /\ ChallengeStep' = ChallengeStep
          /\ slots' = slots \/ slots' = ClearFirst(slots, u)
      BY <1>6, <2>2 DEF Leave, MemberLeaves
    <3> QED BY <1>0, <1>2, <1>3, <3>1 DEF Fewer
  <2> QED BY <2>1, <2>2
<1>7. ASSUME NEW u \in Player, Res(u) \/ HostCommand(u) PROVE ~Drafting
  BY <1>3, <1>7 DEF Res, HostCommand
<1>8. ASSUME NEW u \in Player, NEW v \in Player, NEW s \in Slots, Hold(u, v, s) PROVE ~Drafting
  BY <1>3, <1>8 DEF Hold
<1>9. ASSUME NEW u \in Player, ClrSlots(u) PROVE Empty
  BY <1>0, <1>9 DEF ClrSlots
<1>10. ASSUME NEW u \in Player, ClrObs(u) PROVE Fewer
  BY <1>0, <1>3, <1>10 DEF ClrObs, Fewer
<1>11. ASSUME NEW u \in Player, NEW n, MinSlots(u, n) PROVE Fewer
  BY <1>1, <1>3, <1>11 DEF MinSlots
<1>12. ASSUME NEW u \in Player, ChallengeCommand(u) PROVE Fewer \/ Empty
  <2>1. CASE slots' = SlotsReset(FALSE)
    BY <1>4, <2>1
  <2>2. CASE UNCHANGED <<slots, resVars, chalVars>>
    BY <1>1, <1>3, <2>2
  <2> QED BY <1>12, <2>1, <2>2 DEF ChallengeCommand, Propose, ClearTable
<1>13. ASSUME NEW u \in Player, Refuse(u) \/ Abort(u) PROVE Empty
  BY <1>4, <1>13 DEF Refuse, Abort, ResetChallenge, ClearTable
<1>14. ASSUME NEW u \in Player, Accept(u) PROVE Fewer
  <2>1. slots' = slots /\ holdslots' = holdslots /\ ChallengeStep = 1
    BY <1>14 DEF Accept
  <2> QED BY <1>1, <2>1 DEF Drafting
<1>15. ASSUME NEW u \in Player, StartPick(u) \/ PickCommand(u) PROVE FALSE
  BY <1>15 DEF StartPick, PickCommand, Pick, Drafting
<1>16. ASSUME NEW u \in Player, Sign(u) PROVE Fewer
  BY <1>1, <1>3, <1>16 DEF Sign
<1>17. ASSUME NEW u \in Player, SignObs(u) PROVE Fewer
  <2>1. /\ holdslots' = holdslots /\ ChallengeStep' = ChallengeStep
        /\ \E o \in ObsSlots : slots' = [slots EXCEPT ![o] = u]
    BY <1>17, ObsSlotFree DEF SignObs
  <2>2. PlayerSlots \cap ObsSlots = {}
    BY TeamAssumption DEF PlayerSlots, ObsSlots, LastSlot
  <2> QED BY <1>0, <1>3, <2>1, <2>2 DEF Fewer
<1>18. ASSUME NEW u \in Player, Out(u) PROVE Fewer
  <2>1. /\ holdslots' = holdslots /\ ChallengeStep' = ChallengeStep
        /\ slots' = slots \/ slots' = ClearFirst(slots, u)
    BY <1>18 DEF Out
  <2> QED BY <1>0, <1>2, <1>3, <2>1 DEF Fewer
<1>19. ASSUME Rejoin \/ UNCHANGED vars PROVE Fewer
  BY <1>1, <1>3, <1>19 DEF Rejoin, vars
<1>20. ASSUME HostbotOk PROVE Empty
  BY <1>4, <1>20 DEF HostbotOk, ResetChallenge, ClearTable
<1> HIDE DEF Empty
<1> DEFINE Seats == ~Drafting /\ \E u \in Player : Res(u) \/ HostCommand(u)
           Holds == ~Drafting /\ \E u, v \in Player, s \in Slots : Hold(u, v, s)
           Kind  == Fewer \/ Empty \/ Seats \/ Holds
<1>21. ASSUME NEW u \in Player, Res(u) \/ HostCommand(u) PROVE Seats
  BY <1>7, <1>21
<1>22. ASSUME NEW u \in Player, NEW v \in Player, NEW s \in Slots, Hold(u, v, s) PROVE Holds
  BY <1>8, <1>22
<1> HIDE DEF Seats, Holds
<1>23. ASSUME NEW u \in Player, ChatEvent(u) PROVE Kind
  BY <1>5, <1>6, <1>23 DEF ChatEvent
<1>24. ASSUME NEW u \in Player, ReserveCommand(u) PROVE Kind
  BY <1>9, <1>10, <1>11, <1>21, <1>22, <1>24 DEF ReserveCommand
<1>25. ASSUME NEW u \in Player, CaptainCommand(u) PROVE Kind
  BY <1>12, <1>13, <1>14, <1>15, <1>25 DEF CaptainCommand
<1>26. ASSUME NEW u \in Player, PoolCommand(u) PROVE Kind
  BY <1>16, <1>17, <1>18, <1>26 DEF PoolCommand
<1> HIDE DEF Kind
<1>27. ASSUME Next PROVE Kind
  <2>1. CASE Rejoin \/ HostbotOk
    BY <1>19, <1>20, <2>1 DEF Kind
  <2> QED BY <1>23, <1>24, <1>25, <1>26, <1>27, <2>1 DEF Next
<1>28. ASSUME UNCHANGED vars PROVE Kind
  BY <1>19, <1>28 DEF Kind
<1>29. Kind
  BY <1>27, <1>28
<1> QED BY <1>29 DEF Kind, Fewer, Empty, Seats, Holds

\* .pub and .priv throw nobody out: without held slots no player slot is taken.
THEOREM HostCorrect == Spec => []HostOverwritesNobody
<1>1. Init => HostOverwritesNobody
  BY SlotFacts DEF Init, HostOverwritesNobody, Taken
<1>2. IInv /\ HostOverwritesNobody /\ [Next]_vars => HostOverwritesNobody'
  <2> SUFFICES ASSUME IInv, HostOverwritesNobody, [Next]_vars, ~holdslots', ~Drafting',
                      NEW s \in PlayerSlots
               PROVE  slots'[s] = None
    BY DEF HostOverwritesNobody, Taken
  <2>1. ASSUME ~Drafting, holdslots => holdslots', slots'[s] \in {slots[s], None}
        PROVE  slots'[s] = None
    BY <2>1 DEF HostOverwritesNobody, Taken
  <2>2. ASSUME NEW u \in Player, Res(u) \/ HostCommand(u) PROVE FALSE
    BY <2>2 DEF Res, HostCommand
  <2>3. ASSUME NEW u \in Player, NEW v \in Player, NEW t \in Slots, Hold(u, v, t) PROVE FALSE
    BY <2>3 DEF Hold
  <2> QED BY <2>1, <2>2, <2>3, TableStep
<1> QED BY <1>1, <1>2, IInvCorrect, PTL DEF Spec

\* .res gives a seat only to who has none.
LEMMA ResSeats ==
  ASSUME TypeOK, NEW by \in Player, Res(by), NEW u \in Player
  PROVE  \/ Cardinality(SlotsOf(u, PlayerSlots)') <= 1
         \/ SlotsOf(u, PlayerSlots)' \subseteq SlotsOf(u, PlayerSlots)
<1>0. slots \in [Slots -> Names] /\ PlayerSlots \subseteq Slots /\ u /= None
  BY SlotFacts, PlayerAssumption DEF TypeOK
<1>1. CASE slots' = ResSlots(by)
  <2>1. CASE ~IsInPool(by) /\ Free(slots) /= {} /\ u = by
    <3>1. SlotsOf(u, PlayerSlots) = {}
      BY <1>0, <2>1 DEF IsInPool, InSlots, SlotsOf
    <3>2. SlotsOf(u, PlayerSlots)' \subseteq {First(Free(slots))}
      BY <1>0, <1>1, <2>1, <3>1 DEF ResSlots, SlotsOf
    <3> QED BY <3>2, AtMostOne
  <2>2. CASE ~(~IsInPool(by) /\ Free(slots) /= {} /\ u = by)
    BY <1>0, <1>1, <2>2 DEF ResSlots, SlotsOf
  <2> QED BY <2>1, <2>2
<1>2. CASE slots' = [s \in Slots |-> IF s \in PlayerSlots THEN None ELSE slots[s]]
  BY <1>0, <1>2 DEF SlotsOf
<1> QED BY <1>1, <1>2 DEF Res

\* Nobody gets a second seat of a table that is being reserved but by .hold.
THEOREM OneSeatCorrect == Spec => OneSeatEach
<1>1. ASSUME IInv, HostOverwritesNobody, [Next]_vars, ~Drafting, ~Drafting', NEW u \in Player
      PROVE  \/ Cardinality(SlotsOf(u, PlayerSlots)') <= 1
             \/ SlotsOf(u, PlayerSlots)' \subseteq SlotsOf(u, PlayerSlots)
             \/ \E by \in Player, s \in Slots : Hold(by, u, s)
  <2>0. slots \in [Slots -> Names] /\ PlayerSlots \subseteq Slots /\ u /= None
    BY <1>1, SlotFacts, PlayerAssumption DEF IInv, TypeOK
  <2>1. ASSUME \A s \in PlayerSlots : slots'[s] \in {slots[s], None}
        PROVE  SlotsOf(u, PlayerSlots)' \subseteq SlotsOf(u, PlayerSlots)
    BY <2>0, <2>1 DEF SlotsOf
  <2>2. ASSUME NEW by \in Player, HostCommand(by)
        PROVE  Cardinality(SlotsOf(u, PlayerSlots)') <= 1
    <3>1. \A s \in PlayerSlots : slots[s] = None
      BY <1>1, <2>2 DEF HostCommand, HostOverwritesNobody, Taken
    <3>2. SlotsOf(u, PlayerSlots)' \subseteq {0}
      BY <2>0, <2>2, <3>1 DEF HostCommand, SlotsOf
    <3> QED BY <3>2, AtMostOne
  <2>3. ASSUME NEW by \in Player, NEW v \in Player, NEW t \in Slots, Hold(by, v, t), v /= u
        PROVE  SlotsOf(u, PlayerSlots)' \subseteq SlotsOf(u, PlayerSlots)
    BY <2>0, <2>3 DEF Hold, SlotsOf
  <2>4. ASSUME NEW by \in Player, Res(by)
        PROVE  \/ Cardinality(SlotsOf(u, PlayerSlots)') <= 1
               \/ SlotsOf(u, PlayerSlots)' \subseteq SlotsOf(u, PlayerSlots)
    BY <1>1, <2>4, ResSeats DEF IInv
  <2> QED BY <1>1, <2>1, <2>2, <2>3, <2>4, TableStep
<1>2. IInv /\ HostOverwritesNobody /\ [Next]_vars =>
        [~Drafting /\ ~Drafting' => \A u \in Player :
           \/ Cardinality(SlotsOf(u, PlayerSlots)') <= 1
           \/ SlotsOf(u, PlayerSlots)' \subseteq SlotsOf(u, PlayerSlots)
           \/ \E by \in Player, s \in Slots : Hold(by, u, s)]_vars
  BY <1>1
<1> QED BY <1>2, IInvCorrect, HostCorrect, PTL DEF Spec, OneSeatEach

---------------------------------------------------------------------------
(* The pool.                                                               *)

\* Only .sign makes the pool larger, and by one player.
LEMMA PoolStep ==
  ASSUME TypeOK, [Next]_vars
  PROVE  signed' \subseteq signed \/ \E u \in Player : Sign(u)
<1> USE NobodyHeldBack DEF UnSign
<1>1. ASSUME NEW u \in Player, Leave(u) PROVE signed' \subseteq signed
  BY <1>1 DEF Leave, CaptainLeaves, MemberLeaves
<1>2. ASSUME NEW u \in Player, ReserveCommand(u) PROVE signed' \subseteq signed
  BY <1>2 DEF ReserveCommand, Res, HostCommand, ClrSlots, ClrObs, Hold, MinSlots
<1>3. ASSUME NEW u \in Player, ChallengeCommand(u) \/ Refuse(u) \/ Abort(u)
      PROVE  signed' \subseteq signed
  BY <1>3 DEF ChallengeCommand, Propose, Refuse, Abort, ResetChallenge
<1>4. ASSUME NEW u \in Player, Accept(u) \/ StartPick(u) \/ PickCommand(u)
      PROVE  signed' \subseteq signed
  BY <1>4 DEF Accept, StartPick, PickCommand, Pick
<1>5. ASSUME NEW u \in Player, SignObs(u) \/ Out(u) \/ Join(u) PROVE signed' \subseteq signed
  BY <1>5 DEF SignObs, Out, Join
<1>6. CASE Rejoin \/ HostbotOk \/ UNCHANGED vars
  BY <1>6 DEF Rejoin, HostbotOk, ResetChallenge, vars
<1> QED
  BY <1>1, <1>2, <1>3, <1>4, <1>5, <1>6 DEF Next, ChatEvent, CaptainCommand, PoolCommand

\* The comparison with == is enough: the pool never outgrows m_PoolLimit.
THEOREM PoolLimitCorrect == Spec => []PoolLimitRespected
<1>1. Init => PoolLimitRespected
  BY FS_EmptySet, PoolLimitAssumption DEF Init, PoolLimitRespected
<1>2. ASSUME TypeOK, PoolLimitRespected, [Next]_vars PROVE PoolLimitRespected'
  <2>0. signed \in SUBSET Player
    BY <1>2 DEF TypeOK
  <2>1. IsFiniteSet(signed) /\ Cardinality(signed) \in Nat
    BY <2>0, PlayerAssumption, FS_Subset, FS_CardinalityType
  <2>2. CASE signed' \subseteq signed
    <3>1. Cardinality(signed') <= Cardinality(signed) /\ Cardinality(signed') \in Nat
      BY <2>1, <2>2, FS_Subset, FS_CardinalityType
    <3> QED BY <1>2, <2>1, <3>1, PoolLimitAssumption DEF PoolLimitRespected
  <2>3. ASSUME NEW u \in Player, Sign(u) PROVE PoolLimitRespected'
    <3>1. signed' = signed \cup {u} /\ PoolLimit /= Cardinality(signed)
      BY <2>3 DEF Sign, PoolFull
    <3>2. Cardinality(signed') <= Cardinality(signed) + 1 /\ Cardinality(signed') \in Nat
      <4>1. /\ IsFiniteSet(signed \cup {u})
            /\ Cardinality(signed \cup {u}) = Cardinality(signed)
               \/ Cardinality(signed \cup {u}) = Cardinality(signed) + 1
        BY <2>1, FS_AddElement
      <4> QED BY <2>1, <3>1, <4>1
    <3> QED BY <1>2, <2>1, <3>1, <3>2, PoolLimitAssumption DEF PoolLimitRespected
  <2> QED BY <1>2, <2>2, <2>3, PoolStep
<1> QED BY <1>1, <1>2, TypeCorrect, PTL DEF Spec

---------------------------------------------------------------------------
(* Refinement.                                                             *)

\* Phases are as different as the steps they stand for.
LEMMA PhaseFacts ==
  ASSUME TypeOK
  PROVE  /\ DraftPhase = "idle" <=> ChallengeStep = 0
         /\ DraftPhase = "proposed" <=> ChallengeStep = 1
         /\ DraftPhase = "signing" <=> ChallengeStep = 2
         /\ DraftPhase = "picking" <=> Drafting
BY DEF DraftPhase, Drafting, TypeOK

\* Outside a draft the abstract teams are empty.
LEMMA NoDraft ==
  ASSUME ~Drafting
  PROVE  DraftTeam = D!NoPicks /\ DraftTurn = 1
BY DEF DraftTeam, DraftTurn, D!NoPicks, D!Captain

\* A pick is an abstract pick.
LEMMA PickRefines ==
  ASSUME IInv, IInv', ChallengeStep = 3, NEW u, NEW name, Pick(u, name)
  PROVE  D!Pick
<1> USE TeamAssumption
<1>1. Drafting /\ Drafting' /\ DraftPhase = "picking" /\ DraftPhase' = "picking"
  <2>1. ChallengeStep' \in {3, 4}
    BY DEF Pick
  <2> QED BY <2>1 DEF Drafting, DraftPhase
<1>2. /\ PickStep \in 1 .. 2 * TeamPicks /\ PickStep' = PickStep + 1
      /\ PickUser' = PickUser /\ PickUser \in {0, 1}
  BY DEF Pick, IInv, TypeOK
<1>3. /\ Team1 \in 0 .. TeamPicks /\ Team2 \in 0 .. TeamPicks
      /\ (IF PickUser = 0 THEN Team1 - Team2 ELSE Team2 - Team1) = Lead(PickStep)
  BY <1>1 DEF IInv, DraftCounts
<1>4. (ChallengersTurn => Team1 < TeamPicks) /\ (~ChallengersTurn => Team2 < TeamPicks)
  BY <1>1, <1>2, RoomToPick DEF IInv, Course
<1>5. /\ DraftTeam = [c \in {1, 2} |-> IF c = 1 THEN Team1 ELSE Team2]
      /\ DraftTeam' = [c \in {1, 2} |-> IF c = 1 THEN Team1' ELSE Team2']
  BY <1>1 DEF DraftTeam
<1>6. DraftTurn = IF ChallengersTurn THEN 1 ELSE 2
  BY <1>1 DEF DraftTurn
<1>7. DraftTurn' = IF ChallengersTurn' THEN 1 ELSE 2
  BY <1>1 DEF DraftTurn
<1>8. DraftTeam[DraftTurn] < TeamPicks
  BY <1>4, <1>5, <1>6
<1>9. IF ChallengersTurn THEN Team1' = Team1 + 1 /\ Team2' = Team2
                         ELSE Team1' = Team1 /\ Team2' = Team2 + 1
  <2>1. holdnumb1 \in Nat /\ holdnumb2 \in Nat
    BY DEF IInv, TypeOK
  <2>2. CASE ChallengersTurn
    <3>1. holdnumb1' = holdnumb1 + 1 /\ holdnumb2' = holdnumb2
      BY <2>2 DEF Pick
    <3> QED BY <2>1, <2>2, <3>1 DEF Team1, Team2
  <2>3. CASE ~ChallengersTurn
    <3>1. holdnumb2' = holdnumb2 + 1 /\ holdnumb1' = holdnumb1
      BY <2>3 DEF Pick
    <3> QED BY <2>1, <2>3, <3>1 DEF Team1, Team2
  <2> QED BY <2>2, <2>3
<1>10. DraftTeam' = [DraftTeam EXCEPT ![DraftTurn] = @ + 1]
  BY <1>5, <1>6, <1>9
<1>11. (Team1' = Team2') <=> PickStep % 2 = 0
  BY <1>2, <1>3, <1>9 DEF Lead, ChallengersTurn, FirstPickerTurn
<1>12. ChallengersTurn' <=> (IF PickStep % 2 = 0 THEN ChallengersTurn ELSE ~ChallengersTurn)
  <2>1. FirstPickerTurn(PickStep + 1) <=>
          (IF PickStep % 2 = 0 THEN FirstPickerTurn(PickStep) ELSE ~FirstPickerTurn(PickStep))
    BY <1>2 DEF FirstPickerTurn
  <2> QED BY <1>2, <2>1 DEF ChallengersTurn
<1>13. DraftTurn' = IF DraftTeam'[1] = DraftTeam'[2] THEN DraftTurn ELSE D!Other(DraftTurn)
  BY <1>5, <1>6, <1>7, <1>11, <1>12 DEF D!Other
<1> QED BY <1>1, <1>8, <1>10, <1>13 DEF D!Pick

\* Every step of the program is a step of Draft or changes nothing in it.
LEMMA DraftStep == IInv /\ [Next]_vars => [D!Next]_(D!vars)
<1> SUFFICES ASSUME IInv, [Next]_vars PROVE D!Next \/ UNCHANGED D!vars
  OBVIOUS
<1>1. IInv' /\ TypeOK /\ TypeOK'
  BY IInvStep DEF IInv
<1>2. ASSUME UNCHANGED <<ChallengeStep, draftVars>> PROVE UNCHANGED D!vars
  BY <1>2 DEF draftVars, D!vars, DraftPhase, DraftTeam, DraftTurn, Drafting, Team1, Team2,
              ChallengersTurn
<1>3. ~Drafting => DraftTeam = D!NoPicks /\ DraftTurn = 1
  BY NoDraft
<1>4. ~Drafting' => DraftTeam' = D!NoPicks /\ DraftTurn' = 1
  BY DEF DraftTeam, DraftTurn, D!NoPicks, D!Captain
<1>5. ASSUME ChallengeStep = 0, ChallengeStep' = 1 PROVE D!Propose
  <2>1. ~Drafting /\ ~Drafting' /\ DraftPhase = "idle" /\ DraftPhase' = "proposed"
    BY <1>5 DEF Drafting, DraftPhase
  <2> QED BY <1>3, <1>4, <2>1 DEF D!Propose
<1>6. ASSUME ChallengeStep = 1, ChallengeStep' = 2 PROVE D!Answer
  <2>1. ~Drafting /\ ~Drafting' /\ DraftPhase = "proposed" /\ DraftPhase' = "signing"
    BY <1>6 DEF Drafting, DraftPhase
  <2> QED BY <1>3, <1>4, <2>1 DEF D!Answer
<1>7. ASSUME NEW u \in Player, StartPick(u) PROVE D!StartPick
  <2>0. ChallengeStep = 2 /\ ChallengeStep' = 3 /\ holdnumb1' = 1 /\ holdnumb2' = TeamPicks + 2
    BY <1>7 DEF StartPick
  <2>1. /\ ~Drafting /\ Drafting' /\ DraftPhase = "signing" /\ DraftPhase' = "picking"
        /\ Team1' = 0 /\ Team2' = 0
    <3>1. ~Drafting /\ Drafting' /\ DraftPhase = "signing" /\ DraftPhase' = "picking"
      BY <2>0 DEF Drafting, DraftPhase
    <3>2. Team1' = 0 /\ Team2' = 0
      BY <2>0, TeamAssumption DEF Team1, Team2
    <3> QED BY <3>1, <3>2
  <2>2. DraftTeam' = D!NoPicks
    BY <2>1 DEF DraftTeam, D!NoPicks, D!Captain
  <2>3. DraftTurn' \in D!Captain
    BY DEF DraftTurn, D!Captain
  <2> QED BY <1>3, <2>1, <2>2, <2>3 DEF D!StartPick
<1>8. ASSUME ChallengeStep > 0, ChallengeStep' = 0 PROVE D!End
  <2>1. ~Drafting' /\ DraftPhase' = "idle"
    BY <1>8 DEF Drafting, DraftPhase
  <2>2. DraftPhase /= "idle"
    BY <1>1, <1>8, PhaseFacts DEF TypeOK
  <2> QED BY <1>4, <2>1, <2>2 DEF D!End
<1>9. ASSUME ChallengeStep = 3, NEW u, NEW name, Pick(u, name) PROVE D!Pick
  BY <1>1, <1>9, PickRefines
<1> QED BY <1>2, <1>5, <1>6, <1>7, <1>8, <1>9, StepKinds DEF D!Next

\* The challenge implements Draft.
THEOREM DraftCorrect == Spec => DraftSpec
<1>1. Init => D!Init
  <2> SUFFICES ASSUME Init PROVE D!Init
    OBVIOUS
  <2>1. ~Drafting /\ DraftPhase = "idle"
    BY DEF Init, Drafting, DraftPhase
  <2> QED BY <2>1, NoDraft DEF D!Init
<1> QED BY <1>1, IInvCorrect, DraftStep, PTL DEF Spec, DraftSpec, D!Spec
=============================================================================
