----------------------------- MODULE Challenge -----------------------------
(***************************************************************************)
(* The slot table m_meplay, the sign pool and the challenge of one CBNET   *)
(* (guard/bnet.cpp).  Ten player slots and two observer slots are shared   *)
(* by two ways to a game: reservation (.res, .hold) while no challenge     *)
(* runs, and a challenge, in which players .sign into a pool and the two   *)
(* captains draft teams out of it.                                         *)
(*                                                                         *)
(* Every handler runs to completion on the main loop, so each is one       *)
(* action; what interleaves is the order of the commands of many users,    *)
(* of chat events and of the hostbots' messages.  Mode votes, chat texts,  *)
(* /voice, /moderate and the timers are left out (ChallengeTimer.tla has   *)
(* the timers, Hosting.tla what starting a game does to the hostbots).     *)
(***************************************************************************)
EXTENDS Integers, FiniteSets

CONSTANTS
  Player,       \* accounts with level 1 to 5 (neither the bot nor hostbots)
  None,         \* the empty string: an empty slot, no captain
  NoPlayers,    \* the text GetRandomUser returns when nobody is signed
  Lvl,          \* access level of each player
  Banned,       \* players IsBannedName finds
  RankPass,     \* pairs ChallengeRankProtectPass lets through
  FreeHost,     \* players whose country may host whatever their level
  Foreign,      \* players whose country is not m_CountrySign
  Commands,     \* enabled command numbers, m_GHost->commands
  TeamPicks,    \* picks per captain, 4 in the program
  PoolLimit,    \* m_PoolLimit
  Word          \* 2^32, the modulus of uint32_t

ASSUME PlayerAssumption ==
  /\ IsFiniteSet(Player)
  /\ None \notin Player /\ NoPlayers \notin Player /\ NoPlayers /= None
  /\ Lvl \in [Player -> 1..5]
ASSUME TeamAssumption == TeamPicks \in Nat \ {0} /\ TeamPicks % 2 = 0
ASSUME WordAssumption == Word \in Nat /\ Word > 2 * TeamPicks + 2
ASSUME PoolLimitAssumption == PoolLimit \in Nat

VARIABLES
  users,            \* m_Users: who is in the channel
  signed,           \* the users of m_Users whose m_Signed is set: the pool
  slots,            \* m_meplay[i][0]
  meplayppl,        \* m_meplayppl: how many slots the bot thinks are reserved
  ReservesNeeded,   \* m_ReservesNeeded
  FreeReady,        \* m_FreeReady: level 1 players may host
  meplayon,         \* m_meplayon: reservations are open
  holdslots,        \* m_holdslots
  SignLock,         \* m_SignLock: a reserved game is being hosted
  Challenge,        \* m_Challenge
  ChallengeStep,    \* m_ChallengeStep
  Challenger,       \* m_Challenger
  Challenged,       \* m_Challenged
  PickUser,         \* m_PickUser: 0 if the challenger picks first
  PickStep,         \* m_PickStep: number of the next pick
  holdnumb1,        \* m_holdnumb1: next slot of the challenger's team
  holdnumb2         \* m_holdnumb2: next slot of the challenged's team

resVars   == <<ReservesNeeded, FreeReady, meplayppl, meplayon, holdslots, SignLock>>
chalVars  == <<Challenge, ChallengeStep, Challenger, Challenged>>
draftVars == <<PickUser, PickStep, holdnumb1, holdnumb2>>
vars == <<users, signed, slots, resVars, chalVars, draftVars>>

---------------------------------------------------------------------------
(* Slots: 0 and TeamPicks+1 belong to the captains.                        *)

LastSlot    == 2 * TeamPicks + 1
PlayerSlots == 0 .. LastSlot
ObsSlots    == {LastSlot + 1, LastSlot + 2}
Slots       == 0 .. LastSlot + 2
PickSlots1  == 1 .. TeamPicks
PickSlots2  == TeamPicks + 2 .. LastSlot
PickSlots   == PickSlots1 \cup PickSlots2

Names == Player \cup {None, NoPlayers}

InSlots(u)  == \E s \in Slots : slots[s] = u
MutIsInPool(u) == u \in signed
IsInPool(u) == InSlots(u) \/ u \in signed
IsCaptain(u) == u = Challenger \/ u = Challenged

First(S) == CHOOSE s \in S : \A t \in S : s <= t
SlotsOf(u, S) == {s \in S : slots[s] = u}

Inc(n) == (n + 1) % Word
Dec(n) == (n - 1) % Word

MutUnSignForgets(pool, u) == pool
UnSign(pool, u) == pool \ {u}

\* Turns: the first picker has picks 1, 4, 5, 8, the other 2, 3, 6, 7.
MutFirstPickerTurn(k) == k % 4 \in {1, 2}
FirstPickerTurn(k) == k % 4 \in {0, 1}
ChallengersTurn == FirstPickerTurn(PickStep) <=> PickUser = 0
MutLastPick(k) == k = 2 * TeamPicks - 1
LastPick(k) == k = 2 * TeamPicks

---------------------------------------------------------------------------
(* ResetChallenge.  holdpicked is meant to put the held players back into  *)
(* the pool, but IsInPool looks at the very slot the name is in.           *)

MutSlotsReset(resetobs) ==
  [s \in Slots |-> IF s = LastSlot \/ (s \in ObsSlots /\ ~resetobs) THEN slots[s] ELSE None]
SlotsReset(resetobs) ==
  [s \in Slots |-> IF s \in ObsSlots /\ ~resetobs THEN slots[s] ELSE None]

HeldBack(holdpicked) ==
  {u \in users : holdpicked /\ ~IsInPool(u) /\ \E s \in PlayerSlots : slots[s] = u}

MutClearTable(resetobs, open) ==
  /\ FreeReady' = FALSE /\ meplayppl' = 0 /\ holdslots' = FALSE /\ SignLock' = FALSE
  /\ slots' = SlotsReset(resetobs)
  /\ meplayon' = (open /\ meplayon)
  /\ UNCHANGED ReservesNeeded

\* What every reset does to reservations and slots; open: may players .res again?
ClearTable(resetobs, open) ==
  /\ FreeReady' = FALSE
  /\ meplayppl' = 0
  /\ meplayon' = open
  /\ holdslots' = FALSE
  /\ SignLock' = FALSE
  /\ slots' = SlotsReset(resetobs)
  /\ UNCHANGED ReservesNeeded

EndsChallenge(challenge) == challenge \/ ChallengeStep > 2

ForgetChallenge(challenge) ==
  IF EndsChallenge(challenge)
  THEN /\ Challenge' = FALSE
       /\ ChallengeStep' = 0
       /\ Challenger' = None
       /\ Challenged' = None
  ELSE UNCHANGED chalVars

ResetChallenge(resetobs, holdpicked, challenge) ==
  /\ ClearTable(resetobs, TRUE)
  /\ signed' = signed \cup HeldBack(holdpicked)
  /\ ForgetChallenge(challenge)
  /\ UNCHANGED <<users, draftVars>>

---------------------------------------------------------------------------
(* Chat events.                                                            *)

ClearFirst(table, u) ==
  IF \E s \in Slots : table[s] = u
  THEN [table EXCEPT ![First({s \in Slots : table[s] = u})] = None]
  ELSE table

\* EID_JOIN and EID_SHOWUSER: AddChannelUser adds nobody twice.
Join(u) ==
  /\ u \notin users
  /\ users' = users \cup {u}
  /\ UNCHANGED <<signed, slots, resVars, chalVars, draftVars>>

\* EID_LEAVE of a captain: the challenge is over; then, as for everybody, the
\* slot he still has (an observer slot survives the reset) is taken from him.
CaptainLeaves(u) ==
  LET table == SlotsReset(FALSE) IN
  /\ FreeReady' = FALSE /\ meplayon' = TRUE /\ holdslots' = FALSE /\ SignLock' = FALSE
  /\ slots' = ClearFirst(table, u)
  /\ meplayppl' = IF slots' = table THEN 0 ELSE Dec(0)
  /\ signed' = UnSign(signed, u) \cup HeldBack(TRUE)
  /\ ForgetChallenge(TRUE)
  /\ UNCHANGED ReservesNeeded

\* Picked players keep their slot while the challenge goes on.
MutKeepsSlot == FALSE
KeepsSlot == ChallengeStep > 2 /\ Challenge

MemberLeaves(u) ==
  /\ signed' = UnSign(signed, u)
  /\ IF InSlots(u) /\ ~KeepsSlot
     THEN slots' = ClearFirst(slots, u) /\ meplayppl' = Dec(meplayppl)
     ELSE UNCHANGED <<slots, meplayppl>>
  /\ UNCHANGED <<ReservesNeeded, FreeReady, meplayon, holdslots, SignLock, chalVars>>

Leave(u) ==
  /\ u \in users
  /\ users' = users \ {u}
  /\ IF Challenge /\ IsCaptain(u) THEN CaptainLeaves(u) ELSE MemberLeaves(u)
  /\ UNCHANGED draftVars

\* EID_CHANNEL: the bot (re)joins; the user list, and the pool with it, is dropped.
Rejoin ==
  /\ users' = {}
  /\ signed' = {}
  /\ UNCHANGED <<slots, resVars, chalVars, draftVars>>

---------------------------------------------------------------------------
(* Reservations.  A command that must not be whispered comes from a user   *)
(* of the channel, the others from any player.                             *)

Enough(n) == n >= ReservesNeeded
Free(table) == {s \in PlayerSlots : table[s] = None}

\* .res takes the first free player slot, or gives the own one back.
ResSlots(u) ==
  IF ~IsInPool(u)
  THEN IF Free(slots) = {} THEN slots ELSE [slots EXCEPT ![First(Free(slots))] = u]
  ELSE IF SlotsOf(u, PlayerSlots) = {} THEN slots
       ELSE [slots EXCEPT ![First(SlotsOf(u, PlayerSlots))] = None]

ResCount(u) ==
  CASE ResSlots(u) = slots -> meplayppl
    [] ResSlots(u) /= slots /\ ~IsInPool(u) -> Inc(meplayppl)
    [] ResSlots(u) /= slots /\ IsInPool(u) -> Dec(meplayppl)

\* When the last slot fills, a hostbot is asked for a game (the slots stay
\* until its .ok), or there is none and the slots, not the count, are cleared.
\* meplayon always holds here: only a challenge switches it off.
Res(u) ==
  /\ 7 \in Commands /\ u \in users \ Banned
  /\ ~Challenge /\ ~SignLock /\ meplayon
  /\ holdslots' = TRUE
  /\ meplayppl' = ResCount(u)
  /\ FreeReady' = Enough(meplayppl')
  /\ \/ /\ slots' = ResSlots(u)
        /\ SignLock' \in IF Free(slots') = {} THEN BOOLEAN ELSE {FALSE}
     \/ /\ Free(ResSlots(u)) = {}
        /\ slots' = [s \in Slots |-> IF s \in PlayerSlots THEN None ELSE slots[s]]
        /\ UNCHANGED SignLock
  /\ UNCHANGED <<users, signed, ReservesNeeded, meplayon, chalVars, draftVars>>

\* .pub and .priv: the host takes slot 0 unless slots are being held already.
HostCommand(u) ==
  /\ {10, 11} \cap Commands /= {} /\ u \in users \ Banned
  /\ ~Challenge \/ ChallengeStep < 3
  /\ FreeReady \/ Lvl[u] > 1 \/ u \in FreeHost
  /\ ~holdslots
  /\ holdslots' = TRUE
  /\ slots' = [slots EXCEPT ![0] = u]
  /\ UNCHANGED <<users, signed, ReservesNeeded, FreeReady, meplayppl, meplayon, SignLock,
                 chalVars, draftVars>>

Hold(u, victim, s) ==
  /\ 38 \in Commands /\ Lvl[u] >= 4 /\ ~Challenge
  /\ holdslots' = TRUE
  /\ slots' = [slots EXCEPT ![s] = victim]
  /\ UNCHANGED <<users, signed, ReservesNeeded, FreeReady, meplayppl, meplayon, SignLock,
                 chalVars, draftVars>>

ClrSlots(u) ==
  /\ 84 \in Commands /\ Lvl[u] >= 4 /\ ~Challenge
  /\ slots' = [s \in Slots |-> None]
  /\ UNCHANGED <<users, signed, resVars, chalVars, draftVars>>

ClrObs(u) ==
  /\ 18 \in Commands /\ Lvl[u] >= 4
  /\ slots' = [s \in Slots |-> IF s \in ObsSlots THEN None ELSE slots[s]]
  /\ UNCHANGED <<users, signed, resVars, chalVars, draftVars>>

MinSlots(u, n) ==
  /\ 39 \in Commands /\ Lvl[u] >= 4
  /\ ReservesNeeded' = n
  /\ FreeReady' = (meplayppl >= n)
  /\ UNCHANGED <<users, signed, slots, meplayppl, meplayon, holdslots, SignLock,
                 chalVars, draftVars>>

---------------------------------------------------------------------------
(* The challenge.                                                          *)

\* The captains are named and everything reserved before is dropped.
Propose(u, opponent) ==
  /\ ClearTable(FALSE, FALSE)
  /\ signed' = UnSign(signed, u) \cup HeldBack(TRUE)
  /\ Challenge' = TRUE
  /\ ChallengeStep' = 1
  /\ Challenger' = u
  /\ Challenged' = opponent
  /\ UNCHANGED <<users, draftVars>>

MayChallenge(u, v) ==
  /\ v \in users \ Banned /\ v /= u
  /\ <<u, v>> \in RankPass
  /\ Lvl[u] >= Lvl[v] /\ Lvl[v] > 1

\* .challenge: the challenger loses his place in the pool even when the player
\* he names may not be challenged (or is not found).
ChallengeCommand(u) ==
  /\ 8 \in Commands /\ u \in users \ Banned /\ Lvl[u] >= 2
  /\ ~Challenge /\ ChallengeStep = 0
  /\ \/ Propose(u, None)
     \/ \E v \in Player : MayChallenge(u, v) /\ Propose(u, v)
     \/ /\ signed' = UnSign(signed, u)
        /\ UNCHANGED <<users, slots, resVars, chalVars, draftVars>>

\* .refuse and .abort
Refuse(u) ==
  /\ 8 \in Commands
  /\ u /= Challenger /\ Challenge /\ ChallengeStep = 1 /\ u = Challenged
  /\ ResetChallenge(FALSE, TRUE, TRUE)

Abort(u) ==
  /\ 8 \in Commands
  /\ Challenge
  /\ IsCaptain(u) \/ Lvl[u] >= 4
  /\ ResetChallenge(FALSE, TRUE, TRUE)

MayAccept(u) ==
  \/ Challenged = None /\ Lvl[u] >= Lvl[Challenger] /\ <<Challenger, u>> \in RankPass
  \/ Challenged = u

\* .accept: whoever tries leaves the pool, let in or not.
Accept(u) ==
  /\ 8 \in Commands /\ u \notin Banned
  /\ u /= Challenger /\ Challenge /\ ChallengeStep = 1
  /\ signed' = UnSign(signed, u)
  /\ IF MayAccept(u)
     THEN Challenged' = u /\ ChallengeStep' = 2
     ELSE UNCHANGED <<Challenged, ChallengeStep>>
  /\ UNCHANGED <<users, slots, resVars, Challenge, Challenger, draftVars>>

MutPoolFull(pool) == Cardinality(pool) > PoolLimit
PoolFull(pool) == PoolLimit = Cardinality(pool)

MaySign(u) == ~IsInPool(u) /\ ~IsCaptain(u)

\* .sign
Sign(u) ==
  /\ 8 \in Commands /\ u \in users \ Banned
  /\ MaySign(u)
  /\ ~PoolFull(signed)
  /\ u \notin Foreign \/ Lvl[u] > 1
  /\ signed' = signed \cup {u}
  /\ UNCHANGED <<users, slots, resVars, chalVars, draftVars>>

\* .sign obs: no ban, country or limit check.
SignObs(u) ==
  /\ 8 \in Commands /\ u \in users
  /\ MaySign(u)
  /\ SlotsOf(None, ObsSlots) /= {}
  /\ slots' = [slots EXCEPT ![First(SlotsOf(None, ObsSlots))] = u]
  /\ UNCHANGED <<users, signed, resVars, chalVars, draftVars>>

MutMayLeavePool(u) == ~IsCaptain(u) \/ ~Challenge
MayLeavePool(u) == (~IsCaptain(u) /\ ChallengeStep < 3) \/ ~Challenge

\* .out: the pool place and one slot; FreeReady is decided by the count before.
Out(u) ==
  /\ MayLeavePool(u)
  /\ signed' = UnSign(signed, u)
  /\ IF InSlots(u)
     THEN /\ FreeReady' = (FreeReady /\ Enough(meplayppl))
          /\ slots' = ClearFirst(slots, u)
          /\ meplayppl' = Dec(meplayppl)
     ELSE UNCHANGED <<FreeReady, slots, meplayppl>>
  /\ UNCHANGED <<users, ReservesNeeded, meplayon, holdslots, SignLock, chalVars, draftVars>>

\* .startpick: everybody the draft needs must be in the pool.
StartPick(u) ==
  /\ 8 \in Commands
  /\ ChallengeStep = 2 /\ Cardinality(signed) > 2 * TeamPicks - 1 /\ IsCaptain(u)
  /\ PickUser' \in {0, 1}
  /\ PickStep' = 1
  /\ holdnumb1' = 1
  /\ holdnumb2' = TeamPicks + 2
  /\ ChallengeStep' = 3
  /\ UNCHANGED <<users, signed, slots, resVars, Challenge, Challenger, Challenged>>

\* Pick(picker, name): nothing happens out of turn or after the last pick.
\* After the last pick the game is started, or waits for a hostbot in step 4.
Pick(u, name) ==
  /\ u = IF ChallengersTurn THEN Challenger ELSE Challenged
  /\ PickStep \in 1 .. 2 * TeamPicks
  /\ IF ChallengersTurn
     THEN /\ slots' = [slots EXCEPT ![holdnumb1] = name]
          /\ holdnumb1' = holdnumb1 + 1
          /\ UNCHANGED holdnumb2
     ELSE /\ slots' = [slots EXCEPT ![holdnumb2] = name]
          /\ holdnumb2' = holdnumb2 + 1
          /\ UNCHANGED holdnumb1
  /\ ChallengeStep' \in IF LastPick(PickStep) THEN {3, 4} ELSE {3}
  /\ signed' = UnSign(signed, name)
  /\ PickStep' = PickStep + 1
  /\ UNCHANGED PickUser

RandomUser == IF signed = {} THEN {NoPlayers} ELSE signed

\* .pick name (one signed user matches) and .pick r
PickCommand(u) ==
  /\ 8 \in Commands
  /\ Challenge /\ ChallengeStep = 3 /\ IsCaptain(u)
  /\ \E name \in signed \cup RandomUser : Pick(u, name)
  /\ UNCHANGED <<users, resVars, Challenge, Challenger, Challenged>>

\* .ok of a hostbot: its lobby is up, whichever game it belongs to.
HostbotOk == ResetChallenge(TRUE, FALSE, FALSE)

---------------------------------------------------------------------------

Init ==
  /\ users = {} /\ signed = {}
  /\ slots = [s \in Slots |-> None]
  /\ meplayppl = 0 /\ ReservesNeeded = 5
  /\ FreeReady = FALSE /\ meplayon = TRUE /\ holdslots = FALSE /\ SignLock = FALSE
  /\ Challenge = FALSE /\ ChallengeStep = 0 /\ Challenger = None /\ Challenged = None
  /\ PickUser = 0 /\ PickStep = 1 /\ holdnumb1 = 1 /\ holdnumb2 = TeamPicks + 2

ChatEvent(u) == Join(u) \/ Leave(u)

ReserveCommand(u) ==
  \/ Res(u) \/ HostCommand(u) \/ ClrSlots(u) \/ ClrObs(u)
  \/ \E victim \in Player, s \in Slots : Hold(u, victim, s)
  \/ \E n \in 1 .. 2 * TeamPicks + 2 : MinSlots(u, n)

CaptainCommand(u) ==
  \/ ChallengeCommand(u) \/ Refuse(u) \/ Accept(u) \/ Abort(u)
  \/ StartPick(u) \/ PickCommand(u)

PoolCommand(u) == Sign(u) \/ SignObs(u) \/ Out(u)

Next ==
  \/ \E u \in Player :
       ChatEvent(u) \/ ReserveCommand(u) \/ CaptainCommand(u) \/ PoolCommand(u)
  \/ Rejoin
  \/ HostbotOk

Spec == Init /\ [][Next]_vars

---------------------------------------------------------------------------
(* Properties.                                                             *)

\* The variables keep their types; the counters are uint32_t, so m_meplayppl
\* may wrap (leaving an observer slot counts as giving back a reserved one).
TypeOK ==
  /\ users \subseteq Player /\ signed \subseteq users
  /\ slots \in [Slots -> Names]
  /\ meplayppl \in 0 .. Word - 1 /\ ReservesNeeded \in Nat
  /\ FreeReady \in BOOLEAN /\ meplayon \in BOOLEAN
  /\ holdslots \in BOOLEAN /\ SignLock \in BOOLEAN
  /\ Challenge \in BOOLEAN /\ ChallengeStep \in 0..4
  /\ Challenger \in Player \cup {None} /\ Challenged \in Player \cup {None}
  /\ PickUser \in {0, 1} /\ PickStep \in 1 .. 2 * TeamPicks + 1
  /\ holdnumb1 \in Nat /\ holdnumb2 \in Nat

Drafting == ChallengeStep >= 3
Taken(S) == {s \in S : slots[s] /= None}
Team1    == holdnumb1 - 1
Team2    == holdnumb2 - (TeamPicks + 2)

\* From the moment a challenge is accepted the captains are two players, none
\* of them in the pool or among the picked: a captain cannot draft a captain.
CaptainsOutOfPool ==
  ChallengeStep >= 2 =>
    /\ {Challenger, Challenged} \subseteq Player /\ Challenger /= Challenged
    /\ \A u \in {Challenger, Challenged} : u \notin signed /\ SlotsOf(u, PickSlots) = {}

\* A draft hands out every player once, and who is picked leaves the pool for
\* good: .sign, EID_LEAVE, a return to the channel or a second .pick do not
\* bring him back while the draft lasts.
NoDoublePick ==
  Drafting => \A u \in Player :
    /\ Cardinality(SlotsOf(u, PickSlots)) <= 1
    /\ SlotsOf(u, PickSlots) /= {} => u \notin signed

\* Nobody plays for two teams, or twice for one, from acceptance to the last pick.
OneTeamEach == CaptainsOutOfPool /\ NoDoublePick

\* The teams never differ by more than one player, each team fills its own
\* slots from the first on without a gap, and never past its last one.
DraftBalanced ==
  Drafting =>
    /\ Team1 - Team2 \in {-1, 0, 1}
    /\ Team1 + Team2 = PickStep - 1
    /\ Taken(PickSlots1) = 1 .. Team1
    /\ Taken(PickSlots2) = TeamPicks + 2 .. TeamPicks + 1 + Team2

\* A game is only started (the last pick does it, or .go in step 4) with all
\* slots of both teams taken.
TeamsComplete ==
  ChallengeStep = 4 \/ (Drafting /\ PickStep > 2 * TeamPicks) => Taken(PickSlots) = PickSlots

\* Teams are level at every pick and complete at the start.
TeamsLevel == DraftBalanced /\ TeamsComplete

\* Once picked, always picked: no command or chat event changes a taken slot
\* of the teams before the draft is over ("Come back to channel.").
PicksAreFinal ==
  [][Drafting /\ ChallengeStep' >= 3 =>
       \A s \in Taken(PickSlots) : slots'[s] = slots[s]]_vars

\* The pool never outgrows m_PoolLimit (.sign compares with == only).
PoolLimitRespected == Cardinality(signed) <= PoolLimit

\* .pub and .priv put the host into slot 0 when no slots are held: nobody who
\* reserved that slot is thrown out by it.
HostOverwritesNobody ==
  ~holdslots /\ ~Drafting => Taken(PlayerSlots) = {}

\* Nobody gets a second of the ten seats of a table that is being reserved but
\* from an admin, by .hold: neither .res, .pub and .priv nor the end of a challenge
\* give one to who is seated.
OneSeatEach ==
  [][~Drafting /\ ~Drafting' => \A u \in Player :
       \/ Cardinality(SlotsOf(u, PlayerSlots)') <= 1
       \/ SlotsOf(u, PlayerSlots)' \subseteq SlotsOf(u, PlayerSlots)
       \/ \E by \in Player, s \in Slots : Hold(by, u, s)]_vars

\* Whatever ends a challenge opens the reservations again: the bot is never
\* left with both ways to a game shut.
ReservationsReopen ==
  /\ Challenge <=> ChallengeStep > 0
  /\ ~Challenge => meplayon
  /\ Challenge => ~SignLock

\* README.md:230, "set minimum amount of slots before game can be made public".
FreeReadyMeansReserved ==
  FreeReady => Cardinality(Taken(PlayerSlots)) >= ReservesNeeded

DraftPhase == CASE ChallengeStep = 0 -> "idle"
                [] ChallengeStep = 1 -> "proposed"
                [] ChallengeStep = 2 -> "signing"
                [] ChallengeStep >= 3 -> "picking"
DraftTeam  == [cap \in {1, 2} |-> IF ~Drafting THEN 0 ELSE IF cap = 1 THEN Team1 ELSE Team2]
DraftTurn  == IF Drafting /\ ~ChallengersTurn THEN 2 ELSE 1

\* Whatever users, hostbots and chat do, the captains see a challenge that
\* implements Draft: its phases in order, picks in snake order, no team past
\* its limit.
D == INSTANCE Draft WITH phase <- DraftPhase, team <- DraftTeam, turn <- DraftTurn
DraftSpec == D!Spec

---------------------------------------------------------------------------
(* The inductive invariant behind the safety properties.                   *)

\* Captains are named step by step and never signed.
CaptainsKnown ==
  /\ ChallengeStep = 0 => Challenger = None /\ Challenged = None
  /\ ChallengeStep >= 1 => Challenger \in Player \ signed /\ Challenged /= Challenger
  /\ ChallengeStep >= 2 => Challenged \in Player \ signed

\* No draft finds a taken slot: before it only the host's slot 0 and the
\* observer slots can be taken.
TableEmpty == ChallengeStep \in {1, 2} => Taken(PickSlots) = {}

\* How far the first picker's team is ahead before pick k.
Lead(k) == IF k % 4 = 2 THEN 1 ELSE IF k % 4 = 0 THEN -1 ELSE 0

DraftCounts ==
  Drafting =>
    /\ Team1 \in 0 .. TeamPicks /\ Team2 \in 0 .. TeamPicks
    /\ Team1 + Team2 = PickStep - 1
    /\ (IF PickUser = 0 THEN Team1 - Team2 ELSE Team2 - Team1) = Lead(PickStep)
    /\ Taken(PickSlots1) = 1 .. Team1
    /\ Taken(PickSlots2) = TeamPicks + 2 .. TeamPicks + 1 + Team2
    /\ ChallengeStep = 4 => PickStep = 2 * TeamPicks + 1

DraftPlayers ==
  Drafting =>
    /\ \A s \in PickSlots :
         slots[s] \in Player => slots[s] \notin signed \cup {Challenger, Challenged}
    /\ \A s, t \in PickSlots : slots[s] \in Player /\ slots[s] = slots[t] => s = t

\* What every handler preserves: a challenge's step fixes who its captains are,
\* what the table holds and how far both teams are.
IInv ==
  /\ TypeOK /\ ReservationsReopen /\ CaptainsKnown
  /\ TableEmpty /\ DraftCounts /\ DraftPlayers
=============================================================================
