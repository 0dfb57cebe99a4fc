------------------------------ MODULE Hosting ------------------------------
(***************************************************************************)
(* How a CBNET delegates games to hostbots (guard/bnet.cpp, ghost.cpp):    *)
(* the pool m_HostBots with the state guard believes each bot to be in,    *)
(* the commands that order a game, the game list m_Games, the reports of   *)
(* the hostbots (accounts of level 6) and the check of the pool after a    *)
(* login.  Whatever may come in a whisper may come by UDP as well, with or *)
(* without a login; only what is whispered in answer is lost without one.  *)
(*                                                                         *)
(* A hostbot is another program: it is modelled by the reports the code    *)
(* accepts from it, which may be stale, wrong or in any order.             *)
(***************************************************************************)
EXTENDS Integers, FiniteSets, SequencesExt

CONSTANTS
  Bot,             \* lower-case accounts of hostbots
  Alias,           \* spellings with capitals an admin may type
  Lower,           \* tolower of every name
  Owner,           \* users who order games
  NoName,          \* the empty string
  MaxGames,        \* 10: games a bot is assumed to hold until it says otherwise
  IdMod,           \* 1000: game ids are below IdMod, those of challenges above
  HeardIds,        \* the ids hostbots report on in the model
  HeardStates,     \* the states hostbots report in the model
  MadeBound,       \* bound of the model on the orders of games
  ListBound,       \* bound of the model on m_Games
  PoolBound,       \* bound of the model on m_HostBots
  ChangeBound,     \* bound of the model on changes of level
  DropBound        \* bound of the model on disconnections

ASSUME NameAssumption ==
  /\ NoName \notin Bot \cup Alias \cup Owner /\ Bot \cap Alias = {} /\ IsFiniteSet(Bot)
  /\ Lower \in [Bot \cup Alias -> Bot] /\ \A b \in Bot : Lower[b] = b
ASSUME NumberAssumption ==
  /\ {MaxGames, IdMod} \subseteq Nat \ {0} /\ HeardIds \subseteq 0..(2 * IdMod - 1) /\ HeardStates \subseteq 0..3
  /\ {MadeBound, ListBound, PoolBound, ChangeBound, DropBound} \subseteq Nat

VARIABLES
  pool,       \* m_HostBots: name, state (0 dead, 1 ready, 2 lobby, 3 disabled), games, max
  six,        \* the accounts of level 6 in m_Infos
  pending,    \* level changes of bots asked of the database
  games,      \* m_Games
  GameId,     \* m_GameId
  RMKstate,   \* m_RMKstate
  connected,  \* m_LoggedIn
  checked,    \* m_HostbotsChecked
  asked,      \* bots whose answer to gethb is on its way
  made,       \* history: how often m_GameId was increased
  changes,    \* number of changes of level
  drops,      \* number of disconnections
  busy        \* history: bots ordered to host that did not become free since

link == <<connected, checked, asked, drops>>
levels == <<six, pending, changes>>
vars == <<pool, levels, games, GameId, RMKstate, link, made, busy>>

Entry == [name : Bot \cup Alias, state : 0..3, games : Nat, max : Nat]
Ids   == 0..(2 * IdMod - 1)
Game  == [id : Ids, bot : Bot \cup Alias \cup {NoName}, owner : Owner, state : 0..3,
          serial : Nat, challenge : BOOLEAN]
\* The positions K in increasing order: erase leaves what is kept in its order.
InOrder(K) == {f \in [1..Cardinality(K) -> K] : \A i, j \in DOMAIN f : i < j => f[i] < f[j]}
InPool(b) == \E k \in DOMAIN pool : pool[k].name = b

---------------------------------------------------------------------------
(* The pool                                                                *)

\* GetAvailableHostbot: the first ready entry with room for a game.
Ready == {k \in DOMAIN pool : pool[k].state = 1 /\ pool[k].max > pool[k].games}
AvailableHostbot == IF Ready = {} THEN NoName ELSE pool[Min(Ready)].name

Lowered(name) == IF name = NoName THEN NoName ELSE Lower[name]

\* GetHostbotGames and UpdateHostbot compare the lower-case name they are given
\* with the entries as they are spelled.
HostbotGames(name) ==
  LET same == {k \in DOMAIN pool : pool[k].name = Lowered(name)}
  IN  IF same = {} THEN 0 ELSE pool[Min(same)].games

Updated(e, s, n, m) ==
  [e EXCEPT !.state = IF s < 100 THEN s ELSE @, !.games = n, !.max = IF m > 0 THEN m ELSE @]

MutUpdateHostbot(name, s, n, m) ==
  LET same == {k \in DOMAIN pool : pool[k].name = Lowered(name)}
  IN  [k \in DOMAIN pool |-> IF same /= {} /\ k = Min(same) THEN Updated(pool[k], s, n, m) ELSE pool[k]]
UpdateHostbot(name, s, n, m) ==
  [k \in DOMAIN pool |-> IF pool[k].name = Lowered(name) THEN Updated(pool[k], s, n, m) ELSE pool[k]]

InState(s, t) == [k \in DOMAIN pool |-> IF pool[k].state = s THEN [pool[k] EXCEPT !.state = t] ELSE pool[k]]

---------------------------------------------------------------------------
(* Ordering a game                                                         *)

MutNextId == IF GameId < IdMod THEN GameId + 1 ELSE 0
NextId == IF GameId < IdMod - 1 THEN GameId + 1 ELSE 0

\* The first lobby of an owner in the game list, which need not have a hostbot.
HostbotFromOwner(o) ==
  LET own == {k \in DOMAIN games : games[k].owner = o /\ games[k].state = 0}
  IN  IF own = {} THEN NoName ELSE games[Min(own)].bot

BumpId ==
  /\ made < MadeBound /\ Len(games) < ListBound
  /\ made' = made + 1
  /\ GameId' = NextId

\* AddGame and the privby or pubby whisper to the hostbot, which is ready no more.
Host(name, o, challenge) ==
  /\ games' = Append(games, [id |-> IF challenge THEN NextId + IdMod ELSE NextId, bot |-> name,
                             owner |-> o, state |-> 0, serial |-> made', challenge |-> challenge])
  /\ pool' = UpdateHostbot(name, 2, HostbotGames(name) + 1, 0)
  /\ busy' = IF name = NoName THEN busy ELSE busy \cup {Lower[name]}

NothingHosted == UNCHANGED <<games, pool, busy>>
Kept == UNCHANGED <<levels, link>>

HostIfAvailable(o, challenge) ==
  \/ AvailableHostbot /= NoName /\ Host(AvailableHostbot, o, challenge)
  \/ AvailableHostbot = NoName /\ NothingHosted

\* pub, priv, gopub and, also by UDP, gopriv: an owner of a lobby is refused, and the id is
\* taken before the access level of the user is looked at.
PubPriv(o) ==
  /\ HostbotFromOwner(o) = NoName
  /\ BumpId
  /\ HostIfAvailable(o, FALSE) \/ NothingHosted
  /\ UNCHANGED RMKstate /\ Kept

\* privgoby by an admin for o, refused during a challenge
PrivGoBy(o) ==
  /\ HostbotFromOwner(o) = NoName
  /\ BumpId
  /\ HostIfAvailable(o, FALSE) \/ NothingHosted
  /\ UNCHANGED RMKstate /\ Kept

\* gormk: the last game a hostbot reported with rmk, once more.
GoRmk(o) ==
  /\ RMKstate /= 0
  /\ BumpId
  /\ HostIfAvailable(o, RMKstate = 2)
  /\ RMKstate' = IF AvailableHostbot /= NoName THEN 0 ELSE RMKstate
  /\ Kept

\* The tenth res, with bot_autocreate; res is not heard in a whisper.
AutoHost(o) ==
  /\ connected
  /\ AvailableHostbot /= NoName
  /\ BumpId
  /\ Host(AvailableHostbot, o, FALSE)
  /\ UNCHANGED RMKstate /\ Kept

\* go of a captain: the game is listed whether or not there is a hostbot.
StartGame(o) ==
  /\ BumpId
  /\ Host(AvailableHostbot, o, TRUE)
  /\ UNCHANGED RMKstate /\ Kept

---------------------------------------------------------------------------
(* Reports of hostbots: whispers from accounts that have level 6, which    *)
(* are heard from the server and from UDP.                                 *)

\* hbstate
HbState(b, s, n, m) ==
  /\ b \in six
  /\ pool' = UpdateHostbot(b, s, n, m)
  /\ busy' = IF s = 1 THEN busy \ {b} ELSE busy
  /\ asked' = asked \ {b}
  /\ UNCHANGED <<levels, games, GameId, RMKstate, connected, checked, drops, made>>

\* ok, ugs and delgame change or remove every game with the id.  A state is 0 in
\* the lobby and 1 to 3 for the kinds of games, 1 for all of them here.
GameState(id, s) ==
  /\ six /= {}
  /\ games' = [k \in DOMAIN games |-> IF games[k].id = id THEN [games[k] EXCEPT !.state = s] ELSE games[k]]
  /\ UNCHANGED <<pool, GameId, RMKstate, made, busy>> /\ Kept

GameOwner(id, o) ==
  /\ six /= {}
  /\ games' = [k \in DOMAIN games |-> IF games[k].id = id THEN [games[k] EXCEPT !.owner = o] ELSE games[k]]
  /\ UNCHANGED <<pool, GameId, RMKstate, made, busy>> /\ Kept

DelGame(id) ==
  /\ \E kept \in InOrder({k \in DOMAIN games : games[k].id /= id}) :
       games' = [i \in DOMAIN kept |-> games[kept[i]]]
  /\ UNCHANGED <<pool, GameId, RMKstate, made, busy>> /\ Kept

\* pg: a game guard did not order
ReportGame(b, id, o, s) ==
  /\ b \in six /\ Len(games) < ListBound
  /\ games' = Append(games, [id |-> id, bot |-> b, owner |-> o, state |-> s, serial |-> 0, challenge |-> FALSE])
  /\ UNCHANGED <<pool, GameId, RMKstate, made, busy>> /\ Kept

\* rmk with the id of the game, or delrmk
RmkState(id) == IF id > IdMod - 1 THEN 2 ELSE 1

Rmk(id) ==
  /\ six /= {}
  /\ RMKstate' = RmkState(id)
  /\ UNCHANGED <<pool, games, GameId, made, busy>> /\ Kept

---------------------------------------------------------------------------
(* Admins                                                                  *)

DelRmk ==
  /\ RMKstate' = 0
  /\ UNCHANGED <<pool, games, GameId, made, busy>> /\ Kept

UnhostAll ==
  /\ pool' = InState(2, 1)
  /\ busy' = {}
  /\ UNCHANGED <<games, GameId, RMKstate, made>> /\ Kept

DelGameList ==
  /\ games' = <<>>
  /\ UNCHANGED <<pool, GameId, RMKstate, made, busy>> /\ Kept

AskLevel(b, by) ==
  /\ changes < ChangeBound
  /\ changes' = changes + 1
  /\ pending' = pending \cup {[bot |-> b, by |-> by]}

\* clvl to 6, by the root admin: the entry is spelled as the admin spelled it.
ClvlUp(name) ==
  /\ AskLevel(Lower[name], "up")
  /\ IF Lower[name] \in six
     THEN UNCHANGED <<pool, busy, asked>>
     ELSE /\ Len(pool) < PoolBound
          /\ pool' = Append(pool, [name |-> name, state |-> 1, games |-> 0, max |-> MaxGames])
          /\ busy' = busy \ {Lower[name]}
          /\ asked' = IF connected THEN asked \cup {Lower[name]} ELSE asked
  /\ UNCHANGED <<six, games, GameId, RMKstate, connected, checked, drops, made>>

\* clvl from 6: DelHostbot
ClvlDown(b) ==
  /\ b \in six
  /\ AskLevel(b, "down")
  /\ \E kept \in InOrder({k \in DOMAIN pool : pool[k].name /= b}) :
       pool' = [i \in DOMAIN kept |-> pool[kept[i]]]
  /\ UNCHANGED <<six, games, GameId, RMKstate, link, made, busy>>

\* addhostbot and delhostbot change the level and not the pool.
AddHostbot(b) ==
  /\ b \notin six
  /\ AskLevel(b, "up")
  /\ UNCHANGED <<six, pool, games, GameId, RMKstate, link, made, busy>>

DelHostbot(b) ==
  /\ b \in six
  /\ AskLevel(b, "down")
  /\ UNCHANGED <<six, pool, games, GameId, RMKstate, link, made, busy>>

\* The query for p ends, and if it succeeded m_Infos is updated.
LevelChanged(p, success) ==
  /\ p \in pending
  /\ pending' = pending \ {p}
  /\ six' = IF ~success THEN six ELSE IF p.by = "up" THEN six \cup {p.bot} ELSE six \ {p.bot}
  /\ UNCHANGED <<changes, pool, games, GameId, RMKstate, link, made, busy>>

---------------------------------------------------------------------------
(* The link to battle.net                                                  *)

MutDropped == checked
Dropped == FALSE

\* Both disconnection branches of Update: every entry becomes dead, but that of a socket
\* error spares a pool that was not checked.
Disconnect ==
  /\ connected /\ drops < DropBound
  /\ drops' = drops + 1
  /\ connected' = FALSE
  /\ checked' = Dropped
  /\ asked' = {}
  /\ \/ pool' = [k \in DOMAIN pool |-> [pool[k] EXCEPT !.state = 0]]
     \/ ~checked /\ UNCHANGED pool
  /\ UNCHANGED <<levels, games, GameId, RMKstate, made, busy>>

Reconnect ==
  /\ ~connected
  /\ connected' = TRUE
  /\ UNCHANGED <<pool, levels, games, GameId, RMKstate, checked, asked, drops, made, busy>>

\* Hostbots of level 6 enter the pool in the order of m_Infos, but as soon as
\* one of them was in it (isnotinlist is never set again) no other does.
Entered(s) ==
  LET known == {k \in DOMAIN s : InPool(s[k])}
      new   == IF known = {} THEN s ELSE SubSeq(s, 1, Min(known) - 1)
  IN  [k \in DOMAIN new |-> [name |-> new[k], state |-> 0, games |-> 0, max |-> MaxGames]]

\* The head of Update after a login; every bot of the pool is asked with gethb.
Check ==
  /\ connected /\ ~checked
  /\ checked' = TRUE
  /\ \E s \in SetToSeqs(six) : pool' = pool \o Entered(s)
  /\ asked' = {Lower[pool'[k].name] : k \in DOMAIN pool'}
  /\ UNCHANGED <<levels, games, GameId, RMKstate, connected, drops, made, busy>>

---------------------------------------------------------------------------
\* Once m_Infos is loaded; before that no account has a level.
Init ==
  /\ pool = <<>> /\ six \in SUBSET Bot /\ pending = {} /\ changes = 0
  /\ games = <<>> /\ GameId = 0 /\ RMKstate = 0
  /\ connected = FALSE /\ checked = FALSE /\ asked = {} /\ drops = 0
  /\ made = 0 /\ busy = {}

Ordering(o) ==
  \/ PubPriv(o) \/ PrivGoBy(o)
  \/ GoRmk(o) \/ AutoHost(o) \/ StartGame(o)

Reports ==
  \/ \E b \in Bot, s \in HeardStates, n \in 0..MaxGames : HbState(b, s, n, MaxGames)
  \/ \E id \in HeardIds : Rmk(id) \/ DelGame(id) \/ \E s \in {0, 1} : GameState(id, s)
  \/ \E id \in HeardIds, o \in Owner : GameOwner(id, o)
  \/ \E b \in Bot, id \in HeardIds, o \in Owner : ReportGame(b, id, o, 0)

Admins ==
  \/ DelRmk \/ UnhostAll \/ DelGameList
  \/ \E n \in Bot \cup Alias : ClvlUp(n)
  \/ \E b \in Bot : ClvlDown(b) \/ AddHostbot(b) \/ DelHostbot(b)

Next ==
  \/ \E o \in Owner : Ordering(o)
  \/ Reports \/ Admins
  \/ \E p \in pending : LevelChanged(p, TRUE) \/ LevelChanged(p, FALSE)
  \/ Disconnect \/ Reconnect \/ Check

Spec == Init /\ [][Next]_vars

\* A living hostbot answers gethb; guard reconnects and checks its pool.
Answer(b) == b \in asked /\ \E s \in 1..3 : HbState(b, s, 0, MaxGames)

Fairness ==
  /\ \A b \in Bot : WF_vars(Answer(b))
  /\ WF_vars(Reconnect) /\ WF_vars(Check)

FairSpec == Spec /\ Fairness

---------------------------------------------------------------------------
(* Properties                                                              *)

\* The pool, the list and the counters have the types of the code, and game ids
\* stay below 2 * IdMod.
TypeOK ==
  /\ pool \in Seq(Entry)
  /\ six \subseteq Bot /\ pending \subseteq [bot : Bot, by : {"up", "down"}] /\ asked \subseteq Bot
  /\ GameId \in 0..(IdMod - 1) /\ RMKstate \in 0..2
  /\ games \in Seq(Game) /\ made \in Nat
  /\ {connected, checked} \subseteq BOOLEAN
  /\ busy \subseteq Bot

\* A step that orders b, by an entry in lower case, to host.
Ordered(b) == made' > made /\ games' /= games /\ Last(games').bot = b

\* Whoever orders and however the pool was filled, a bot that was ordered to
\* host, under whatever spelling, gets no second order by an entry in lower case
\* before it reported itself ready, all lobbies were unhosted, or clvl entered
\* it anew.
NoDoubleOrder == [][\A b \in Bot : Ordered(b) => b \notin busy]_vars

\* The ids of two games ordered within IdMod orders differ, those of challenges
\* and of remade challenges being moved by IdMod: hostbots report on a game, and
\* guard lists it, by nothing but its id.
UniqueIds ==
  \A j, k \in DOMAIN games :
    LET g == games[j]  h == games[k]
    IN  j /= k /\ 0 < g.serial /\ g.serial <= h.serial /\ h.serial - g.serial < IdMod => g.id /= h.id

\* rmk tells a challenge from other games by its id: a game guard ordered as a
\* challenge, and no other, has an id from which rmk remembers a challenge.
ChallengeById ==
  \A k \in DOMAIN games : games[k].serial > 0 => (games[k].challenge <=> RmkState(games[k].id) = 2)

\* The id of a game guard ordered, without the offset of challenges.
Base(g) == g.id - (IF g.challenge THEN IdMod ELSE 0)
\* n orders separate the bases a and b.
Apart(n, a, b) == b - a \in {n, n - IdMod}

\* The games in the list that guard ordered stand in the order of their serials,
\* and bases are as far apart as the orders were, between two and up to the next.
Numbered ==
  \A k \in DOMAIN games : games[k].serial > 0 =>
    /\ Base(games[k]) \in 0..(IdMod - 1) /\ games[k].serial <= made
    /\ made - games[k].serial < IdMod => Apart(made - games[k].serial, Base(games[k]), GameId)
Spaced ==
  \A j, k \in DOMAIN games :
    LET n == games[k].serial - games[j].serial
    IN  j < k /\ games[j].serial > 0 /\ games[k].serial > 0 =>
          n > 0 /\ (n < IdMod => Apart(n, Base(games[j]), Base(games[k])))

\* An entry that is ready and spelled in lower case is of a bot that is free.
ReadyFree == \A k \in DOMAIN pool : pool[k].state = 1 => pool[k].name \notin busy

\* Pool and list are well formed, an id tells a game, and a challenge, from the
\* rest, and ready bots are free; with what makes it inductive.
IInv == TypeOK /\ Numbered /\ Spaced /\ UniqueIds /\ ChallengeById /\ ReadyFree

\* After a disconnection every bot of the pool is asked again and, if it lives,
\* does not stay dead in the pool.
NotDeadForEver ==
  \A b \in Bot : InPool(b) ~>
    (b \notin six \/ \A k \in DOMAIN pool : pool[k].name = b => pool[k].state /= 0)
=============================================================================
