--------------------------- MODULE HostingProofs ---------------------------
(***************************************************************************)
(* Proofs about Hosting, for any hostbots, spellings, owners and number of *)
(* ids: an id tells a game ordered by guard from the other recent ones and *)
(* a challenge from other games, and no busy hostbot is ordered again.     *)
(*                                                                         *)
(* Each action is seen as a change of the pool and a change of the list.   *)
(***************************************************************************)
EXTENDS Hosting, FiniteSetTheorems, SequenceTheorems, WellFoundedInduction, TLAPS

PoolOK == pool \in Seq(Entry) /\ busy \in SUBSET Bot /\ ReadyFree
ListOK == games \in Seq(Game) /\ made \in Nat /\ GameId \in 0..(IdMod - 1) /\ Numbered /\ Spaced
LinkOK ==
  /\ six \in SUBSET Bot /\ pending \in SUBSET [bot : Bot, by : {"up", "down"}]
  /\ asked \in SUBSET Bot /\ RMKstate \in 0..2
  /\ connected \in BOOLEAN /\ checked \in BOOLEAN
Inv == PoolOK /\ ListOK /\ LinkOK

---------------------------------------------------------------------------
(* Sequences and positions.                                                *)

LEMMA MinIn ==
  ASSUME NEW S \in SUBSET Nat, S /= {}
  PROVE  Min(S) \in S
<1>1. PICK x \in S : \A y \in S : ~(<<y, x>> \in OpToRel(<, Nat))
  BY WFMin, NatLessThanWellFounded, Zenon
<1>2. \A y \in S : <<y, x>> \in OpToRel(<, Nat) <=> y < x
  BY <1>1, Zenon DEF OpToRel
<1>3. \A y \in S : x <= y
  <2>1. \A y \in S : ~(y < x)
    BY <1>1, <1>2, Zenon
  <2> QED
    BY <2>1
<1>4. \E z \in S : \A y \in S : z =< y
  BY <1>1, <1>3, Zenon
<1> QED
  BY <1>4, Zenon DEF Min

LEMMA FunctionSeq ==
  ASSUME NEW S, NEW n \in Nat, NEW f \in [1..n -> S]
  PROVE  f \in Seq(S) /\ Len(f) = n /\ DOMAIN f = 1..n
  BY SeqDef, LenProperties

\* What InOrder keeps of a sequence is a sequence, in the order it had.
LEMMA Thinned ==
  ASSUME NEW S, NEW s \in Seq(S), NEW K \in SUBSET (DOMAIN s), NEW f \in InOrder(K)
  PROVE  LET t == [i \in DOMAIN f |-> s[f[i]]]
         IN  /\ t \in Seq(S) /\ DOMAIN t = DOMAIN f /\ f \in [DOMAIN f -> DOMAIN s]
             /\ \A i, j \in DOMAIN f : i < j => f[i] < f[j]
<1>1. DOMAIN s = 1..Len(s) /\ Len(s) \in Nat /\ \A k \in DOMAIN s : s[k] \in S
  OBVIOUS
<1>2. IsFiniteSet(K) /\ Cardinality(K) \in Nat
  <2>1. IsFiniteSet(1..Len(s))
    BY <1>1, FS_Interval
  <2> QED
    BY <1>1, <2>1, FS_Subset, FS_CardinalityType, Zenon
<1>3. /\ f \in [1..Cardinality(K) -> K] /\ DOMAIN f = 1..Cardinality(K)
      /\ \A i, j \in DOMAIN f : i < j => f[i] < f[j]
  BY DEF InOrder
<1>4. [i \in DOMAIN f |-> s[f[i]]] \in [1..Cardinality(K) -> S]
  BY <1>1, <1>3
<1> QED
  BY <1>2, <1>3, <1>4, FunctionSeq

---------------------------------------------------------------------------
(* The list of games.                                                      *)

\* A list that keeps the order, the ids and the serials of games that were there.
LEMMA ListKept ==
  ASSUME ListOK, games' \in Seq(Game), made' = made, GameId' = GameId,
         NEW f \in [DOMAIN games' -> DOMAIN games],
         \A i, j \in DOMAIN games' : i < j => f[i] < f[j],
         \A i \in DOMAIN games' : /\ games'[i].id = games[f[i]].id
                                  /\ games'[i].serial = games[f[i]].serial
                                  /\ games'[i].challenge = games[f[i]].challenge
  PROVE  ListOK'
<1>1. \A i \in DOMAIN games' : Base(games'[i]) = Base(games[f[i]])
  BY DEF Base
<1>2. Numbered'
  BY <1>1, Zenon DEF ListOK, Numbered
<1>3. Spaced'
  BY <1>1, Zenon DEF ListOK, Spaced
<1> QED
  BY <1>2, <1>3 DEF ListOK

LEMMA ListSame == ListOK /\ UNCHANGED <<games, made, GameId>> => ListOK'
  BY DEF ListOK, Numbered, Spaced, Base, Apart

LEMMA GameFields ==
  ASSUME NEW g \in Game
  PROVE  /\ g.id \in 0..(2 * IdMod - 1) /\ g.serial \in Nat /\ g.challenge \in BOOLEAN
         /\ Base(g) \in Int /\ IdMod \in Nat \ {0}
  BY NumberAssumption DEF Game, Ids, Base

\* The next id is one more than the last, around IdMod.
LEMMA NextIdFacts ==
  ASSUME GameId \in 0..(IdMod - 1)
  PROVE  NextId \in 0..(IdMod - 1) /\ (NextId = GameId + 1 \/ NextId = GameId + 1 - IdMod)
  BY NumberAssumption DEF NextId

\* The games in the list are one order further from the next one.
LEMMA NumberedNext ==
  ASSUME ListOK, made' = made + 1, GameId' = NextId,
         NEW g \in Game, g.serial > 0, Base(g) \in 0..(IdMod - 1), g.serial <= made,
         made - g.serial < IdMod => Apart(made - g.serial, Base(g), GameId)
  PROVE  /\ g.serial <= made'
         /\ made' - g.serial < IdMod => Apart(made' - g.serial, Base(g), GameId')
<1>1. /\ g.serial \in Nat /\ Base(g) \in Int /\ IdMod \in Nat \ {0} /\ made \in Nat
      /\ GameId \in 0..(IdMod - 1) /\ NextId \in 0..(IdMod - 1)
      /\ NextId = GameId + 1 \/ NextId = GameId + 1 - IdMod
  BY NextIdFacts, GameFields DEF ListOK
<1>2. made' - g.serial = made - g.serial + 1 /\ g.serial <= made'
  BY <1>1
<1>3. ASSUME made' - g.serial < IdMod PROVE Apart(made' - g.serial, Base(g), GameId')
  <2>1. GameId - Base(g) \in {made - g.serial, made - g.serial - IdMod}
    BY <1>1, <1>2, <1>3 DEF Apart
  <2> QED
    BY <1>1, <1>2, <2>1, <1>3 DEF Apart
<1> QED
  BY <1>2, <1>3

\* An order is refused after its id was taken.
LEMMA ListRefused ==
  ASSUME ListOK, games' = games, made' = made + 1, GameId' = NextId
  PROVE  ListOK'
<1>1. made' \in Nat /\ GameId' \in 0..(IdMod - 1) /\ Spaced'
  BY NextIdFacts DEF ListOK, Spaced
<1>2. ASSUME NEW k \in DOMAIN games, games[k].serial > 0
      PROVE  /\ Base(games[k]) \in 0..(IdMod - 1) /\ games[k].serial <= made'
             /\ made' - games[k].serial < IdMod =>
                  Apart(made' - games[k].serial, Base(games[k]), GameId')
  <2>1. games[k] \in Game
    BY DEF ListOK
  <2>2. /\ Base(games[k]) \in 0..(IdMod - 1) /\ games[k].serial <= made
        /\ made - games[k].serial < IdMod =>
             Apart(made - games[k].serial, Base(games[k]), GameId)
    BY <1>2 DEF ListOK, Numbered
  <2> QED
    BY <1>2, <2>1, <2>2, NumberedNext
<1>3. Numbered'
  BY <1>2 DEF Numbered
<1> QED
  BY <1>1, <1>3 DEF ListOK

\* The game of an order, at the end of the list.
LEMMA ListOrdered ==
  ASSUME ListOK, made' = made + 1, GameId' = NextId,
         NEW g \in Game, g.serial = made', Base(g) = NextId, games' = Append(games, g)
  PROVE  ListOK'
<1> DEFINE n == Len(games)
<1>1. /\ n \in Nat /\ games' \in Seq(Game) /\ DOMAIN games = 1..n /\ DOMAIN games' = 1..(n + 1)
      /\ games'[n + 1] = g /\ \A k \in 1..n : games'[k] = games[k] /\ games[k] \in Game
  BY DEF ListOK
<1> HIDE DEF n
<1>2. made' \in Nat /\ GameId' \in 0..(IdMod - 1)
  BY NextIdFacts DEF ListOK
<1>3. Apart(0, Base(g), GameId') /\ Base(g) \in 0..(IdMod - 1)
  BY <1>2, NumberAssumption DEF Apart
<1>4. ASSUME NEW k \in 1..n, games[k].serial > 0
      PROVE  /\ Base(games[k]) \in 0..(IdMod - 1) /\ games[k].serial <= made
             /\ games[k].serial <= made'
             /\ made' - games[k].serial < IdMod =>
                  Apart(made' - games[k].serial, Base(games[k]), GameId')
  <2>1. /\ Base(games[k]) \in 0..(IdMod - 1) /\ games[k].serial <= made
        /\ made - games[k].serial < IdMod =>
             Apart(made - games[k].serial, Base(games[k]), GameId)
    BY <1>1, <1>4 DEF ListOK, Numbered
  <2>2. games[k] \in Game
    BY <1>1
  <2> QED
    BY <1>4, <2>1, <2>2, NumberedNext
<1>5. Numbered'
  <2> SUFFICES ASSUME NEW k \in 1..(n + 1), games'[k].serial > 0
               PROVE  /\ Base(games'[k]) \in 0..(IdMod - 1) /\ games'[k].serial <= made'
                      /\ made' - games'[k].serial < IdMod =>
                           Apart(made' - games'[k].serial, Base(games'[k]), GameId')
    BY <1>1, Zenon DEF Numbered
  <2>1. CASE k = n + 1
    <3>1. games'[k] = g /\ made' - g.serial = 0 /\ g.serial <= made'
      BY <1>1, <1>2, <2>1
    <3> QED
      BY <1>3, <3>1
  <2>2. CASE k \in 1..n
    BY <1>1, <1>4, <2>2
  <2> QED
    BY <1>1, <2>1, <2>2
<1>6. Spaced'
  <2> SUFFICES ASSUME NEW j \in 1..(n + 1), NEW k \in 1..(n + 1), j < k,
                      games'[j].serial > 0, games'[k].serial > 0
               PROVE  LET m == games'[k].serial - games'[j].serial
                      IN  m > 0 /\ (m < IdMod => Apart(m, Base(games'[j]), Base(games'[k])))
    BY <1>1, Zenon DEF Spaced
  <2>1. j \in 1..n /\ games'[j] = games[j] /\ games[j] \in Game
    BY <1>1
  <2>2. CASE k \in 1..n
    BY <1>1, <2>1, <2>2 DEF ListOK, Spaced
  <2>3. CASE k = n + 1
    <3>1. /\ games'[k] = g /\ g.serial = made' /\ Base(g) = GameId' /\ made' = made + 1
          /\ games[j].serial <= made /\ games[j].serial \in Nat /\ made \in Nat
      BY <1>1, <1>4, <2>1, <2>3, GameFields DEF ListOK
    <3>2. made' - games[j].serial > 0
      BY <3>1
    <3>3. made' - games[j].serial < IdMod => Apart(made' - games[j].serial, Base(games[j]), GameId')
      BY <1>4, <2>1
    <3> QED
      BY <2>1, <3>1, <3>2, <3>3
  <2> QED
    BY <1>1, <2>2, <2>3
<1> QED
  BY <1>1, <1>2, <1>5, <1>6 DEF ListOK

\* A game guard did not order, at the end of the list.
LEMMA ListReported ==
  ASSUME ListOK, UNCHANGED <<made, GameId>>, NEW g \in Game, g.serial = 0, games' = Append(games, g)
  PROVE  ListOK'
<1>1. /\ games' \in Seq(Game) /\ Len(games) \in Nat /\ DOMAIN games = 1..Len(games)
      /\ DOMAIN games' = 1..(Len(games) + 1) /\ games'[Len(games) + 1] = g
      /\ \A k \in 1..Len(games) : games'[k] = games[k]
  BY DEF ListOK
<1>2. \A k \in DOMAIN games' : games'[k].serial > 0 => k \in DOMAIN games /\ games'[k] = games[k]
  BY <1>1
<1>3. Numbered'
  BY <1>2 DEF ListOK, Numbered
<1>4. Spaced'
  BY <1>2, Zenon DEF ListOK, Spaced
<1> QED
  BY <1>1, <1>3, <1>4 DEF ListOK

\* What the invariant says of ids.
LEMMA IdsTell == ListOK => UniqueIds /\ ChallengeById
<1> SUFFICES ASSUME ListOK PROVE UniqueIds /\ ChallengeById
  OBVIOUS
<1>1. \A k \in DOMAIN games : games[k] \in Game
  BY DEF ListOK
<1>2. DOMAIN games \subseteq Nat
  BY DEF ListOK
<1>3. UniqueIds
  <2> SUFFICES ASSUME NEW j \in DOMAIN games, NEW k \in DOMAIN games, j /= k,
                      0 < games[j].serial, games[j].serial <= games[k].serial,
                      games[k].serial - games[j].serial < IdMod
               PROVE  games[j].id /= games[k].id
    BY Zenon DEF UniqueIds
  <2>1. /\ games[j].serial \in Nat /\ games[k].serial \in Nat
        /\ games[j].challenge \in BOOLEAN /\ games[k].challenge \in BOOLEAN
        /\ games[j].id \in Int /\ games[k].id \in Int /\ IdMod \in Nat \ {0}
    BY <1>1, GameFields
  <2>2. games[k].serial > 0
    BY <2>1
  <2>3. j < k
    BY <1>2, <2>1, <2>2 DEF ListOK, Spaced
  <2>4. /\ games[k].serial - games[j].serial > 0
        /\ Apart(games[k].serial - games[j].serial, Base(games[j]), Base(games[k]))
    BY <2>2, <2>3 DEF ListOK, Spaced
  <2>5. Base(games[j]) \in 0..(IdMod - 1) /\ Base(games[k]) \in 0..(IdMod - 1)
    BY <2>2 DEF ListOK, Numbered
  <2>6. Base(games[j]) /= Base(games[k])
    BY <2>1, <2>4, <2>5 DEF Apart
  <2> QED
    BY <2>1, <2>5, <2>6 DEF Base
<1>4. ChallengeById
  <2> SUFFICES ASSUME NEW k \in DOMAIN games, games[k].serial > 0
               PROVE  games[k].challenge <=> RmkState(games[k].id) = 2
    BY DEF ChallengeById
  <2>1. Base(games[k]) \in 0..(IdMod - 1)
    BY DEF ListOK, Numbered
  <2> QED
    BY <1>1, <2>1, GameFields DEF Base, RmkState
<1> QED
  BY <1>3, <1>4

---------------------------------------------------------------------------
(* The pool.                                                               *)

LEMMA PoolSame == PoolOK /\ UNCHANGED <<pool, busy>> => PoolOK'
  BY DEF PoolOK, ReadyFree

\* Whatever is done to each entry by itself keeps the pool, if the bots that are
\* ready after it are free after it.
LEMMA PoolEach ==
  ASSUME PoolOK, NEW e \in [DOMAIN pool -> Entry], pool' = e, busy' \in SUBSET Bot,
         \A k \in DOMAIN pool : e[k].state = 1 => e[k].name \notin busy'
  PROVE  PoolOK'
<1>1. DOMAIN pool = 1..Len(pool) /\ Len(pool) \in Nat
  BY DEF PoolOK
<1>2. pool' \in Seq(Entry) /\ DOMAIN pool' = DOMAIN pool
  BY <1>1, FunctionSeq
<1> QED
  BY <1>2 DEF PoolOK, ReadyFree

LEMMA LowerFacts == \A n \in Bot \cup Alias : Lower[n] \in Bot /\ Lowered(n) = Lower[n] /\ n /= NoName
  BY NameAssumption DEF Lowered

LEMMA EntryFields ==
  ASSUME PoolOK, NEW k \in DOMAIN pool
  PROVE  /\ pool[k] \in Entry /\ pool[k].name \in Bot \cup Alias /\ pool[k].state \in 0..3
         /\ pool[k].games \in Nat
         /\ pool[k].state = 1 => pool[k].name \notin busy
<1>1. pool[k] \in Entry
  BY DEF PoolOK
<1>2. pool[k].state = 1 => pool[k].name \notin busy
  BY DEF PoolOK, ReadyFree
<1> QED
  BY <1>1, <1>2 DEF Entry

LEMMA UpdatedEntry ==
  ASSUME NEW e \in Entry, NEW s \in 0..3, NEW n \in Nat, NEW m \in Nat
  PROVE  Updated(e, s, n, m) \in Entry /\ Updated(e, s, n, m).name = e.name
         /\ Updated(e, s, n, m).state = s
<1> DEFINE M == IF m > 0 THEN m ELSE e.max
<1>1. M \in Nat
  BY DEF Entry
<1>2. Updated(e, s, n, m) = [e EXCEPT !.state = s, !.games = n, !.max = M]
  <2>1. s < 100
    OBVIOUS
  <2> QED
    BY <2>1 DEF Updated, Entry
<1> HIDE DEF M
<1> DEFINE u == [e EXCEPT !.state = s, !.games = n, !.max = M]
<1>3. u \in Entry /\ u.name = e.name /\ u.state = s
  BY <1>1 DEF Entry
<1> QED
  BY <1>2, <1>3, Zenon

\* What is available is an entry that is ready.
LEMMA AvailableFacts ==
  ASSUME PoolOK, AvailableHostbot /= NoName
  PROVE  \E k \in DOMAIN pool : pool[k].name = AvailableHostbot /\ pool[k].state = 1
<1>1. Ready \in SUBSET Nat /\ Ready \subseteq DOMAIN pool
  BY DEF PoolOK, Ready
<1>2. Min(Ready) \in Ready /\ AvailableHostbot = pool[Min(Ready)].name
  BY <1>1, MinIn DEF AvailableHostbot
<1> QED
  BY <1>1, <1>2 DEF Ready

LEMMA AvailableName ==
  ASSUME PoolOK
  PROVE  AvailableHostbot \in Bot \cup Alias \cup {NoName}
  BY AvailableFacts, EntryFields

LEMMA GamesFacts ==
  ASSUME PoolOK, NEW name
  PROVE  HostbotGames(name) \in Nat
<1> DEFINE same == {k \in DOMAIN pool : pool[k].name = Lowered(name)}
<1>1. same \in SUBSET Nat /\ same \subseteq DOMAIN pool
  BY DEF PoolOK
<1>2. CASE same = {}
  BY <1>2 DEF HostbotGames
<1>3. CASE same /= {}
  <2>1. Min(same) \in DOMAIN pool
    BY <1>1, <1>3, MinIn
  <2> QED
    BY <1>3, <2>1, EntryFields DEF HostbotGames
<1> QED
  BY <1>2, <1>3

\* A hostbot that is ordered is ready under no entry in lower case.
LEMMA HostPool ==
  ASSUME PoolOK, NEW o, NEW challenge, Host(AvailableHostbot, o, challenge)
  PROVE  PoolOK'
<1> DEFINE name == AvailableHostbot
           n    == HostbotGames(name) + 1
           e    == UpdateHostbot(name, 2, n, 0)
<1>1. n \in Nat /\ name \in Bot \cup Alias \cup {NoName}
  BY GamesFacts, AvailableName
<1>2. /\ pool' = e
      /\ busy' = IF name = NoName THEN busy ELSE busy \cup {Lower[name]}
  BY DEF Host
<1> HIDE DEF n, name
<1>3. ASSUME NEW k \in DOMAIN pool
      PROVE  e[k] \in Entry /\ (e[k].state = 1 => e[k].name \notin busy')
  <2>1. CASE pool[k].name = Lowered(name)
    <3>1. e[k] = Updated(pool[k], 2, n, 0) /\ pool[k] \in Entry
      BY <2>1, EntryFields DEF UpdateHostbot
    <3>2. 2 \in 0..3 /\ 0 \in Nat /\ n \in Nat /\ pool[k] \in Entry
      BY <1>1, <3>1
    <3>3. Updated(pool[k], 2, n, 0) \in Entry /\ Updated(pool[k], 2, n, 0).state = 2
      BY <3>2, UpdatedEntry
    <3> QED
      BY <3>1, <3>3
  <2>2. CASE pool[k].name /= Lowered(name)
    <3>1. e[k] = pool[k]
      BY <2>2 DEF UpdateHostbot
    <3>2. name /= NoName => pool[k].name /= Lower[name]
      BY <1>1, <2>2, LowerFacts
    <3> QED
      BY <1>2, <3>1, <3>2, EntryFields
  <2> QED
    BY <2>1, <2>2
<1>4. e \in [DOMAIN pool -> Entry]
  BY <1>3 DEF UpdateHostbot
<1>5. busy' \in SUBSET Bot
  BY <1>1, <1>2, LowerFacts DEF PoolOK
<1> QED
  BY <1>2, <1>3, <1>4, <1>5, PoolEach

LEMMA HbStatePool ==
  ASSUME PoolOK, NEW b \in Bot, NEW s \in 0..3, NEW n \in Nat, NEW m \in Nat, HbState(b, s, n, m)
  PROVE  PoolOK'
<1> DEFINE e == UpdateHostbot(b, s, n, m)
<1>1. pool' = e /\ busy' = IF s = 1 THEN busy \ {b} ELSE busy
  BY DEF HbState
<1>2. Lowered(b) = b
  BY NameAssumption DEF Lowered
<1>3. ASSUME NEW k \in DOMAIN pool
      PROVE  e[k] \in Entry /\ (e[k].state = 1 => e[k].name \notin busy')
  <2>1. CASE pool[k].name = b
    <3>1. e[k] = Updated(pool[k], s, n, m) /\ pool[k] \in Entry
      BY <1>2, <2>1, EntryFields DEF UpdateHostbot
    <3>2. ASSUME NEW x \in Entry
          PROVE  /\ Updated(x, s, n, m) \in Entry /\ Updated(x, s, n, m).state = s
                 /\ Updated(x, s, n, m).name = x.name
      <4>1. /\ Updated(x, s, n, m) \in Entry /\ Updated(x, s, n, m).name = x.name
            /\ Updated(x, s, n, m).state = s
        BY UpdatedEntry, Zenon
      <4> QED
        BY <4>1
    <3> QED
      BY <1>1, <2>1, <3>1, <3>2
  <2>2. CASE pool[k].name /= b
    BY <1>1, <1>2, <2>2, EntryFields DEF UpdateHostbot
  <2> QED
    BY <2>1, <2>2
<1>4. e \in [DOMAIN pool -> Entry]
  BY <1>3 DEF UpdateHostbot
<1>5. busy' \in SUBSET Bot
  BY <1>1 DEF PoolOK
<1> QED
  BY <1>1, <1>3, <1>4, <1>5, PoolEach

LEMMA UnhostPool ==
  ASSUME PoolOK, UnhostAll
  PROVE  PoolOK'
<1>1. pool' = InState(2, 1) /\ busy' = {}
  BY DEF UnhostAll
<1>2. InState(2, 1) \in [DOMAIN pool -> Entry]
  BY EntryFields DEF InState, Entry
<1> QED
  BY <1>1, <1>2, PoolEach

LEMMA DisconnectPool ==
  ASSUME PoolOK, Disconnect
  PROVE  PoolOK'
<1> DEFINE e == [k \in DOMAIN pool |-> [pool[k] EXCEPT !.state = 0]]
<1>1. pool' = e \/ pool' = pool
  BY Zenon DEF Disconnect
<1>0. busy' = busy
  BY DEF Disconnect
<1>2. e \in [DOMAIN pool -> Entry] /\ \A k \in DOMAIN pool : e[k].state = 0
  BY EntryFields DEF Entry
<1>3. busy' \in SUBSET Bot
  BY <1>0 DEF PoolOK
<1>4. CASE pool' = e
  <2> HIDE DEF e
  <2>1. \A k \in DOMAIN pool : e[k].state = 1 => e[k].name \notin busy'
    BY <1>2
  <2> QED
    BY <1>2, <1>3, <1>4, <2>1, PoolEach
<1>5. CASE pool' = pool
  BY <1>0, <1>5, PoolSame
<1> QED
  BY <1>1, <1>4, <1>5

\* Entries added at the end are dead, or of a bot that is free.
LEMMA PoolLonger ==
  ASSUME PoolOK, NEW t \in Seq(Entry), pool' = pool \o t, busy' \in SUBSET busy,
         \A k \in DOMAIN t : t[k].state = 1 => t[k].name \notin busy'
  PROVE  PoolOK'
<1>1. /\ pool' \in Seq(Entry) /\ Len(pool) \in Nat /\ Len(t) \in Nat
      /\ DOMAIN pool = 1..Len(pool) /\ DOMAIN t = 1..Len(t)
      /\ DOMAIN pool' = 1..(Len(pool) + Len(t))
      /\ \A k \in DOMAIN pool' : pool'[k] = IF k <= Len(pool) THEN pool[k] ELSE t[k - Len(pool)]
  BY DEF PoolOK
<1>2. ASSUME NEW k \in DOMAIN pool', pool'[k].state = 1
      PROVE  pool'[k].name \notin busy'
  <2>1. CASE k <= Len(pool)
    BY <1>1, <1>2, <2>1, EntryFields
  <2>2. CASE k > Len(pool)
    <3>1. k - Len(pool) \in DOMAIN t
      BY <1>1, <2>2
    <3> QED
      BY <1>1, <1>2, <2>2, <3>1
  <2> QED
    BY <1>1, <2>1, <2>2
<1> QED
  BY <1>1, <1>2 DEF PoolOK, ReadyFree

LEMMA ClvlUpPool ==
  ASSUME PoolOK, NEW name \in Bot \cup Alias, ClvlUp(name)
  PROVE  PoolOK'
<1>1. CASE Lower[name] \in six
  BY <1>1, PoolSame DEF ClvlUp
<1>2. CASE Lower[name] \notin six
  <2> DEFINE e == [name |-> name, state |-> 1, games |-> 0, max |-> MaxGames]
  <2>1. pool' = Append(pool, e) /\ busy' = busy \ {Lower[name]}
    BY <1>2 DEF ClvlUp
  <2>2. e \in Entry
    BY NumberAssumption DEF Entry
  <2>3. e.name \notin busy'
    BY <2>1, NameAssumption DEF PoolOK
  <2> HIDE DEF e
  <2>4. Append(pool, e) = pool \o <<e>> /\ <<e>> \in Seq(Entry)
    BY <2>2, AppendIsConcat DEF PoolOK
  <2>5. \A k \in DOMAIN <<e>> : <<e>>[k].name \notin busy'
    BY <2>3
  <2>6. pool' = pool \o <<e>> /\ busy' \in SUBSET busy
    BY <2>1, <2>4
  <2> QED
    BY <2>4, <2>5, <2>6, PoolLonger
<1> QED
  BY <1>1, <1>2

LEMMA ClvlDownPool ==
  ASSUME PoolOK, NEW b, ClvlDown(b)
  PROVE  PoolOK'
<1> DEFINE K == {k \in DOMAIN pool : pool[k].name /= b}
<1>1. PICK f \in InOrder(K) : pool' = [i \in DOMAIN f |-> pool[f[i]]]
  BY DEF ClvlDown
<1>2. pool \in Seq(Entry) /\ K \in SUBSET (DOMAIN pool) /\ busy' = busy
  BY DEF PoolOK, ClvlDown
<1> HIDE DEF K
<1>3. /\ pool' \in Seq(Entry) /\ DOMAIN pool' = DOMAIN f /\ f \in [DOMAIN f -> DOMAIN pool]
      /\ \A i \in DOMAIN f : pool'[i] = pool[f[i]]
  BY <1>1, <1>2, Thinned
<1> QED
  BY <1>2, <1>3 DEF PoolOK, ReadyFree

LEMMA CheckPool ==
  ASSUME PoolOK, six \in SUBSET Bot, Check
  PROVE  PoolOK' /\ asked' \in SUBSET Bot
<1>1. PICK s \in SetToSeqs(six) : pool' = pool \o Entered(s)
  BY DEF Check
<1>2. Cardinality(six) \in Nat
  BY NameAssumption, FS_Subset, FS_CardinalityType
<1>3. s \in Seq(Bot)
  <2>1. s \in [1..Cardinality(six) -> Bot]
    BY DEF SetToSeqs
  <2> QED
    BY <1>2, <2>1, FunctionSeq
<1> DEFINE known == {k \in DOMAIN s : InPool(s[k])}
           new   == IF known = {} THEN s ELSE SubSeq(s, 1, Min(known) - 1)
<1>4. new \in Seq(Bot)
  <2>1. CASE known /= {}
    <3>1. DOMAIN s \subseteq Nat /\ DOMAIN s = 1..Len(s) /\ Len(s) \in Nat
      BY <1>3
    <3>2. Min(known) \in DOMAIN s
      BY <2>1, <3>1, MinIn
    <3>3. ASSUME NEW m \in DOMAIN s PROVE SubSeq(s, 1, m - 1) \in Seq(Bot)
      BY <1>3, <3>1, SubSeqProperties
    <3> QED
      BY <2>1, <3>2, <3>3
  <2>2. CASE known = {}
    BY <1>3, <2>2
  <2> QED
    BY <2>1, <2>2
<1>5. Entered(s) = [k \in DOMAIN new |-> [name |-> new[k], state |-> 0, games |-> 0, max |-> MaxGames]]
  BY DEF Entered
<1> HIDE DEF new
<1>6. Entered(s) \in [1..Len(new) -> Entry] /\ Len(new) \in Nat
      /\ \A k \in DOMAIN Entered(s) : Entered(s)[k].state = 0
  BY <1>4, <1>5, NumberAssumption DEF Entry
<1>7. Entered(s) \in Seq(Entry)
  BY <1>6, FunctionSeq
<1>8. PoolOK'
  <2> DEFINE t == Entered(s)
  <2>1. pool' = pool \o t /\ t \in Seq(Entry) /\ busy' \in SUBSET busy
    BY <1>1, <1>7 DEF Check
  <2>2. \A k \in DOMAIN t : t[k].state = 1 => t[k].name \notin busy'
    BY <1>6
  <2> HIDE DEF t
  <2> QED
    BY <2>1, <2>2, PoolLonger
<1>9. asked' \in SUBSET Bot
  <2>1. pool' \in Seq(Entry)
    BY <1>8 DEF PoolOK
  <2>2. \A k \in DOMAIN pool' : Lower[pool'[k].name] \in Bot
    <3>1. \A k \in DOMAIN pool' : pool'[k] \in Entry
      BY <2>1
    <3>2. \A k \in DOMAIN pool' : pool'[k].name \in Bot \cup Alias
      BY <3>1 DEF Entry
    <3> QED
      BY <3>2, LowerFacts
  <2> QED
    BY <2>2 DEF Check
<1> QED
  BY <1>8, <1>9

---------------------------------------------------------------------------
(* The actions.                                                            *)

\* An order of a game is one more id, and a game if there is a hostbot.
LEMMA HostList ==
  ASSUME PoolOK, ListOK, NEW o \in Owner, NEW challenge \in BOOLEAN,
         BumpId, Host(AvailableHostbot, o, challenge)
  PROVE  ListOK'
<1> DEFINE id == IF challenge THEN NextId + IdMod ELSE NextId
           g  == [id |-> id, bot |-> AvailableHostbot, owner |-> o, state |-> 0,
                  serial |-> made', challenge |-> challenge]
<1>1. made' = made + 1 /\ GameId' = NextId /\ made' \in Nat
  BY DEF BumpId, ListOK
<1>2. games' = Append(games, g)
  BY DEF Host
<1>3. NextId \in 0..(IdMod - 1)
  BY NextIdFacts DEF ListOK
<1>4. id \in 0..(2 * IdMod - 1)
  BY <1>3, NumberAssumption
<1>5. AvailableHostbot \in Bot \cup Alias \cup {NoName}
  BY AvailableName
<1>6. g \in Game
  BY <1>1, <1>4, <1>5 DEF Game, Ids
<1>7. Base(g) = NextId
  BY <1>3, NumberAssumption DEF Base
<1>8. g.serial = made'
  OBVIOUS
<1> HIDE DEF g
<1> QED
  BY <1>1, <1>2, <1>6, <1>7, <1>8, ListOrdered

LEMMA OrderInv ==
  ASSUME Inv, NEW o \in Owner, Ordering(o)
  PROVE  Inv'
<1>1. BumpId /\ Kept /\ RMKstate' \in {0, RMKstate}
  BY DEF Ordering, PubPriv, PrivGoBy, GoRmk, AutoHost, StartGame
<1>2. LinkOK'
  BY <1>1 DEF Inv, LinkOK, Kept, levels, link
<1>3. NothingHosted \/ \E c \in BOOLEAN : Host(AvailableHostbot, o, c)
  <2>1. (RMKstate = 2) \in BOOLEAN
    OBVIOUS
  <2> QED
    BY <2>1 DEF Ordering, PubPriv, PrivGoBy, GoRmk, AutoHost, StartGame, HostIfAvailable
<1>4. CASE NothingHosted
  <2>1. made' = made + 1 /\ GameId' = NextId /\ games' = games /\ UNCHANGED <<pool, busy>>
    BY <1>1, <1>4 DEF BumpId, NothingHosted
  <2> QED
    BY <1>2, <2>1, ListRefused, PoolSame DEF Inv
<1>5. CASE \E c \in BOOLEAN : Host(AvailableHostbot, o, c)
  BY <1>1, <1>2, <1>5, HostList, HostPool DEF Inv
<1> QED
  BY <1>3, <1>4, <1>5

\* What a hostbot says of a game changes no id.
LEMMA ListEach ==
  ASSUME ListOK, UNCHANGED <<made, GameId>>, NEW g \in [DOMAIN games -> Game], games' = g,
         \A k \in DOMAIN games : /\ g[k].id = games[k].id /\ g[k].serial = games[k].serial
                                 /\ g[k].challenge = games[k].challenge
  PROVE  ListOK'
<1>1. DOMAIN games = 1..Len(games) /\ Len(games) \in Nat
  BY DEF ListOK
<1>2. games' \in Seq(Game) /\ DOMAIN games' = DOMAIN games
  BY <1>1, FunctionSeq
<1> DEFINE f == [k \in DOMAIN games |-> k]
<1>3. f \in [DOMAIN games' -> DOMAIN games] /\ \A k \in DOMAIN games' : f[k] = k
  BY <1>2
<1> HIDE DEF f
<1> QED
  BY <1>2, <1>3, ListKept

LEMMA StateInv ==
  ASSUME ListOK, NEW id, NEW s \in {0, 1}, GameState(id, s)
  PROVE  ListOK'
<1> DEFINE g == [k \in DOMAIN games |-> IF games[k].id = id THEN [games[k] EXCEPT !.state = s] ELSE games[k]]
<1>1. games' = g /\ UNCHANGED <<made, GameId>>
  BY DEF GameState
<1>2. \A k \in DOMAIN games : games[k] \in Game
  BY DEF ListOK
<1>3. \A k \in DOMAIN games : /\ g[k] \in Game /\ g[k].id = games[k].id
                              /\ g[k].serial = games[k].serial /\ g[k].challenge = games[k].challenge
  BY <1>2 DEF Game
<1>4. g \in [DOMAIN games -> Game]
  BY <1>3
<1> HIDE DEF g
<1> QED
  BY <1>1, <1>3, <1>4, ListEach

LEMMA OwnerInv ==
  ASSUME ListOK, NEW id, NEW o \in Owner, GameOwner(id, o)
  PROVE  ListOK'
<1> DEFINE g == [k \in DOMAIN games |-> IF games[k].id = id THEN [games[k] EXCEPT !.owner = o] ELSE games[k]]
<1>1. games' = g /\ UNCHANGED <<made, GameId>>
  BY DEF GameOwner
<1>2. \A k \in DOMAIN games : games[k] \in Game
  BY DEF ListOK
<1>3. \A k \in DOMAIN games : /\ g[k] \in Game /\ g[k].id = games[k].id
                              /\ g[k].serial = games[k].serial /\ g[k].challenge = games[k].challenge
  BY <1>2 DEF Game
<1>4. g \in [DOMAIN games -> Game]
  BY <1>3
<1> HIDE DEF g
<1> QED
  BY <1>1, <1>3, <1>4, ListEach

LEMMA DelGameInv ==
  ASSUME ListOK, NEW id, DelGame(id)
  PROVE  ListOK'
<1> DEFINE K == {k \in DOMAIN games : games[k].id /= id}
<1>1. PICK f \in InOrder(K) : games' = [i \in DOMAIN f |-> games[f[i]]]
  BY DEF DelGame
<1>2. /\ games' \in Seq(Game) /\ DOMAIN games' = DOMAIN f /\ f \in [DOMAIN f -> DOMAIN games]
      /\ \A i, j \in DOMAIN f : i < j => f[i] < f[j]
  BY <1>1, Thinned DEF ListOK
<1>3. made' = made /\ GameId' = GameId
  BY DEF DelGame
<1> QED
  BY <1>1, <1>2, <1>3, ListKept

LEMMA DelListInv ==
  ASSUME ListOK, DelGameList
  PROVE  ListOK'
  BY DEF DelGameList, ListOK, Numbered, Spaced

LEMMA ReportInv ==
  ASSUME ListOK, NEW b \in Bot, NEW id \in HeardIds, NEW o \in Owner, ReportGame(b, id, o, 0)
  PROVE  ListOK'
<1> DEFINE g == [id |-> id, bot |-> b, owner |-> o, state |-> 0, serial |-> 0, challenge |-> FALSE]
<1>1. g \in Game /\ g.serial = 0
  BY NumberAssumption DEF Game, Ids
<1>2. games' = Append(games, g) /\ UNCHANGED <<made, GameId>>
  BY DEF ReportGame
<1> HIDE DEF g
<1> QED
  BY <1>1, <1>2, ListReported

LEMMA ReportsInv ==
  ASSUME Inv, Reports
  PROVE  Inv'
<1>1. ASSUME NEW b \in Bot, NEW s \in HeardStates, NEW n \in 0..MaxGames, HbState(b, s, n, MaxGames)
      PROVE  Inv'
  <2>1. PoolOK'
    <3>1. s \in 0..3 /\ n \in Nat /\ MaxGames \in Nat
      BY NumberAssumption
    <3> QED
      BY <1>1, <3>1, HbStatePool DEF Inv
  <2>2. ListOK'
    BY <1>1, ListSame DEF Inv, HbState
  <2>3. LinkOK'
    BY <1>1 DEF Inv, LinkOK, HbState, levels
  <2> QED
    BY <2>1, <2>2, <2>3 DEF Inv
<1>2. ASSUME UNCHANGED <<pool, busy>>, Kept, RMKstate' \in 0..2
      PROVE  PoolOK' /\ LinkOK'
  <2>1. PoolOK'
    BY <1>2, PoolSame DEF Inv
  <2>2. LinkOK'
    BY <1>2 DEF Inv, LinkOK, Kept, levels, link
  <2> QED
    BY <2>1, <2>2
<1>3. RMKstate \in 0..2
  BY DEF Inv, LinkOK
<1>4. ASSUME NEW id \in HeardIds, Rmk(id) PROVE Inv'
  <2>1. UNCHANGED <<pool, busy, games, made, GameId>> /\ Kept /\ RMKstate' \in 0..2
    BY <1>4 DEF Rmk, RmkState
  <2> QED
    BY <1>2, <2>1, ListSame DEF Inv
<1>5. ASSUME NEW id \in HeardIds, DelGame(id) PROVE Inv'
  <2>1. UNCHANGED <<pool, busy>> /\ Kept /\ RMKstate' \in 0..2
    BY <1>3, <1>5 DEF DelGame
  <2> QED
    BY <1>2, <1>5, <2>1, DelGameInv DEF Inv
<1>6. ASSUME NEW id \in HeardIds, NEW s \in {0, 1}, GameState(id, s) PROVE Inv'
  <2>1. UNCHANGED <<pool, busy>> /\ Kept /\ RMKstate' \in 0..2
    BY <1>3, <1>6 DEF GameState
  <2>2. ListOK'
    BY <1>6, StateInv DEF Inv
  <2> QED
    BY <1>2, <2>1, <2>2 DEF Inv
<1>7. ASSUME NEW id \in HeardIds, NEW o \in Owner, GameOwner(id, o) PROVE Inv'
  <2>1. UNCHANGED <<pool, busy>> /\ Kept /\ RMKstate' \in 0..2
    BY <1>3, <1>7 DEF GameOwner
  <2>2. ListOK'
    BY <1>7, OwnerInv DEF Inv
  <2> QED
    BY <1>2, <2>1, <2>2 DEF Inv
<1>8. ASSUME NEW b \in Bot, NEW id \in HeardIds, NEW o \in Owner, ReportGame(b, id, o, 0) PROVE Inv'
  <2>1. UNCHANGED <<pool, busy>> /\ Kept /\ RMKstate' \in 0..2
    BY <1>3, <1>8 DEF ReportGame
  <2> QED
    BY <1>2, <1>8, <2>1, ReportInv DEF Inv
<1> QED
  BY <1>1, <1>4, <1>5, <1>6, <1>7, <1>8 DEF Reports

LEMMA AdminsInv ==
  ASSUME Inv, Admins
  PROVE  Inv'
<1>1. ASSUME NEW b \in Bot, NEW by \in {"up", "down"}, AskLevel(b, by)
      PROVE  pending' \in SUBSET [bot : Bot, by : {"up", "down"}]
  BY <1>1 DEF AskLevel, Inv, LinkOK
<1>2. CASE DelRmk
  BY <1>2, ListSame, PoolSame DEF DelRmk, Inv, LinkOK, Kept, levels, link
<1>3. CASE UnhostAll
  <2>1. ListOK' /\ LinkOK'
    BY <1>3, ListSame DEF UnhostAll, Inv, LinkOK, Kept, levels, link
  <2> QED
    BY <1>3, <2>1, UnhostPool DEF Inv
<1>4. CASE DelGameList
  <2>1. PoolOK' /\ LinkOK'
    BY <1>4, PoolSame DEF DelGameList, Inv, LinkOK, Kept, levels, link
  <2> QED
    BY <1>4, <2>1, DelListInv DEF Inv
<1>5. ASSUME NEW n \in Bot \cup Alias, ClvlUp(n) PROVE Inv'
  <2>1. ListOK'
    BY <1>5, ListSame DEF ClvlUp, Inv
  <2>2. Lower[n] \in Bot
    BY LowerFacts
  <2>3. pending' \in SUBSET [bot : Bot, by : {"up", "down"}]
    BY <1>1, <1>5, <2>2 DEF ClvlUp
  <2>4. LinkOK'
    BY <1>5, <2>2, <2>3 DEF ClvlUp, Inv, LinkOK
  <2> QED
    BY <1>5, <2>1, <2>4, ClvlUpPool DEF Inv
<1>6. ASSUME NEW b \in Bot, ClvlDown(b) \/ AddHostbot(b) \/ DelHostbot(b) PROVE Inv'
  <2>1. ListOK'
    BY <1>6, ListSame DEF ClvlDown, AddHostbot, DelHostbot, Inv
  <2>2. pending' \in SUBSET [bot : Bot, by : {"up", "down"}]
    BY <1>1, <1>6 DEF ClvlDown, AddHostbot, DelHostbot
  <2>3. LinkOK'
    BY <1>6, <2>2 DEF ClvlDown, AddHostbot, DelHostbot, Inv, LinkOK, link
  <2>4. PoolOK'
    BY <1>6, ClvlDownPool, PoolSame DEF AddHostbot, DelHostbot, Inv
  <2> QED
    BY <2>1, <2>3, <2>4 DEF Inv
<1> QED
  BY <1>2, <1>3, <1>4, <1>5, <1>6 DEF Admins

LEMMA InitInv == Init => Inv
<1> SUFFICES ASSUME Init PROVE Inv
  OBVIOUS
<1>1. pool = <<>> /\ games = <<>> /\ made = 0 /\ GameId = 0 /\ busy = {}
  BY DEF Init
<1>2. PoolOK
  BY <1>1 DEF PoolOK, ReadyFree
<1>3. ListOK
  BY <1>1, NumberAssumption DEF ListOK, Numbered, Spaced
<1>4. /\ six \in SUBSET Bot /\ pending = {} /\ asked = {} /\ RMKstate = 0
      /\ connected = FALSE /\ checked = FALSE
  BY Zenon DEF Init
<1>5. LinkOK
  <2>1. connected \in BOOLEAN /\ checked \in BOOLEAN
    BY <1>4, Zenon
  <2>2. /\ pending \in SUBSET [bot : Bot, by : {"up", "down"}]
        /\ asked \in SUBSET Bot /\ RMKstate \in 0..2
    BY <1>4
  <2> QED
    BY <1>4, <2>1, <2>2, Zenon DEF LinkOK
<1> QED
  BY <1>2, <1>3, <1>5 DEF Inv

LEMMA StepInv == Inv /\ [Next]_vars => Inv'
<1> SUFFICES ASSUME Inv, [Next]_vars PROVE Inv'
  OBVIOUS
<1>1. CASE UNCHANGED vars
  BY <1>1, ListSame, PoolSame DEF Inv, LinkOK, vars, levels, link
<1>2. CASE \E o \in Owner : Ordering(o)
  BY <1>2, OrderInv
<1>3. CASE Reports \/ Admins
  BY <1>3, ReportsInv, AdminsInv
<1>4. ASSUME NEW p \in pending, LevelChanged(p, TRUE) \/ LevelChanged(p, FALSE) PROVE Inv'
  <2>1. PoolOK' /\ ListOK'
    BY <1>4, ListSame, PoolSame DEF LevelChanged, Inv
  <2>2. p \in [bot : Bot, by : {"up", "down"}]
    BY DEF Inv, LinkOK
  <2>3. LinkOK'
    BY <1>4, <2>2 DEF LevelChanged, Inv, LinkOK, link
  <2> QED
    BY <2>1, <2>3 DEF Inv
<1>5. CASE Disconnect
  <2>1. ListOK' /\ LinkOK'
    BY <1>5, ListSame DEF Disconnect, Dropped, Inv, LinkOK, levels
  <2> QED
    BY <1>5, <2>1, DisconnectPool DEF Inv
<1>6. CASE Reconnect
  BY <1>6, ListSame, PoolSame DEF Reconnect, Inv, LinkOK, levels
<1>7. CASE Check
  <2>1. ListOK'
    BY <1>7, ListSame DEF Check, Inv
  <2>2. PoolOK' /\ asked' \in SUBSET Bot
    BY <1>7, CheckPool DEF Inv, LinkOK
  <2>3. LinkOK'
    BY <1>7, <2>2 DEF Check, Inv, LinkOK, levels
  <2> QED
    BY <2>1, <2>2, <2>3 DEF Inv
<1> QED
  BY <1>1, <1>2, <1>3, <1>4, <1>5, <1>6, <1>7 DEF Next

---------------------------------------------------------------------------
\* Pool and list are well formed, the id of a game guard ordered tells it from the
\* games of the last IdMod orders and tells whether it is a challenge, and a ready
\* entry is of a bot that is free.
THEOREM HostingCorrect == Spec => []IInv
<1>1. Inv => IInv
  BY IdsTell DEF Inv, PoolOK, ListOK, LinkOK, IInv, TypeOK
<1> QED
  BY <1>1, InitInv, StepInv, PTL DEF Spec

\* No order, by whatever command, goes to an entry in lower case of a bot that was
\* ordered and did not become free since.
THEOREM NoDoubleOrderCorrect == Spec => NoDoubleOrder
<1>1. ASSUME Inv, [Next]_vars, NEW b \in Bot, Ordered(b)
      PROVE  b \notin busy
  <2>1. made' > made /\ games' /= games /\ Last(games').bot = b /\ made \in Nat
    BY <1>1 DEF Ordered, Inv, ListOK
  <2>2. made' /= made
    BY <2>1
  <2>3. PICK o \in Owner : Ordering(o)
    BY <1>1, <2>2 DEF Next, Reports, Admins, HbState, Rmk, DelGame, GameState, GameOwner,
       ReportGame, DelRmk, UnhostAll, DelGameList, ClvlUp, ClvlDown, AddHostbot, DelHostbot,
       LevelChanged, Disconnect, Reconnect, Check, vars
  <2>4. PICK c \in BOOLEAN : Host(AvailableHostbot, o, c)
    <3>1. (RMKstate = 2) \in BOOLEAN
      OBVIOUS
    <3> QED
      BY <2>1, <2>3, <3>1 DEF Ordering, PubPriv, PrivGoBy, GoRmk, AutoHost, StartGame,
         HostIfAvailable, NothingHosted
  <2>5. Last(games').bot = AvailableHostbot
    <3> DEFINE g == [id |-> IF c THEN NextId + IdMod ELSE NextId, bot |-> AvailableHostbot,
                     owner |-> o, state |-> 0, serial |-> made', challenge |-> c]
    <3>1. games' = Append(games, g) /\ games \in Seq(Game) /\ g.bot = AvailableHostbot
      BY <1>1, <2>4 DEF Host, Inv, ListOK
    <3> HIDE DEF g
    <3>2. Len(games') = Len(games) + 1 /\ games'[Len(games) + 1] = g
      BY <3>1
    <3> QED
      BY <3>1, <3>2 DEF Last
  <2>6. b /= NoName
    BY NameAssumption
  <2>7. PICK k \in DOMAIN pool : pool[k].name = b /\ pool[k].state = 1
    BY <1>1, <2>1, <2>5, <2>6, AvailableFacts DEF Inv
  <2> QED
    BY <1>1, <2>7, EntryFields DEF Inv
<1>2. Inv /\ [Next]_vars => [\A b \in Bot : Ordered(b) => b \notin busy]_vars
  BY <1>1
<1> QED
  BY <1>2, InitInv, StepInv, PTL DEF Spec, NoDoubleOrder
=============================================================================
