# Guard, specified

This directory holds TLA+ specifications of bnet-guard, the bot that guards a
Battle.net / PvPGN channel of a Dota community: it keeps the channel's slot
table and sign pool, runs challenges between captains, hands games to hostbots
and keeps players, bans, warns and ladder points in a MySQL database.  Each
module below is translated from the C++ in `src/guard`; `PROJECT.json` maps every
definition to the lines it stands for.

## 1. The system

One process, one main loop.  `CGHost::Update` (ghost.cpp) polls the sockets of
all realms, lets every `CBNET` process what arrived, applies the results of
finished database threads and takes at most one UDP command of a hostbot.  All
state of the bot is touched on this thread only; database calls run on threads
of their own and hand their result back through a *callable* that the main loop
polls.  What interleaves is therefore not handlers but their order: commands of
many users, chat events, whispers of hostbots, expiring timers, and answers of
the database that arrive long after the question was asked.

| Component | State it keeps | Operations | Talks to |
|---|---|---|---|
| Challenge and slot table (bnet.cpp) | `m_meplay`, `m_Users[..].m_Signed`, `m_Challenge*`, `m_Pick*`, `m_hold*`, `m_FreeReady`, `m_SignLock` | `.challenge .accept .refuse .abort .sign .out .startpick .pick .go .res .pub .priv .hold .clrslots .clrobs .minslots`, chat events, `.ok` of a hostbot | channel users, hostbots |
| Challenge timers (bnet.cpp `Update`) | `m_ChallengeTime`, `m_ChallengeTimers`, `m_ChallengeTimersRemainSpam`, `m_ChallengeTimerExtended` | time, `.ex` | challenge |
| Hosting (bnet.cpp, ghost.cpp) | `m_HostBots` with state and game counts, `m_GameId`, `CGHost::m_Games` | `.pub .priv .gopub .gopriv .privgoby .unhost .go`, `hbstate`, `ag`, `delg`, names and slots of games | hostbots over whisper and UDP |
| Database callables (ghostdb*.cpp) | `m_IdleConnections`, `m_NumConnections`, `m_OutstandingCallables`, one thread per call | `Threaded*`, `RecoverCallable`, `CMySQLCallable::Init/Close` | MySQL |
| Caches (bnet.cpp) | `m_Infos`, `m_Bans`, `m_Warns`, `m_Safelists`, `m_Mails`, ... with one callable list each | add / remove / update commands, daily refresh | database callables |
| Connection (bnet.cpp `Update`, `ProcessPackets`) | socket, `m_WaitingToConnect`, `m_LoggedIn`, `m_InChat`, `m_OutPackets` | connect, login handshake, reconnect, flood-limited sending | Battle.net server, BNLS |
| Ladder (bnet.cpp `AddGameInLadder`) | points and ranks in `m_Infos` | result of a game | caches |
| Warns, channel bans, mail, mass message, moderation | expiry times, counters, limits | commands, time | caches, chat |
| Program life cycle (ghost.cpp) | `m_Exiting`, `m_ExitingNice`, orphaned callables | signals, `.exit` | everything |

Properties that make the parts correct: a challenge proceeds in its phases and
drafts every player once, captains never, teams level; reservations cannot be
shut for good; a hostbot is not given two games; a database answer is applied to
what it was asked about; every callable is recovered once and every connection is
used by one thread; a cache converges to the database; the bot reconnects and
does not hurry; ladder points survive concurrent games; a mail is announced once and
read when shown; a channel ban stands until its hour and ends after it; the channel is
moderated during a draft; exit loses no answer.

## 2. Modules

| Module | Models | Proofs |
|---|---|---|
| `Draft` | what a challenge promises to two captains: propose, answer, pick in snake order, end at any time | |
| `Challenge` | slot table, pool, challenge and draft of a `CBNET` | `ChallengeProofs` |
| `ChallengeTimer` | the timer of a challenge and `.ex` | `ModerationProofs` |
| `Moderation` | the moderation of the channel; extends and composes `ChallengeTimer` | `ModerationProofs` |
| `Connection` | `CBNET::Update` by the state of its socket, the login, the output queue, the server | `ConnectionProofs` |
| `Callables` | queries, their threads, the pool of connections, the exits | `CallablesProofs` |
| `InfoCache` | `m_Infos` against the table it copies, ladder points | `InfoCacheProofs` |
| `Subsequence` | what a loop that erases elements leaves of a vector; used by `Mail` and `Warns` | |
| `Mail` | `m_Mails` against its table, limits, announcements, the read mark | `MailProofs` |
| `Warns` | `m_Warns` against its table, channel bans and their end | `WarnsProofs` |
| `Hosting` | hostbot pool, orders, game ids, game list, remakes | `HostingProofs` |
| `MC*` | constants of the runs | |

Every handler of the bot runs to completion on the main loop, so each is **one
action**, with all it calls inside (`ResetChallenge`, `UnSign`, the closing
`.res` count, the ids of a game).  Actions interleave in every order, because
commands of users, chat events and whispers arrive in every order; only
database threads run truly beside the loop.  In `Connection` alone a turn of
`Update` is split into steps, since the network may fail within one.  Names are
model values and chat texts are left out; a text is modelled where it becomes state
(`NoPlayers`, the text `GetRandomUser` returns and `Pick` seats; the text of a mail,
by which announcements are told apart).

### Challenge and Draft

State: `slots` is `m_meplay[i][0]`, twelve names of which the last two are
observers; `signed` the users whose `m_Signed` is set; `users` is `m_Users`;
`Challenge`, `ChallengeStep`, `Challenger`, `Challenged` and the draft variables
`PickUser`, `PickStep`, `holdnumb1`, `holdnumb2` carry the names of the source.
Steps: 0 none, 1 proposed, 2 accepted, 3 and 4 picking and ready.  The number of
picks per captain (`TeamPicks`, 4 in the program), the pool limit and the width
of `uint32_t` (`Word`) are parameters.

The actions are the branches of `ProcessChatEvent` that touch this state: `Join`,
`Leave` (of a member, or of a captain, which ends the challenge), `Rejoin` of the
bot, `Res`, `HostCommand` (.pub and .priv), `Hold`, `ClrSlots`, `ClrObs`,
`MinSlots`, `ChallengeCommand`, `Refuse`, `Abort`, `Accept`, `Sign`, `SignObs`,
`Out`, `StartPick`, `PickCommand` and the hostbot's `HostbotOk`.  `ResetChallenge`
is one operator with the source's three flags.

`Draft` is the abstract specification.  `Challenge` maps to it by its
step, by the number of seats each team has filled, and by whose turn it is; the
property `DraftSpec` says that every step of the code is one of `Draft` or
changes nothing the captains are promised.

### ChallengeTimer and Moderation

`elapsed` stands for `GetTime() - m_ChallengeTime`, `Spam` for
`m_ChallengeTimersRemainSpam`.  `Update` is the `if` chain of `CBNET::Update`,
`Tick` a second, `lag` how long `Update` has not run (the loop sleeps in
`DelayMs`).  `Extended` starts with either value: the constructor does not
initialize it.

`/moderate` is a toggle.  `Moderation` adds to the timer the channel as the server has it
(`inside`, `moderated`), as guard believes it (`ChannelModerate`), and what is under way
between them: toggles and joins the server has not read (`sent`), `EID_INFO` and
`EID_CHANNEL` that guard has not (`events`).  `Start`, `End` and `Pick` are the commands
of a challenge with the toggle each of them sends or spares; `Mod` is the admin's;
`Join` is `.channel` and the join after a login; `Operator` somebody else who toggles
or throws guard out; the server may refuse what it reads.  `HearInfo` corrects the belief.
`HearChannel` does not, nor does a lost connection (`Drop`), which resets neither the
challenge nor the flag.  Guard starts logged out with the flag FALSE, and may come, by a
login or a move, into a channel in either state.  `stale` records that it came into one
with another state in mind and heard no info since, `disturbed` what may have turned a
toggle of a challenge the wrong way; the properties except these two, and nothing else.
Only `.challenge` needs a login, since it is not heard in a whisper and UDP
commands are whispers.

### Connection

A turn of `CBNET::Update` goes through `pc`: at the `head` the hostbots are checked
(`Check`), then comes the `branch` of the socket's state (`LostByError`, `Lost`,
`Connect`, `StayAway`, `Connected`, `StillConnecting`, `ConnectTimedOut`, `Recv`);
a connected socket goes on to `process`, one handler a packet (`HandleYes`,
`HandleNo`, `HandlePing`, `HandleEvent`, `Processed`), and to `send` (`Send`: one
message of the queue, a NULL packet, the socket).  `packets` is `m_Packets`, which
no disconnection empties; `queued` the length of `m_OutPackets`, which only a new
connection empties; `disc`, `try`, `out` and `null` the ages of the four times
guard remembers, capped where they stop mattering.

The login is six requests, each sent on the answer to the one before; the three in
`Judged` may be refused.  The server is outside: it reads what it expects in order
(`ServerReads`), says more (`ServerSays`), closes, resets or vanishes (`ServerFails`),
and TCP gives up on a vanished one when there is something to send (`GiveUp`).

Commands reach guard on two ways: as an event in `packets` (`HandleEvent`), and between
two turns by UDP (`Relay`): `CGHost::Update` makes a whisper of the line and calls
`ProcessChatEvent` in any state of the socket (ghost.cpp:773).  Both do what `Obey` says:
nothing, an answer through the queue or past it, both of which need a login, or the
report of a hostbot, which does not.  `reported` is the state guard has of a hostbot and whether it
was logged in when that came; `Announce` are the messages that timers of `Update` queue.

### Callables

A callable has a thread state (`none`, `started`, `querying`, `ready`), a connection
and a holder: a vector of the `CBNET` (`bnet`), one of its list pointers,
`CGHost::m_Callables` (`ghost`), or `lost` when its only pointer was
overwritten.  `idle` is `m_IdleConnections`, in which NULL can stand, left by a
callable that never got a connection.  `ThreadInit` and `ThreadClose` are the
steps of the thread; `Consume` is the poll of the main loop.  `Signal`,
`ExitCommand`, `ExitNicely`, `Shutdown` are the ways out.

### InfoCache

A query is issued by a command from what `m_Infos` says, executed on the table
by its thread at some later time (or failed), and applied to the cache when
consumed: three actions, between which anything else happens.  `table` keeps the
rows of each account, since the table has no unique name; a list query carries
the snapshot it read.  Points wrap at `Width`.  History variables record what
the database accepted (`ever`), whether anything failed or overlapped, and what
players were told they earned (`fair`).

### Mail

The pattern of `InfoCache` for rows that belong to pairs of users.  `MailCommand` is
`.mail` with its two limits; `AnnMail` and `HostbotMail` write without a look at
them; `Join` is the chat event, which copies new announcements to the user, shows
what is unread and marks all as read; `Mailbox`, `DelMail`, `Refresh`,
`DailyRefresh`; `Execute`, `Fail` and `Consume` of the queries.  The text of a mail
is the number of the command that wrote it.  `shown` records which text was shown to
whom, `bypassed` that mail was written without a look at the limits, `disorder` that
something was asked before `m_Mails` knew what came before, or failed.

### Warns

Three places say whether a user is banned from the channel: the server (`banned`), the
row of `warns` with the hour of its end (`table`), and `m_Warns` (`cache`), on which
every decision is made.  `FirstWarn`, `NextWarn`, `LastWarn` are the branches of
`Warn`; `Cban`, `DelCban`, `FixCban`, `DelWarn`, `EraseWarn`, `Info`, `Reload` commands;
`Join` the chat event that bans again whose row has a ban; `Check` the quarter
hour of `Update`; `Tick` an hour.  `lost` records whom the server may keep out
although no row says until when, and is what `BanEnds` must except.

### Hosting

`pool` is `m_HostBots`, a sequence because an account may be in it twice and in
other spellings; `games` is `CGHost::m_Games`; `six` the level 6 accounts of
`m_Infos`, changed by queries on their way (`pending`).  A hostbot is a program
outside the repository: it is modelled by the reports guard accepts from it, in
any order, true or stale.  Actions are the commands that order a game, `.unhost`,
`.rmk`, `.clvl`, the reports `hbstate`, `ag` and `delg`, disconnection,
reconnection and the check of the pool after it.

## 3. What the runs check

| Run | Question | Bounds, and why they are enough |
|---|---|---|
| `draft` | Does every interleaving of joining, leaving, signing, accepting, aborting, observing and picking draft two level teams of distinct players, picks final? Does the challenge implement `Draft`? | Six players, two picks each: the smallest draft in which one captain picks twice in a row and two players stay over. `Word = 7` makes the counter wrap. `MCBound`: one observer. |
| `table` | Under every command of reservation, admins and challenge at once: is a seat ever doubled, does a host overwrite a seated player, can reservations be shut for good? | Three players (admin, captain, guest from abroad), at most two seats taken, two values of the minimum. |
| `timer` | Is `.ex` allowed only in the last minute of the challenge it extends, and does that minute come back? Does guard's idea of the moderation follow the channel, and is a draft moderated? | 20 seconds for 600, in proportion, lag of 1. `WayBound = 3`: a toggle crosses another and the answer to a third, or a move and the answer to it. |
| `connection` | Does guard believe in a login the server has not granted, chat before it, trust past a login what hostbots reported in it, hurry? Does it come back after every failure? | One second for each time but the delay, which takes two; a `Limit` of 0, so that one message fills the queue and the next is dropped; `StreamBound = 2`: the server, timers and UDP add nothing to two elements in streams and queue, which is enough for an answer with something behind it. Six requests, as in the code. |
| `callables` | Is each connection used once, the pool bounded and counted, each query recovered, and does a nice exit wait and end? | Three callables, one list pointer, a pool limit of 0: limit and overflow are reached. |
| `infocache` | What may `m_Infos` show while queries overlap, and does it recover? | Two accounts, two commands, any number of daily refreshes. A game issues three queries, so five overlap. |
| `mail` | Do limits hold, is an announcement copied once, a mail read only when shown, may ids coincide, and does `m_Mails` recover? | Two users, one an admin, two commands, three queries: a join issues two. Limits of 2 and 1 with a mail in the table from the start: both are reached and passed by announcements. |
| `warns` | Do third warns ban, bans stand until their hour and end after it, and does `m_Warns` get the rows of the table? | Two users, two commands and two queries: a third warn issues two. `MaxWarns = 1`, bans of an hour, two hours; the table may start with a ban that is over. |
| `hosting` | Is a hostbot ordered twice, does it stay dead after a disconnection, are ids of recent games distinct and challenges told from others across the wrap? | A hostbot that may be in the pool twice and in two spellings; reports and whispered commands also while guard is away, as UDP brings them; three orders with `IdMod = 2` wrap; one disconnection; two changes of level or list. |
| `minslots`, `leak`, `lost_points` | Three statements of the documentation or the code's own comments that the code does not keep, see below. | The smallest instances that show them. |

Deadlock checking is off where the system may stop: users may stop typing and
a bot whose bounds are used up has nothing to do.  It is on in `connection`: guard
always has a turn to take.

Bounds of the model appear only in guards and are named: `MadeBound`,
`ListBound`, `PoolBound`, `ChangeBound`, `DropBound` (Hosting), `CountBound`
(Callables), `MaxCommands` (InfoCache, Mail, Warns), `MaxQueries` (Mail, Warns),
`MaxHour` (Warns), `StreamBound` (Connection), `WayBound` (Moderation), and the two
`MCBound` constraints.

Properties of `Mail` and `Warns` that speak of order (`~disorder => ...`) say what the
code keeps as long as each command finds the copy up to date; what it does otherwise
is in the list below.  `MailAccepted`, `Heals`, the bound of the warnings and `BanEnds`
hold in every order and with every failure.

Each property of a passing run has a *mutant*: an operator `Mut...` beside the
definition it changes, which is the code with a plausible bug (a dropped test, an
off-by-one, a missing reset).  With the mutant in place the run must fail.

### Where code and documentation part

* **Minimum of slots** (`minslots`). README.md:230 wants a minimum of reserved slots
  before a game can be made public.  `m_meplayppl` is decremented for seats it never
  counted (bnet.cpp:4937); as `uint32_t` it wraps and hosting opens with hardly a
  seat reserved.
* **Leaked callables** (`leak`). ghostdb.h:249 warns not to leak callables;
  `.refresh`, `.fix`, `.cal` and `AddGameInLadder` assign a list pointer while its
  query runs (bnet.cpp:2622).
* **Lost points** (`lost_points`). Two results handled before the first is consumed
  both start from the same points; one of two announced gains is overwritten
  although every query succeeds (bnet.cpp:7161, 7212).

The models contain further behaviour that a reader may want to know of and no
run is spent on.

* Challenge: `.ex` answers "+5 min till autoabort.", but when the time is up `Update`
  only starts the second half again (695).  A random pick from an emptied pool seats
  the text "No players in pool." (7443); `holdpicked` puts nobody back (6203).
* Hosting: a hostbot entered by `.clvl` with a capital stays ready when it is ordered,
  since `UpdateHostbot` compares lower-case names (3618, 7364); `NoDoubleOrder` is asked only
  of orders by an entry in lower case.  `.delhostbot` leaves the account in the pool (2711); after the
  first account found in the pool the check adds no other, as `isnotinlist` is never
  set again (440).
* Mass messages, which no module models: a hostbot's `.fm` is let through within 30
  seconds of the last one and refused, for good, after them (2420), where its answer
  promises one every 30 seconds; `m_MassMessageCalledBy` and `m_ssList` are set before a
  message is refused (6133), so the count of an earlier one, or the list of `.userson`, goes to whoever
  asked last; `!Message.find(...) != npos` is always true (5884), so `.userson` lists
  users last seen elsewhere as in games.
* Ladder: the test that should keep a loser's points above 0 is always true, so they
  wrap (7180).
* Connection: the log promises to wait 90 seconds after an error (1357) where it waits
  30, as everywhere.  A server that vanished is found only by a NULL packet.  The
  queue drops every message after the eleventh, the announcement of a mode that was
  voted among them (5936, 8252); orders to hostbots go past the queue.  A hostbot that
  reports by UDP while guard is away comes alive in the pool (ghost.cpp:773), and if the next
  disconnection is an error before any check it stays so into the login after it
  (1365).
* Moderation: neither a lost connection, nor `.channel` (2755), nor `EID_CHANNEL` (5859) resets
  `m_ChannelModerate`, and a guard restarted in the middle of a draft begins with FALSE
  (195) in a channel that is moderated.  With a wrong flag `.startpick` sends a toggle
  that opens the channel, or none, and `ResetChallenge` moderates nothing or lifts what is
  not there, until an `EID_INFO` tells guard better.
* Mail: limits are compared with `==`, so a box that an announcement or a hostbot took
  past its limit is open again.  Who ever sent a mail is shown no announcements.
  `.delmail` deletes every mail of the user that shares the id.  A mail written while
  a mark is under way is marked read unseen; who joins twice before the first copy is
  consumed gets an announcement twice.
* Warns: `.info` about a user whose ban has ended frees the one who asks (5302).
  `.cban fix` frees everybody with a ban, where README.md:252 speaks of expired ones.
  `.erasewarn` forgets a ban the server keeps, as does an UPDATE that fails or
  meets no row.  Who joins between "/unban" and the consumed result is banned again,
  for ever.  Two quick warns count once.  A third warn on a level above 3 starts
  again from none and bans nobody.

## 4. Fairness

Safety is checked without fairness.  Users, admins, signals, other operators and
hostbots' initiative are never fair.  What is fair:

* `Callables!Fairness`: threads run and MySQL answers; the main loop polls and
  carries out an exit it has begun.  The loop in `main` is unconditional, so weak
  fairness of its steps is what the code gives.
* `Connection!Fairness`: the loop goes on turning (weak).  Time, the server's reading
  and TCP giving up get their chance only between turns, hence strong fairness.  The
  server and the network may fail as often as they like until `Settle`; `ComesBack`
  speaks of runs in which they settle.
* `InfoCache!Fairness`: queries are executed or fail, results are consumed, the daily
  refresh comes; and the database does not fail every list for ever (strong
  fairness of executing a list query), the one assumption on the environment
  without which nothing could heal.  `Mail!Fairness` and `Warns!Fairness` are the
  same; `Warns` adds that hours pass and that the check of the bans, which runs 96
  times between two daily refreshes, is not for ever met at a bad moment (strong).
* `Hosting!Fairness`: guard reconnects and checks its pool (the loop again), and a
  hostbot that was asked answers.
* `Moderation!ModFairSpec`: the loop and the clock go on (weak).  The server, its answers
  and logins need no fairness, since only `WindowComes` is a property of liveness there.

## 5. Proofs

`ChallengeProofs` proves, for every set of players, every even number of picks, every
pool limit, every level assignment and set of enabled commands, from the named
assumptions of `Challenge`:

* `TypeCorrect`; `IInvCorrect`: the inductive invariant holds;
* `CaptainsCorrect` and `NoDoublePickCorrect`, together `OneTeamCorrect`;
  `BalanceCorrect` and `CompleteCorrect`, together `TeamsLevelCorrect`; `ReopenCorrect`;
* `PicksFinalCorrect`: the action property, and `PoolLimitCorrect`;
* `HostCorrect`: `.pub` and `.priv` throw nobody out, and `OneSeatCorrect`, that only
  `.hold` gives a second seat, both through `TableStep` (what a step outside a draft does to
  the seats);
* `DraftCorrect`: `Challenge` implements `Draft`.

The safety properties are not inductive: that the last pick completes both
teams depends on how many picks were made, that the captains are not drafted depends on
what `.accept` refused, and the numbers of the next seats survive an aborted draft.
`IInv` therefore says what holds at each step of a challenge: before
`.startpick` no team seat is taken, during the draft each `holdnumb` is the first
free seat of its team and the number of seats taken is a function of `PickStep` and
of who began, a picked player is neither signed nor a captain, and whatever ended a challenge
has opened reservations again.  TLC checks `IInv` in `draft`.  The proof has a lemma
per action that can disturb a part (`ResetCourse`, `StartPickCourse`, `PickCourse`,
`ProposeCourse`, `AcceptCourse`), a lemma for all that leave the challenge alone
(`Quiet`), and joins them in `CourseStep` and `IInvStep`.  Two facts carry the rest:
`LeadStep`, the arithmetic of turns (k mod 4), and `ResetFacts`, that `holdpicked` puts
nobody back.  Refinement goes through `PickRefines` and `DraftStep`.

`ModerationProofs` proves of `ChallengeTimer` first, for every length of the timer,
`ExOnlyLateCorrect` and `TimerTypeCorrect`: the invariant adds that a timer runs only
during a challenge.  Then, for every bound on what is under way: `TimerImplemented`, that the
composition implements the timer, so that what is proved of the timer holds in it;
`BeliefCorrect`, by an invariant about the events under way: the last of them,
or the belief when there is none, is the channel (`Told`), wherever guard started, logged in
or moved; and `ModeratedCorrect`, whose invariant (`Undisturbed`) says that a channel guard
knew, and nothing disturbed, either is as the challenge wants it, with at most the info of that
under way (`Answered`), or will be when the one toggle under way is read (`OnItsWay`).

`CallablesProofs` proves for every number of callables and connections, every pool limit
and every bound: `CallablesCorrect`, the inductive invariant, and from it
`ExclusiveCorrect`, `AccountingCorrect` and `NiceExitCorrect`.  `ConnectionExclusive`
is not inductive because a connection passes from the pool to a thread and back
through a callable that nobody may hold any more; the invariant follows each
connection through idle, handed over and used, and the counter through the
callables that still owe it (`m_NumConnections` is the size of what is idle and under
way).  The proof is split into the part that moves connections (`Pool`) and the part
that leaves them alone.

`InfoCacheProofs` proves for every set of accounts, every width and default of the points:
`InfoCacheCorrect` and `AcceptedCorrect`, that `m_Infos` shows no row the database has
not accepted.  The invariant says the same of the table, of the snapshot a list
query carries, and of the result a query will apply; since every one of these is a
sequence or set over what was ever accepted, a step either adds to `ever` first or
moves rows between places that are already over it.  `SequentialCorrect` and
`OneRowCorrect` are about runs in which no query failed and none was asked while another
was outstanding: `m_Infos` then is the table whenever nothing is outstanding, and no
account has two rows.  Their invariant (`AloneInv`) has at most one query, and says of it
that a list which was read is the table, and that another was asked when both were equal and
makes them equal again when it is consumed (`Sole`).  An UPDATE changes every row of an
account and the code only the first it finds, so that each account has one row
is needed for the equality (`OneRowSet`), and the equality for the one row.

`ConnectionProofs` proves for every delay, timeout, period, wait and limit of the queue:
`ConnectionCorrect`, the inductive invariant, and from it `ServerAgreesCorrect`,
`PoliteCorrect`, `DeadWhileAwayCorrect` and `AttemptsSpacedCorrect`.  `ServerAgrees` alone is
not inductive: what the bot believes of its login follows from an answer that is on
the way, so the invariant says that a fresh connection carries nothing, that at most one
request or answer of the login is under way, and how far the login is on both sides for each
packet that can be (`Telling`), that messages wait only once it is over, and that a
hostbot which reported in it is checked before the branch of an error can spare it
(`Known`).  `Known` and `DeadWhileAway` speak of reports that came during a login: those
that UDP brings while guard is away are in the model, and the code promises nothing of them.
`AttemptsSpaced` needs in addition that, while the bot waits to reconnect, the disconnection
is no older than the last attempt (`disc <= try`, both ages).

`HostingProofs` proves for every set of hostbots, spellings and owners and every number of ids:
`HostingCorrect`, the inductive invariant with distinct ids and challenges told by their
ids, and `NoDoubleOrderCorrect`.  `UniqueIds` compares two games of any age, so it is
not inductive: an order must know of each game in the list how far its id is from the
next.  The invariant says so without remainders: serials rise along the list, and two
bases (ids without the offset of challenges) are as far apart as their orders, or that
less `IdMod` (`Numbered`, `Spaced`).  A deletion keeps the order of what it leaves
(`ListKept`), and the smallest position of a ready entry exists by well-foundedness (`MinIn`).

`MailProofs` proves for every finite set of users and admins and all limits above 0:

* `MailCorrect`: types, and that whatever is in the table, in `m_Mails` or in the
  snapshot of a list was accepted by the database, in every order and with every failure;
* `IdsCorrect`, `LimitsCorrect`, `AnnouncementsCorrect`: ids are distinct, a box that only
  `.mail` filled is within its limits, and nobody has an announcement twice, all as
  long as commands find `m_Mails` up to date (`~disorder`);
* `ReadCorrect`: under the same condition, a mail is marked as read only if its text was
  shown to its receiver.

The three in the middle rest on `OrderInv`.  Between the table and `m_Mails` there may be any
number of marks, which change no letter, but at most one query that does, and `Pending`
says for each operation by what the two differ before and after it is executed; `Box`
says what the letters themselves satisfy, and `Fresh` why one more of them may be added.
That letters are equal is not enough for `ReadCorrect`, since the mark that is under way
will set what was not yet written when it was asked: `SeenInv` says of every
user with such a mark that all mail for them, in the table, in `m_Mails` and still to be
inserted, has been shown (`Told`).  `LimitAssumption` is there for the mail of an
earlier run, which is within the limits.

`WarnsProofs` proves for every finite set of users, every limit of warns above 0 (the code has 2), every length of a
ban and every number of hours: `WarnsCorrect`, the inductive invariant, and from it
`SameWarnsCorrect`, that `m_Warns` has the rows of the table when nothing is outstanding
and nothing was asked too early or failed; `WarningsCorrect`, that a third warn in a row
bans while nothing was; and `BansStand`, the action property that then no step but an
admin's command has the server free somebody whose ban, by the row, still
runs.  `SameWarns` compares two sequences whose rows come in different orders, so the invariant compares by users: each has at most one row on
either side (`OneEach`), and the two rows and the queries about that user are a `Pair`.  An
UPDATE of the warnings and one of the ban may be outstanding for the same
row and be executed and consumed in either order; `Agree` says which fields are equal
meanwhile, and `Beside` which queries may stand beside one another.  `Covered`
adds where the warns of a user are to be found while they are on their way.  The steps
are proved for pure sets of rows and queries first (`ExecutedPair`, `ConsumedPair`,
`IssuedPair`) and then for the sequences (`WrittenEffect`, `CopiedEffect`).

Both modules erase from vectors.  The kept elements are written as those at the
positions that are kept, in their order (`Subsequence`), since the facts of `SelectSeq`
need induction over data.  The facts of positions follow from cardinalities:
`NthBijection` says that the first, second, ... kept position are distinct and are
all of them, and the rest follows from it.

Only model-checked is what needs fairness: `WindowComes`, `Recovered`, `ExitEnds`,
`Heals`, `NotDeadForEver`, `ComesBack` and `BanEnds`.  The properties of `minslots`,
`leak` and `lost_points` are not true of the code.

## 6. Not modelled

* In the connection: the choice of a BNLS server and its packets, version check and
  keys beyond success or failure, Warden, `SID_STARTADVEX3`, the sizes of messages
  beyond the wait they cause.
* In the chat: mass messages (`.fm`) with the count of who received them, `.userson`, votes for a mode, voicing
  by level, announcements of the channel.
* In the tables: bans of games and safelists, which follow the pattern of `InfoCache`
  without counters or expiry; reasons and totals of warns; statistics of players.
* Two queries of one warn that run on two threads at once are modelled as steps in either
  order, since each is one SQL statement.

Packet formats, hash functions, sockets, configuration and language files, icons,
statistics and the web site update are deterministic conversions or output without
state.  `sqlite3.c` is vendored, and the SQLite back end holds only a read-only table.

## 7. Plan

1. Proofs: that `InfoCache`, `Mail` and `Warns` implement the abstract cache of item 4,
   whose safety part is `MailAccepted` and its kin; what the bounds of bans become
   without the assumption that nothing failed.
2. Voting for a mode and voicing, composed with `Challenge` (`m_VotedMode`, who may
   vote, the vote that ends while a captain leaves).
3. Mass messages: the count that waits two seconds for errors of the server, `.userson`
   and the variables they share; bans of games.
4. One abstract specification of a cache (a copy that shows only accepted rows and
   heals) which `InfoCache`, `Mail` and `Warns` implement.
5. `Connection` composed with the pool check of `Hosting`.
