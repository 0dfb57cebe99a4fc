----------------------------- MODULE Callables -----------------------------
(***************************************************************************)
(* Database queries of guard: callables, their threads, the pool of MySQL  *)
(* connections and the shutdown that waits for them                        *)
(* (guard/ghostdbmysql.cpp, ghostdb.h, ghost.cpp, bnet.cpp).               *)
(*                                                                         *)
(* The main loop issues a callable, keeps a pointer to it and polls it.    *)
(* One detached thread per callable opens or pings a connection, runs the  *)
(* query and sets m_Ready.  When the main loop sees m_Ready it consumes    *)
(* the result, gives the connection back to the pool and deletes the       *)
(* callable.  What a query does to the tables is InfoCache.tla's business; *)
(* here every query may fail or succeed.                                   *)
(***************************************************************************)
EXTENDS Integers, Sequences, FiniteSets

CONSTANTS
  Callable,   \* addresses callables are allocated at
  Conn,       \* addresses of MYSQL handles
  NULL,       \* no connection
  List,       \* the pointers m_CallableInfoList, m_CallableMailList, ...
  IdleLimit,  \* 10 in the program: a fuller pool closes what it gets back
  CountBound  \* bound of the model on m_NumConnections, which a pool that reuses
              \* the places of unspawned callables would count up for ever

ASSUME NullAssumption == NULL \notin Conn /\ Conn /= {}
ASSUME CallableAssumption == IsFiniteSet(Callable)
ASSUME ListAssumption == List \cap {"bnet", "ghost", "lost", "nobody"} = {}
ASSUME IdleAssumption == IdleLimit \in Nat /\ CountBound \in Nat

VARIABLES
  thread,          \* of each callable: "none", "started", "querying" or "ready"
  conn,            \* m_Connection of each callable
  holder,          \* who holds the pointer to each callable
  idle,            \* m_IdleConnections
  NumConnections,  \* m_NumConnections
  Outstanding,     \* m_OutstandingCallables
  bnets,           \* m_BNETs is not empty
  ExitingNice,     \* CGHost::m_ExitingNice
  Exiting,         \* m_Exiting of CGHost or of a CBNET: Update returns true
  down,            \* gGHost has been deleted, the process ends
  forced,          \* history: Exiting was not set by the nice exit
  miscounted       \* history: some counted connection was never opened

poolVars == <<idle, NumConnections, Outstanding>>
exitVars == <<bnets, ExitingNice, Exiting, down, forced>>
vars == <<thread, conn, holder, poolVars, exitVars, miscounted>>

\* A pointer is in a Paired vector of a CBNET, in one of its list pointers, or
\* in CGHost::m_Callables.  The pointer to a "lost" callable was overwritten.
Holders == {"bnet", "ghost", "lost", "nobody"} \cup List

Live(c)    == thread[c] /= "none"
Running(c) == thread[c] \in {"started", "querying"}
HeldBy(h)  == {c \in Callable : holder[c] = h}
Open       == {idle[i] : i \in DOMAIN idle} \cup {conn[c] : c \in {x \in Callable : Live(x)}}

---------------------------------------------------------------------------
(* Issuing a callable: GetIdleConnection, CreateThread and ThreadedXXX.    *)

MutPopIdle == idle
PopIdle == Tail(idle)

\* NULL is both "the pool is empty" and what a callable without a connection
\* left in the pool: either way ThreadedXXX counts a new connection.
TakeConnection(c) ==
  \/ /\ idle = <<>>
     /\ conn' = [conn EXCEPT ![c] = NULL]
     /\ NumConnections' = NumConnections + 1
     /\ UNCHANGED idle
  \/ /\ idle /= <<>>
     /\ conn' = [conn EXCEPT ![c] = Head(idle)]
     /\ NumConnections' = NumConnections + (IF Head(idle) = NULL THEN 1 ELSE 0)
     /\ idle' = PopIdle

\* CreateThread: a thread that cannot be spawned at the second attempt leaves
\* its callable ready at once, without connection if it had none.
MutSpawned == {"started", "stuck"}
Spawned == {"started", "ready"}

Issue(c) ==
  /\ bnets /\ ~down
  /\ ~Live(c) /\ NumConnections < CountBound
  /\ TakeConnection(c)
  /\ \E s \in Spawned :
       /\ thread' = [thread EXCEPT ![c] = s]
       /\ miscounted' = (miscounted \/ (s = "ready" /\ conn'[c] = NULL))
  /\ Outstanding' = Outstanding + 1
  /\ UNCHANGED exitVars

\* A command or a chat event pushes the callable on one of the Paired vectors.
IssuePaired(c) ==
  /\ Issue(c)
  /\ holder' = [holder EXCEPT ![c] = "bnet"]

\* The constructor of CBNET and the daily refresh assign a NULL list pointer.
IssueList(c, l) ==
  /\ HeldBy(l) = {}
  /\ Issue(c)
  /\ holder' = [holder EXCEPT ![c] = l]

\* .refresh, .fix, .cal and the end of AddGameInLadder assign the list pointer
\* whatever it points to.
Overwrite(c, l) ==
  /\ Issue(c)
  /\ holder' = [x \in Callable |-> IF x = c THEN l
                                   ELSE IF holder[x] = l THEN "lost" ELSE holder[x]]

---------------------------------------------------------------------------
(* The thread of a callable: CMySQLCallable::Init, the query, Close.       *)

\* Init opens a connection if the callable got none, else it pings the one it has.
\* Handles are interchangeable, so which free one is opened does not matter.
ThreadInit(c) ==
  /\ thread[c] = "started"
  /\ thread' = [thread EXCEPT ![c] = "querying"]
  /\ \/ conn[c] /= NULL /\ UNCHANGED conn
     \/ /\ conn[c] = NULL /\ Conn \ Open /= {}
        /\ conn' = [conn EXCEPT ![c] = CHOOSE k \in Conn \ Open : TRUE]
  /\ UNCHANGED <<holder, poolVars, exitVars, miscounted>>

\* The query runs unless Init failed; Close sets m_Ready.
ThreadClose(c) ==
  /\ thread[c] = "querying"
  /\ thread' = [thread EXCEPT ![c] = "ready"]
  /\ UNCHANGED <<conn, holder, poolVars, exitVars, miscounted>>

---------------------------------------------------------------------------
(* The main loop consumes a ready callable: RecoverCallable and delete.    *)

PoolFull == Len(idle) > IdleLimit

Closed == NumConnections - 1

RecoverCallable(c) ==
  /\ \/ PoolFull /\ NumConnections' = Closed /\ UNCHANGED idle
     \/ ~PoolFull /\ idle' = Append(idle, conn[c]) /\ UNCHANGED NumConnections
  /\ Outstanding' = IF Outstanding = 0 THEN 0 ELSE Outstanding - 1

\* Update of CBNET for its vectors and list pointers, of CGHost for m_Callables.
Consume(c) ==
  /\ ~down
  /\ holder[c] \in {"bnet", "ghost"} \cup List
  /\ thread[c] = "ready"
  /\ RecoverCallable(c)
  /\ thread' = [thread EXCEPT ![c] = "none"]
  /\ conn' = [conn EXCEPT ![c] = NULL]
  /\ holder' = [holder EXCEPT ![c] = "nobody"]
  /\ UNCHANGED <<exitVars, miscounted>>

---------------------------------------------------------------------------
(* Shutdown.                                                               *)

MutHandOver == [c \in Callable |-> IF holder[c] = "bnet" THEN "ghost"
                                   ELSE IF holder[c] \in List THEN "nobody" ELSE holder[c]]
\* ~CBNET gives what it still waits for to CGHost::m_Callables.
HandOver == [c \in Callable |-> IF holder[c] \in {"bnet"} \cup List THEN "ghost" ELSE holder[c]]

\* The first signal asks for a nice exit, the second for an exit, and the third
\* is exit(1).
Signal ==
  /\ ~down
  /\ ExitingNice' = TRUE
  /\ Exiting' = (Exiting \/ ExitingNice)
  /\ forced' = (forced \/ ExitingNice)
  /\ down' = (ExitingNice /\ Exiting)
  /\ UNCHANGED <<thread, conn, holder, poolVars, bnets, miscounted>>

\* .exit by the root admin
ExitCommand ==
  /\ bnets /\ ~down
  /\ Exiting' = TRUE
  /\ forced' = TRUE
  /\ UNCHANGED <<thread, conn, holder, poolVars, bnets, ExitingNice, down, miscounted>>

MutFinished(holders) == bnets /\ \A c \in Callable : holders[c] /= "ghost"
\* Looked at in every turn, not only in the one that deletes the CBNETs.
Finished(holders) == \A c \in Callable : holders[c] /= "ghost"

\* The head of CGHost::Update once m_ExitingNice is set.
ExitNicely ==
  /\ ExitingNice /\ ~down
  /\ bnets' = FALSE
  /\ holder' = IF bnets THEN HandOver ELSE holder
  /\ Exiting' = (Exiting \/ Finished(holder'))
  /\ UNCHANGED <<thread, conn, poolVars, ExitingNice, down, forced, miscounted>>

\* main deletes gGHost: the CBNETs and the database with its idle connections.
Shutdown ==
  /\ Exiting /\ ~down
  /\ down' = TRUE
  /\ bnets' = FALSE
  /\ holder' = IF bnets THEN HandOver ELSE holder
  /\ idle' = <<>>
  /\ UNCHANGED <<thread, conn, NumConnections, Outstanding, ExitingNice, Exiting, forced, miscounted>>

---------------------------------------------------------------------------
\* The constructor of CGHostDBMySQL opens the first connection; if it cannot,
\* HasError makes the first Update return true.
Init ==
  /\ thread = [c \in Callable |-> "none"]
  /\ conn = [c \in Callable |-> NULL]
  /\ holder = [c \in Callable |-> "nobody"]
  /\ NumConnections = 1 /\ Outstanding = 0
  /\ bnets = TRUE /\ ExitingNice = FALSE /\ down = FALSE
  /\ \/ idle = <<CHOOSE k \in Conn : TRUE>> /\ Exiting = FALSE
     \/ idle = <<>> /\ Exiting = TRUE
  /\ forced = Exiting /\ miscounted = Exiting

Thread(c) == ThreadInit(c) \/ ThreadClose(c)

Next ==
  \/ \E c \in Callable :
       \/ IssuePaired(c)
       \/ \E l \in List : IssueList(c, l) \/ Overwrite(c, l)
       \/ Thread(c)
       \/ Consume(c)
  \/ Signal \/ ExitCommand \/ ExitNicely \/ Shutdown

Spec == Init /\ [][Next]_vars

\* Threads run and MySQL answers (mysql_real_query has no timeout of its own);
\* the main loop never stops polling.  Users and signals are free.
Fairness ==
  /\ \A c \in Callable : WF_vars(Thread(c)) /\ WF_vars(Consume(c))
  /\ WF_vars(ExitNicely) /\ WF_vars(Shutdown)

FairSpec == Spec /\ Fairness

---------------------------------------------------------------------------
(* Properties                                                              *)

\* The state of every thread, connection and pointer is one the code can name.
TypeOK ==
  /\ thread \in [Callable -> {"none", "started", "querying", "ready"}]
  /\ conn \in [Callable -> Conn \cup {NULL}]
  /\ holder \in [Callable -> Holders]
  /\ idle \in Seq(Conn \cup {NULL})
  /\ NumConnections \in Nat /\ Outstanding \in Nat
  /\ {bnets, ExitingNice, Exiting, down, forced, miscounted} \subseteq BOOLEAN

\* A MYSQL handle is not thread safe: no two callables ever use the same one,
\* none in use is in the pool, and none is in the pool twice, although handles
\* pass between the main loop and the threads without a lock
\* (GetIdleConnection, RecoverCallable).
ConnectionExclusive ==
  /\ \A c, d \in Callable : c /= d /\ Live(c) /\ Live(d) /\ conn[c] = conn[d] => conn[c] = NULL
  /\ \A c \in Callable, i \in DOMAIN idle : Live(c) /\ conn[c] = idle[i] => conn[c] = NULL
  /\ \A i, j \in DOMAIN idle : i /= j /\ idle[i] = idle[j] => idle[i] = NULL

\* RecoverCallable closes what it gets back once the pool holds more than
\* IdleLimit connections, so the pool never holds more than IdleLimit + 1.
PoolBounded == Len(idle) <= IdleLimit + 1

\* m_NumConnections, the second number of .dbstatus, never counts fewer
\* connections than there are, and counts them exactly unless the first
\* connection failed or a thread could not be spawned.
PoolAccounting ==
  LET counted == Len(idle) + Cardinality({c \in Callable : Live(c)})
  IN  ~down => NumConnections >= counted /\ (~miscounted => NumConnections = counted)

\* Why the count is exact: no place of the pool, and no thread past Init, is without
\* a connection.
Opened ==
  ~miscounted =>
    /\ \A i \in DOMAIN idle : idle[i] /= NULL
    /\ \A c \in Callable : thread[c] \in {"querying", "ready"} => conn[c] /= NULL

\* "all threads finished, exiting nicely": after a nice exit that nobody cut
\* short, the database is closed under no thread but those whose pointer a
\* refresh overwrote.
NiceExit == down /\ ~forced => \A c \in Callable : Live(c) => holder[c] = "lost"

\* Why: somebody holds, or has lost, every live callable; without CBNETs only CGHost
\* does; and an exit that was not forced has waited for those it holds.
ExitKnown ==
  /\ \A c \in Callable : Live(c) => holder[c] /= "nobody"
  /\ ~bnets => \A c \in Callable : holder[c] \in {"ghost", "lost", "nobody"}
  /\ Exiting /\ ~forced =>
       ExitingNice /\ ~bnets /\ \A c \in Callable : holder[c] \in {"lost", "nobody"}
  /\ down /\ ~forced => Exiting

IInv ==
  /\ TypeOK /\ ConnectionExclusive /\ PoolBounded
  /\ PoolAccounting /\ Opened /\ ExitKnown

\* Every callable is consumed and its connection recovered, unless a refresh
\* overwrites the pointer or the process ends first.
Recovered == \A c \in Callable : Live(c) ~> (~Live(c) \/ holder[c] = "lost" \/ down)

\* A nice exit ends: deleting the CBNETs issues nothing new and every callable
\* they leave behind is recovered.
ExitEnds == ExitingNice ~> down

\* "be careful not to leak any callables": somebody holds a pointer to every
\* callable that is not deleted yet.  Overwrite breaks it.
NoLeak == \A c \in Callable : Live(c) => holder[c] /= "lost"
=============================================================================
