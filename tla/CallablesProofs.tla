-------------------------- MODULE CallablesProofs --------------------------
(***************************************************************************)
(* Proofs about Callables, for any number of callables, connections, list  *)
(* pointers and any limit of the pool: connections are exclusive, the pool *)
(* is bounded and counted, and a nice exit waits for the threads.          *)
(*                                                                         *)
(* IInv falls apart into the pool (Pool) and the shutdown (Leaving), which *)
(* do not need each other; the steps preserve each of them.                *)
(***************************************************************************)
EXTENDS Callables, FiniteSetTheorems, SequenceTheorems, TLAPS

PoolType ==
  /\ thread \in [Callable -> {"none", "started", "querying", "ready"}]
  /\ conn \in [Callable -> Conn \cup {NULL}]
  /\ idle \in Seq(Conn \cup {NULL})
  /\ NumConnections \in Nat /\ Outstanding \in Nat

ExitType ==
  /\ holder \in [Callable -> Holders]
  /\ bnets \in BOOLEAN /\ ExitingNice \in BOOLEAN /\ Exiting \in BOOLEAN
  /\ down \in BOOLEAN /\ forced \in BOOLEAN /\ miscounted \in BOOLEAN

LEMMA Types == TypeOK <=> PoolType /\ ExitType
BY DEF TypeOK, PoolType, ExitType

LiveSet == {c \in Callable : Live(c)}
Counted == Len(idle) + Cardinality(LiveSet)

\* NumConnections is at least, or exactly, what is counted.
Enough == NumConnections >= Counted
Exact  == NumConnections = Counted

LEMMA Accounting == PoolAccounting <=> (~down => Enough /\ (~miscounted => Exact))
BY Zenon DEF PoolAccounting, Enough, Exact, Counted, LiveSet

LEMMA LiveFinite == IsFiniteSet(LiveSet) /\ Cardinality(LiveSet) \in Nat
<1>1. IsFiniteSet(LiveSet)
  BY FS_Subset, CallableAssumption DEF LiveSet
<1> QED
  BY <1>1, FS_CardinalityType

Pool == PoolType /\ ConnectionExclusive /\ PoolBounded /\ PoolAccounting /\ Opened

---------------------------------------------------------------------------
\* What TakeConnection hands to a callable, and what it leaves.
Taken == IF Len(idle) = 0 THEN NULL ELSE Head(idle)

LEMMA TakePool ==
  ASSUME NEW c \in Callable, PoolType, TakeConnection(c)
  PROVE  /\ conn' = [conn EXCEPT ![c] = Taken]
         /\ Taken \in Conn \cup {NULL}
         /\ NumConnections' = NumConnections + (IF Taken = NULL THEN 1 ELSE 0)
         /\ idle' \in Seq(Conn \cup {NULL})
         /\ Len(idle') = Len(idle) - (IF Len(idle) = 0 THEN 0 ELSE 1)
         /\ \A i \in 1..Len(idle') : i + 1 \in 1..Len(idle) /\ idle'[i] = idle[i + 1]
         /\ Len(idle) /= 0 => 1 \in 1..Len(idle) /\ Taken = idle[1]
<1>1. CASE idle = <<>>
  <2>1. Len(idle) = 0 /\ Taken = NULL
    BY <1>1 DEF Taken
  <2> QED
    BY <1>1, <2>1 DEF PoolType, TakeConnection
<1>2. CASE idle /= <<>>
  <2>1. /\ Len(idle) \in Nat \ {0} /\ Head(idle) = idle[1] /\ Head(idle) \in Conn \cup {NULL}
        /\ Tail(idle) \in Seq(Conn \cup {NULL}) /\ Len(Tail(idle)) = Len(idle) - 1
        /\ \A i \in 1..Len(Tail(idle)) : Tail(idle)[i] = idle[i + 1]
    BY <1>2 DEF PoolType
  <2>2. /\ conn' = [conn EXCEPT ![c] = Head(idle)] /\ idle' = Tail(idle)
        /\ NumConnections' = NumConnections + (IF Head(idle) = NULL THEN 1 ELSE 0)
    BY <1>2, Zenon DEF TakeConnection, PopIdle
  <2>3. Taken = Head(idle)
    BY <2>1 DEF Taken
  <2> QED
    BY <2>1, <2>2, <2>3
<1> QED
  BY <1>1, <1>2

\* A query takes its connection out of the pool, or counts a new one.
LEMMA IssuePool ==
  ASSUME NEW c \in Callable, Pool, ExitType, Issue(c)
  PROVE  Pool'
<1> DEFINE k == Taken
<1>1. ~Live(c) /\ TakeConnection(c) /\ down' = down /\ Outstanding' = Outstanding + 1
  BY Zenon DEF Issue, exitVars
<1>2. PICK s \in Spawned :
        /\ thread' = [thread EXCEPT ![c] = s]
        /\ miscounted' = (miscounted \/ (s = "ready" /\ conn'[c] = NULL))
  BY Zenon DEF Issue
<1>3. ~miscounted' => ~miscounted /\ ~(s = "ready" /\ conn'[c] = NULL)
  BY <1>2, Zenon DEF ExitType
<1> PoolType
  BY DEF Pool
<1>4. /\ conn' = [conn EXCEPT ![c] = k]
      /\ k \in Conn \cup {NULL}
      /\ NumConnections' = NumConnections + (IF k = NULL THEN 1 ELSE 0)
      /\ idle' \in Seq(Conn \cup {NULL})
      /\ Len(idle') = Len(idle) - (IF Len(idle) = 0 THEN 0 ELSE 1)
      /\ \A i \in 1..Len(idle') : i + 1 \in 1..Len(idle) /\ idle'[i] = idle[i + 1]
      /\ Len(idle) /= 0 => 1 \in 1..Len(idle) /\ k = idle[1]
  BY <1>1, TakePool
<1>5. Len(idle) = 0 => k = NULL
  BY DEF Taken
<1> HIDE DEF k
<1>6. DOMAIN idle = 1..Len(idle) /\ DOMAIN idle' = 1..Len(idle') /\ Len(idle) \in Nat
  BY <1>4 DEF PoolType
<1>n. /\ Len(idle) \in Nat /\ Len(idle') \in Nat
      /\ NumConnections \in Nat /\ NumConnections' \in Nat
      /\ \/ Len(idle) = 0 /\ Len(idle') = 0 /\ NumConnections' = NumConnections + 1
         \/ /\ Len(idle) > 0 /\ Len(idle') = Len(idle) - 1
            /\ NumConnections' = NumConnections + (IF k = NULL THEN 1 ELSE 0)
  <2>1. Len(idle') \in Nat /\ NumConnections \in Nat
    BY <1>4 DEF PoolType
  <2>2. CASE Len(idle) = 0
    BY <2>1, <2>2, <1>4, <1>5, <1>6
  <2>3. CASE Len(idle) /= 0
    BY <2>1, <2>3, <1>4, <1>6
  <2> QED
    BY <2>2, <2>3
<1>i. \A i \in DOMAIN idle' : i + 1 \in DOMAIN idle /\ idle'[i] = idle[i + 1]
  BY <1>4, <1>6
<1>k. k /= NULL => 1 \in DOMAIN idle /\ k = idle[1]
  BY <1>4, <1>5, <1>6
<1>7. PoolType'
  BY <1>1, <1>2, <1>4 DEF PoolType, Spawned
<1>8. \A d \in Callable : Live(d)' => d = c \/ (Live(d) /\ conn'[d] = conn[d])
  BY <1>2, <1>4 DEF PoolType, Live
<1>9. conn'[c] = k
  BY <1>4 DEF PoolType
<1>10. ConnectionExclusive'
  <2>1. \A d \in Callable : d /= c /\ Live(d)' /\ conn'[d] = k => k = NULL
    BY <1>k, <1>8 DEF Pool, ConnectionExclusive
  <2>2. \A i \in DOMAIN idle' : k = idle'[i] => k = NULL
    <3> SUFFICES ASSUME NEW i \in DOMAIN idle', k = idle'[i], k /= NULL
                 PROVE  FALSE
      OBVIOUS
    <3>1. i + 1 \in DOMAIN idle /\ 1 \in DOMAIN idle /\ i + 1 /= 1 /\ idle[1] = k /\ idle[i + 1] = k
      BY <1>i, <1>k, <1>6
    <3> QED
      BY <3>1, Zenon DEF Pool, ConnectionExclusive
  <2>3. \A d, e \in Callable :
          d /= e /\ Live(d)' /\ Live(e)' /\ conn'[d] = conn'[e] => conn'[d] = NULL
    BY <2>1, <1>8, <1>9 DEF Pool, ConnectionExclusive
  <2>4. \A d \in Callable, i \in DOMAIN idle' : Live(d)' /\ conn'[d] = idle'[i] => conn'[d] = NULL
    BY <2>2, <1>i, <1>8, <1>9 DEF Pool, ConnectionExclusive
  <2>5. \A i, j \in DOMAIN idle' : i /= j /\ idle'[i] = idle'[j] => idle'[i] = NULL
    <3> SUFFICES ASSUME NEW i \in DOMAIN idle', NEW j \in DOMAIN idle', i /= j, idle'[i] = idle'[j]
                 PROVE  idle'[i] = NULL
      OBVIOUS
    <3>1. /\ i + 1 \in DOMAIN idle /\ j + 1 \in DOMAIN idle
          /\ idle[i + 1] = idle'[i] /\ idle[j + 1] = idle'[i]
      BY <1>i, Zenon
    <3>2. i + 1 /= j + 1
      BY <1>6
    <3> QED
      BY <3>1, <3>2, Zenon DEF Pool, ConnectionExclusive
  <2> QED
    BY <2>3, <2>4, <2>5, Zenon DEF ConnectionExclusive
<1>11. PoolBounded'
  <2>1. Len(idle) <= IdleLimit + 1
    BY DEF Pool, PoolBounded
  <2> QED
    BY <2>1, <1>n, IdleAssumption DEF PoolBounded
<1>12. ~miscounted /\ Len(idle) /= 0 => k /= NULL
  BY <1>4, <1>6, Zenon DEF Pool, Opened
<1>13. Opened'
  <2> SUFFICES ASSUME ~miscounted'
               PROVE  /\ \A i \in DOMAIN idle' : idle'[i] /= NULL
                      /\ \A d \in Callable : thread'[d] \in {"querying", "ready"} => conn'[d] /= NULL
    BY Zenon DEF Opened
  <2>1. /\ \A i \in DOMAIN idle : idle[i] /= NULL
        /\ \A d \in Callable : thread[d] \in {"querying", "ready"} => conn[d] /= NULL
    BY <1>3, Zenon DEF Pool, Opened
  <2>2. \A i \in DOMAIN idle' : idle'[i] /= NULL
    BY <2>1, <1>4, <1>6
  <2>3. s = "ready" => conn'[c] /= NULL
    BY <1>3, Zenon
  <2>4. \A d \in Callable : thread'[d] \in {"querying", "ready"} => conn'[d] /= NULL
    BY <2>1, <2>3, <1>2, <1>4 DEF PoolType, Spawned
  <2> QED
    BY <2>2, <2>4
<1>14. PoolAccounting'
  <2>1. LiveSet' = LiveSet \cup {c} /\ c \notin LiveSet
    BY <1>1, <1>2 DEF PoolType, LiveSet, Live, Spawned
  <2>2. Cardinality(LiveSet') = Cardinality(LiveSet) + 1
    BY <2>1, LiveFinite, FS_AddElement
  <2>3. Enough => Enough'
    BY <2>2, <1>n, LiveFinite DEF Enough, Counted
  <2>4. Exact /\ (Len(idle) /= 0 => k /= NULL) => Exact'
    BY <2>2, <1>n, LiveFinite DEF Exact, Counted
  <2>5. (~down' => ~down) /\ (~miscounted' => ~miscounted)
    BY <1>1, <1>3, Zenon
  <2>6. ~down' => Enough' /\ (~miscounted' => Exact')
    BY <2>3, <2>4, <2>5, <1>12, Accounting, Zenon DEF Pool
  <2> QED
    BY <2>6, Zenon DEF PoolAccounting, Enough, Exact, Counted, LiveSet
<1> QED
  BY <1>7, <1>10, <1>11, <1>13, <1>14, Zenon DEF Pool

\* A thread opens a connection nobody has, or keeps its own.
LEMMA ThreadPool ==
  ASSUME NEW c \in Callable, Pool, ExitType, Thread(c)
  PROVE  Pool'
<1>1. /\ idle' = idle /\ NumConnections' = NumConnections /\ Outstanding' = Outstanding
      /\ down' = down /\ miscounted' = miscounted
  BY Zenon DEF Thread, ThreadInit, ThreadClose, poolVars, exitVars
<1>2. PICK s \in {"querying", "ready"} : thread' = [thread EXCEPT ![c] = s]
  BY DEF Thread, ThreadInit, ThreadClose
<1>3. Running(c)
  BY DEF Thread, ThreadInit, ThreadClose, Running
<1>4. PICK k \in Conn \cup {NULL} :
        /\ conn' = [conn EXCEPT ![c] = k]
        /\ k = conn[c] \/ k \in Conn \ Open
        /\ thread[c] = "started" => k /= NULL
  <2>1. CASE ThreadInit(c) /\ conn[c] /= NULL
    <3>1. conn' = [conn EXCEPT ![c] = conn[c]] /\ conn[c] \in Conn \cup {NULL}
      BY <2>1 DEF ThreadInit, Pool, PoolType
    <3> QED
      BY <3>1, <2>1
  <2>2. CASE ThreadInit(c) /\ conn[c] = NULL
    <3>1. (CHOOSE k \in Conn \ Open : TRUE) \in Conn \ Open
      BY <2>2, Zenon DEF ThreadInit
    <3>2. conn' = [conn EXCEPT ![c] = CHOOSE k \in Conn \ Open : TRUE]
      BY <2>2, Zenon DEF ThreadInit
    <3> QED
      BY <3>1, <3>2, NullAssumption
  <2>3. CASE ThreadClose(c)
    <3>1. conn' = [conn EXCEPT ![c] = conn[c]] /\ conn[c] \in Conn \cup {NULL}
      BY <2>3 DEF ThreadClose, Pool, PoolType
    <3> QED
      BY <3>1, <2>3 DEF ThreadClose
  <2> QED
    BY <2>1, <2>2, <2>3 DEF Thread, ThreadInit
<1> PoolType
  BY DEF Pool
<1>5. PoolType'
  BY <1>1, <1>2, <1>4 DEF PoolType
<1>6. \A d \in Callable : (Live(d)' <=> Live(d)) /\ (d /= c => conn'[d] = conn[d])
  BY <1>2, <1>3, <1>4 DEF PoolType, Live, Running
<1>7. conn'[c] = k /\ Live(c)
  BY <1>3, <1>4 DEF PoolType, Live, Running
<1>8. ConnectionExclusive'
  <2>1. \A d \in Callable : d /= c /\ Live(d) /\ conn[d] = k => k = NULL
    BY <1>4, <1>7 DEF Pool, ConnectionExclusive, Open
  <2>2. \A i \in DOMAIN idle : k = idle[i] => k = NULL
    BY <1>4, <1>7 DEF Pool, ConnectionExclusive, Open
  <2> QED
    BY <2>1, <2>2, <1>1, <1>6, <1>7 DEF Pool, ConnectionExclusive
<1>9. PoolBounded'
  BY <1>1 DEF Pool, PoolBounded
<1>10. Opened'
  <2>1. \A d \in Callable : thread'[d] \in {"querying", "ready"} =>
          conn'[d] /= NULL \/ (thread[d] \in {"querying", "ready"} /\ conn[d] = NULL)
    <3> SUFFICES ASSUME NEW d \in Callable, thread'[d] \in {"querying", "ready"}
                 PROVE  conn'[d] /= NULL \/ (thread[d] \in {"querying", "ready"} /\ conn[d] = NULL)
      OBVIOUS
    <3>1. CASE d = c
      <4>1. CASE thread[c] = "started"
        BY <4>1, <3>1, <1>4, <1>7
      <4>2. CASE thread[c] = "querying"
        BY <4>2, <3>1, <1>4, <1>7, NullAssumption
      <4> QED
        BY <4>1, <4>2, <1>3 DEF Running
    <3>2. CASE d /= c
      BY <3>2, <1>2, <1>6 DEF PoolType
    <3> QED
      BY <3>1, <3>2
  <2> QED
    BY <2>1, <1>1, Zenon DEF Pool, Opened
<1>11. PoolAccounting'
  <2>1. LiveSet' = LiveSet
    BY <1>6 DEF LiveSet
  <2>2. (Enough <=> Enough') /\ (Exact <=> Exact')
    BY <2>1, <1>1 DEF Enough, Exact, Counted
  <2>3. ~down' => Enough' /\ (~miscounted' => Exact')
    BY <2>2, <1>1, Accounting, Zenon DEF Pool
  <2> QED
    BY <2>3, Zenon DEF PoolAccounting, Enough, Exact, Counted, LiveSet
<1> QED
  BY <1>5, <1>8, <1>9, <1>10, <1>11, Zenon DEF Pool

\* RecoverCallable puts the connection in the pool or closes it.
LEMMA ConsumePool ==
  ASSUME NEW c \in Callable, Pool, ExitType, Consume(c)
  PROVE  Pool'
<1>1. /\ ~down /\ down' = down /\ miscounted' = miscounted
      /\ thread[c] = "ready" /\ RecoverCallable(c)
      /\ thread' = [thread EXCEPT ![c] = "none"]
      /\ conn' = [conn EXCEPT ![c] = NULL]
  BY Zenon DEF Consume, exitVars
<1> PoolType
  BY DEF Pool
<1> DEFINE k == conn[c]
<1>2. k \in Conn \cup {NULL} /\ Len(idle) \in Nat /\ DOMAIN idle = 1..Len(idle)
  BY DEF PoolType
<1> HIDE DEF k
<1>3. \/ Len(idle) > IdleLimit /\ idle' = idle /\ NumConnections' = NumConnections - 1
      \/ Len(idle) <= IdleLimit /\ idle' = Append(idle, k) /\ NumConnections' = NumConnections
  <2>1. ~(Len(idle) > IdleLimit) <=> Len(idle) <= IdleLimit
    BY <1>2, IdleAssumption
  <2> QED
    BY <2>1, <1>1, Zenon DEF RecoverCallable, PoolFull, Closed, k
<1>4. /\ Len(idle') = Len(idle) + (IF Len(idle) > IdleLimit THEN 0 ELSE 1)
      /\ idle' \in Seq(Conn \cup {NULL}) /\ DOMAIN idle' = 1..Len(idle')
      /\ \A i \in 1..Len(idle') :
           (i \in 1..Len(idle) /\ idle'[i] = idle[i]) \/ (i = Len(idle) + 1 /\ idle'[i] = k)
  <2>1. CASE Len(idle) > IdleLimit /\ idle' = idle
    BY <2>1, <1>2 DEF PoolType
  <2>2. CASE Len(idle) <= IdleLimit /\ idle' = Append(idle, k)
    <3>1. ~(Len(idle) > IdleLimit)
      BY <2>2, <1>2, IdleAssumption
    <3> QED
      BY <2>2, <3>1, <1>2 DEF PoolType
  <2> QED
    BY <2>1, <2>2, <1>3
<1>5. \A d \in Callable : Live(d)' => d /= c /\ Live(d) /\ conn'[d] = conn[d]
  BY <1>1 DEF PoolType, Live
<1>6. Live(c) /\ k = conn[c]
  BY <1>1 DEF Live, k
<1>7. LiveSet' = LiveSet \ {c} /\ c \in LiveSet
  BY <1>1 DEF PoolType, LiveSet, Live
<1>8. /\ Cardinality(LiveSet') = Cardinality(LiveSet) - 1
      /\ Cardinality(LiveSet) \in Nat /\ Cardinality(LiveSet') \in Nat
  BY <1>7, LiveFinite, FS_RemoveElement, FS_CardinalityType
<1>9. Enough
  BY <1>1, Accounting, Zenon DEF Pool
<1>10. PoolType'
  <2>1. NumConnections' \in Nat
    BY <1>2, <1>3, <1>8, <1>9 DEF Enough, Counted, PoolType
  <2>2. Outstanding' \in Nat
    BY <1>1 DEF RecoverCallable, PoolType
  <2> QED
    BY <2>1, <2>2, <1>1, <1>4 DEF PoolType
<1>11. ConnectionExclusive'
  <2>1. \A d \in Callable : Live(d)' /\ conn[d] = k => k = NULL
    BY <1>5, <1>6 DEF Pool, ConnectionExclusive
  <2>2. \A i \in 1..Len(idle) : k = idle[i] => k = NULL
    BY <1>2, <1>6 DEF Pool, ConnectionExclusive
  <2>3. \A d, e \in Callable :
          d /= e /\ Live(d)' /\ Live(e)' /\ conn'[d] = conn'[e] => conn'[d] = NULL
    BY <1>5 DEF Pool, ConnectionExclusive
  <2>4. \A d \in Callable, i \in DOMAIN idle' : Live(d)' /\ conn'[d] = idle'[i] => conn'[d] = NULL
    BY <2>1, <1>2, <1>4, <1>5 DEF Pool, ConnectionExclusive
  <2>5. \A i, j \in DOMAIN idle' : i /= j /\ idle'[i] = idle'[j] => idle'[i] = NULL
    BY <2>2, <1>2, <1>4 DEF Pool, ConnectionExclusive
  <2> QED
    BY <2>3, <2>4, <2>5, Zenon DEF ConnectionExclusive
<1>12. PoolBounded'
  BY <1>2, <1>4, IdleAssumption DEF Pool, PoolBounded
<1>13. Opened'
  <2> SUFFICES ASSUME ~miscounted
               PROVE  /\ \A i \in DOMAIN idle' : idle'[i] /= NULL
                      /\ \A d \in Callable : thread'[d] \in {"querying", "ready"} => conn'[d] /= NULL
    BY <1>1, Zenon DEF Opened
  <2>1. /\ \A i \in DOMAIN idle : idle[i] /= NULL
        /\ \A d \in Callable : thread[d] \in {"querying", "ready"} => conn[d] /= NULL
    BY Zenon DEF Pool, Opened
  <2>2. k /= NULL
    BY <2>1, <1>1 DEF k
  <2>3. \A i \in DOMAIN idle' : idle'[i] /= NULL
    BY <2>1, <2>2, <1>2, <1>4
  <2>4. \A d \in Callable : thread'[d] \in {"querying", "ready"} => conn'[d] /= NULL
    BY <2>1, <1>1 DEF PoolType
  <2> QED
    BY <2>3, <2>4
<1>14. PoolAccounting'
  <2>1. Enough'
    BY <1>2, <1>3, <1>4, <1>8, <1>9 DEF Enough, Counted, PoolType
  <2>2. Exact => Exact'
    BY <1>2, <1>3, <1>4, <1>8 DEF Exact, Counted, PoolType
  <2>3. ~down' => Enough' /\ (~miscounted' => Exact')
    BY <2>1, <2>2, <1>1, Accounting, Zenon DEF Pool
  <2> QED
    BY <2>3, Zenon DEF PoolAccounting, Enough, Exact, Counted, LiveSet
<1> QED
  BY <1>10, <1>11, <1>12, <1>13, <1>14, Zenon DEF Pool

\* An exit touches the pool only to close it.
LEMMA ExitPool ==
  ASSUME Pool, ExitType, Signal \/ ExitCommand \/ ExitNicely \/ Shutdown \/ UNCHANGED vars
  PROVE  Pool'
<1>1. /\ thread' = thread /\ conn' = conn /\ miscounted' = miscounted
      /\ NumConnections' = NumConnections /\ Outstanding' = Outstanding
      /\ (idle' = idle /\ (~down' => ~down)) \/ (idle' = <<>> /\ down')
  <2>1. CASE Signal
    BY <2>1, Zenon DEF Signal, poolVars
  <2>2. CASE ExitCommand
    BY <2>2, Zenon DEF ExitCommand, poolVars
  <2>3. CASE ExitNicely
    BY <2>3, Zenon DEF ExitNicely, poolVars
  <2>4. CASE Shutdown
    BY <2>4, Zenon DEF Shutdown
  <2>5. CASE UNCHANGED vars
    BY <2>5, Zenon DEF vars, poolVars, exitVars
  <2> QED
    BY <2>1, <2>2, <2>3, <2>4, <2>5
<1>2. LiveSet' = LiveSet
  BY <1>1 DEF LiveSet, Live
<1>3. PoolType' /\ PoolBounded' /\ ConnectionExclusive'
  <2>1. CASE idle' = idle
    BY <2>1, <1>1 DEF Pool, PoolType, PoolBounded, ConnectionExclusive, Live
  <2>2. CASE idle' = <<>>
    BY <2>2, <1>1, IdleAssumption DEF Pool, PoolType, PoolBounded, ConnectionExclusive, Live
  <2> QED
    BY <2>1, <2>2, <1>1, Zenon
<1>4. Opened'
  <2>1. \A i \in DOMAIN idle' : i \in DOMAIN idle /\ idle'[i] = idle[i]
    <3>1. CASE idle' = idle
      BY <3>1
    <3>2. CASE idle' = <<>>
      BY <3>2
    <3> QED
      BY <3>1, <3>2, <1>1, Zenon
  <2> QED
    BY <2>1, <1>1, Zenon DEF Pool, Opened
<1>5. PoolAccounting'
  <2>1. CASE idle' = idle /\ (~down' => ~down)
    <3>1. (Enough <=> Enough') /\ (Exact <=> Exact')
      BY <2>1, <1>1, <1>2 DEF Enough, Exact, Counted
    <3>2. ~down' => Enough' /\ (~miscounted' => Exact')
      BY <3>1, <2>1, <1>1, Accounting, Zenon DEF Pool
    <3> QED
      BY <3>2, Zenon DEF PoolAccounting, Enough, Exact, Counted, LiveSet
  <2>2. CASE down'
    BY <2>2, Zenon DEF PoolAccounting
  <2> QED
    BY <2>1, <2>2, <1>1, Zenon
<1> QED
  BY <1>3, <1>4, <1>5, Zenon DEF Pool

---------------------------------------------------------------------------
Leaving == ExitType /\ ExitKnown

\* Whoever issues a query holds it, and only CBNETs issue any.
LEMMA IssueLeaving ==
  ASSUME NEW c \in Callable, PoolType, Leaving,
         IssuePaired(c) \/ \E l \in List : IssueList(c, l) \/ Overwrite(c, l)
  PROVE  Leaving'
<1>1. Issue(c)
  BY Zenon DEF IssuePaired, IssueList, Overwrite
<1>2. /\ bnets /\ ~down /\ bnets' = bnets /\ ExitingNice' = ExitingNice
      /\ Exiting' = Exiting /\ down' = down /\ forced' = forced
  BY <1>1, Zenon DEF Issue, exitVars
<1>3. \A d \in Callable : Live(d)' => d = c \/ Live(d)
  BY <1>1 DEF Issue, PoolType, Live, Spawned
<1>4. miscounted' \in BOOLEAN
  BY <1>1, Zenon DEF Issue
<1>5. /\ holder' \in [Callable -> Holders]
      /\ holder'[c] /= "nobody"
      /\ \A d \in Callable : d /= c => holder'[d] = holder[d] \/ holder'[d] = "lost"
  <2>1. CASE IssuePaired(c)
    BY <2>1 DEF IssuePaired, Leaving, ExitType, Holders
  <2>2. CASE \E l \in List : IssueList(c, l) \/ Overwrite(c, l)
    BY <2>2, ListAssumption DEF IssueList, Overwrite, Leaving, ExitType, Holders
  <2> QED
    BY <2>1, <2>2
<1>6. ExitType'
  BY <1>2, <1>4, <1>5, Zenon DEF Leaving, ExitType
<1>7. \A d \in Callable : Live(d)' => holder'[d] /= "nobody"
  BY <1>3, <1>5 DEF Leaving, ExitKnown
<1>8. ~(Exiting /\ ~forced)
  BY <1>2, Zenon DEF Leaving, ExitKnown
<1> QED
  BY <1>2, <1>6, <1>7, <1>8, Zenon DEF Leaving, ExitKnown

\* A thread leaves the pointers alone; consuming a callable frees it.
LEMMA RunLeaving ==
  ASSUME NEW c \in Callable, PoolType, Leaving, Thread(c) \/ Consume(c)
  PROVE  Leaving'
<1>1. /\ bnets' = bnets /\ ExitingNice' = ExitingNice /\ miscounted' = miscounted
      /\ Exiting' = Exiting /\ down' = down /\ forced' = forced
  BY Zenon DEF Thread, ThreadInit, ThreadClose, Consume, exitVars
<1>2. /\ holder' \in [Callable -> Holders]
      /\ \A d \in Callable : holder'[d] = holder[d] \/ holder'[d] = "nobody"
      /\ \A d \in Callable : Live(d)' => Live(d) /\ holder'[d] = holder[d]
  <2>1. CASE Thread(c)
    BY <2>1 DEF Thread, ThreadInit, ThreadClose, Leaving, ExitType, PoolType, Live
  <2>2. CASE Consume(c)
    BY <2>2 DEF Consume, Leaving, ExitType, PoolType, Live, Holders
  <2> QED
    BY <2>1, <2>2
<1>3. ExitType'
  BY <1>1, <1>2, Zenon DEF Leaving, ExitType
<1>4. \A d \in Callable : Live(d)' => holder'[d] /= "nobody"
  BY <1>2, Zenon DEF Leaving, ExitKnown
<1>5. ~bnets' => \A d \in Callable : holder'[d] \in {"ghost", "lost", "nobody"}
  BY <1>1, <1>2 DEF Leaving, ExitKnown
<1>6. Exiting' /\ ~forced' =>
        ExitingNice' /\ ~bnets' /\ \A d \in Callable : holder'[d] \in {"lost", "nobody"}
  BY <1>1, <1>2 DEF Leaving, ExitKnown
<1>7. down' /\ ~forced' => Exiting'
  BY <1>1, Zenon DEF Leaving, ExitKnown
<1> QED
  BY <1>3, <1>4, <1>5, <1>6, <1>7, Zenon DEF Leaving, ExitKnown

\* ~CBNET hands every pointer over that is not lost.
LEMMA HandedOver ==
  ASSUME ExitType
  PROVE  /\ HandOver \in [Callable -> Holders]
         /\ \A d \in Callable : HandOver[d] \in {"ghost", "lost", "nobody"}
         /\ \A d \in Callable : HandOver[d] = "nobody" => holder[d] = "nobody"
BY DEF ExitType, HandOver, Holders

\* Only a nice exit that waited for CGHost's callables exits unforced.
LEMMA ExitLeaving ==
  ASSUME PoolType, Leaving, Signal \/ ExitCommand \/ ExitNicely \/ Shutdown \/ UNCHANGED vars
  PROVE  Leaving'
<1>1. thread' = thread /\ miscounted' = miscounted
  BY Zenon DEF Signal, ExitCommand, ExitNicely, Finished, Shutdown, vars
<1>2. \A d \in Callable : Live(d)' <=> Live(d)
  BY <1>1 DEF Live
<1>3. CASE Signal
  <2>1. /\ holder' = holder /\ bnets' = bnets /\ ExitingNice' /\ ~down
        /\ ExitingNice' = TRUE
        /\ Exiting' = (Exiting \/ ExitingNice) /\ forced' = (forced \/ ExitingNice)
        /\ down' = (ExitingNice /\ Exiting)
    BY <1>3, Zenon DEF Signal
  <2>2. ExitType'
    BY <2>1, <1>1, Zenon DEF Leaving, ExitType
  <2>3. ~forced' => ~ExitingNice /\ ~forced
    BY <2>1, Zenon DEF Leaving, ExitType
  <2>4. ~(Exiting' /\ ~forced') /\ ~(down' /\ ~forced')
    BY <2>1, <2>3, Zenon DEF Leaving, ExitKnown
  <2> QED
    BY <2>1, <2>2, <2>4, <1>2, Zenon DEF Leaving, ExitKnown
<1>4. CASE ExitCommand
  <2>1. /\ holder' = holder /\ bnets' = bnets /\ ExitingNice' = ExitingNice /\ down' = down
        /\ Exiting' = TRUE /\ forced' = TRUE
    BY <1>4, Zenon DEF ExitCommand
  <2>2. ExitType'
    BY <2>1, <1>1, Zenon DEF Leaving, ExitType
  <2> QED
    BY <2>1, <2>2, <1>2, Zenon DEF Leaving, ExitKnown
<1>5. CASE ExitNicely
  <2>1. /\ ExitingNice /\ ~down /\ bnets' = FALSE
        /\ ExitingNice' = ExitingNice /\ down' = down /\ forced' = forced
        /\ holder' = IF bnets THEN HandOver ELSE holder
        /\ Exiting' = (Exiting \/ \A c \in Callable : holder'[c] /= "ghost")
    BY <1>5, Zenon DEF ExitNicely, Finished
  <2>2. /\ holder' \in [Callable -> Holders]
        /\ \A d \in Callable : holder'[d] \in {"ghost", "lost", "nobody"}
        /\ \A d \in Callable : holder'[d] = "nobody" => holder[d] = "nobody"
    <3>1. CASE bnets
      BY <3>1, <2>1, HandedOver, Zenon DEF Leaving
    <3>2. CASE ~bnets
      BY <3>2, <2>1, Zenon DEF Leaving, ExitType, ExitKnown
    <3> QED
      BY <3>1, <3>2
  <2>3. ExitType'
    BY <2>1, <2>2, <1>1, Zenon DEF Leaving, ExitType
  <2>4. \A d \in Callable : Live(d)' => holder'[d] /= "nobody"
    BY <2>2, <1>2, Zenon DEF Leaving, ExitKnown
  <2>5. Exiting' /\ ~forced' => \A d \in Callable : holder'[d] \in {"lost", "nobody"}
    <3>1. CASE Exiting /\ ~forced
      BY <3>1, <2>1, Zenon DEF Leaving, ExitKnown
    <3>2. CASE \A d \in Callable : holder'[d] /= "ghost"
      BY <3>2, <2>2
    <3> QED
      BY <3>1, <3>2, <2>1, Zenon DEF Leaving, ExitType
  <2> QED
    BY <2>1, <2>2, <2>3, <2>4, <2>5, Zenon DEF Leaving, ExitKnown
<1>6. CASE Shutdown
  <2>1. /\ Exiting /\ down' = TRUE /\ bnets' = FALSE
        /\ ExitingNice' = ExitingNice /\ Exiting' = Exiting /\ forced' = forced
        /\ holder' = IF bnets THEN HandOver ELSE holder
    BY <1>6, Zenon DEF Shutdown
  <2>2. /\ holder' \in [Callable -> Holders]
        /\ \A d \in Callable : holder'[d] \in {"ghost", "lost", "nobody"}
        /\ \A d \in Callable : holder'[d] = "nobody" => holder[d] = "nobody"
    <3>1. CASE bnets
      BY <3>1, <2>1, HandedOver, Zenon DEF Leaving
    <3>2. CASE ~bnets
      BY <3>2, <2>1, Zenon DEF Leaving, ExitType, ExitKnown
    <3> QED
      BY <3>1, <3>2
  <2>3. ExitType'
    BY <2>1, <2>2, <1>1, Zenon DEF Leaving, ExitType
  <2>4. \A d \in Callable : Live(d)' => holder'[d] /= "nobody"
    BY <2>2, <1>2, Zenon DEF Leaving, ExitKnown
  <2>5. ~forced => ExitingNice /\ ~bnets /\ \A d \in Callable : holder[d] \in {"lost", "nobody"}
    BY <2>1, Zenon DEF Leaving, ExitKnown
  <2>6. ~forced => holder' = holder
    BY <2>1, <2>5, Zenon
  <2>7. ~forced => \A d \in Callable : holder'[d] \in {"lost", "nobody"}
    BY <2>5, <2>6, Zenon
  <2> QED
    BY <2>1, <2>2, <2>3, <2>4, <2>5, <2>7, Zenon DEF Leaving, ExitKnown
<1>7. CASE UNCHANGED vars
  <2>1. /\ holder' = holder /\ bnets' = bnets /\ ExitingNice' = ExitingNice
        /\ Exiting' = Exiting /\ down' = down /\ forced' = forced
    BY <1>7, Zenon DEF vars, exitVars
  <2>2. ExitType'
    BY <2>1, <1>1, Zenon DEF Leaving, ExitType
  <2> QED
    BY <2>1, <2>2, <1>2, Zenon DEF Leaving, ExitKnown
<1> QED
  BY <1>3, <1>4, <1>5, <1>6, <1>7

---------------------------------------------------------------------------
LEMMA IInvParts == IInv <=> Pool /\ Leaving
BY Types, Zenon DEF IInv, Pool, Leaving

LEMMA InitIInv == Init => IInv
<1> SUFFICES ASSUME Init PROVE IInv
  OBVIOUS
<1> DEFINE first == CHOOSE k \in Conn : TRUE
<1>1. first \in Conn
  BY NullAssumption
<1> HIDE DEF first
<1>2. /\ thread = [c \in Callable |-> "none"] /\ conn = [c \in Callable |-> NULL]
      /\ holder = [c \in Callable |-> "nobody"]
      /\ NumConnections = 1 /\ Outstanding = 0
      /\ bnets = TRUE /\ ExitingNice = FALSE /\ down = FALSE
      /\ (idle = <<first>> /\ Exiting = FALSE) \/ (idle = <<>> /\ Exiting = TRUE)
      /\ forced = Exiting /\ miscounted = Exiting
  BY Zenon DEF Init, first
<1>3. /\ idle \in Seq(Conn \cup {NULL}) /\ Len(idle) \in {0, 1}
      /\ DOMAIN idle = 1..Len(idle) /\ \A i \in DOMAIN idle : i = 1 /\ idle[i] = first
  <2>1. CASE idle = <<first>>
    BY <2>1, <1>1
  <2>2. CASE idle = <<>>
    BY <2>2
  <2> QED
    BY <2>1, <2>2, <1>2, Zenon
<1>4. LiveSet = {}
  BY <1>2 DEF LiveSet, Live
<1>5. Cardinality(LiveSet) = 0
  BY <1>4, FS_EmptySet
<1>6. PoolType /\ ConnectionExclusive /\ PoolBounded
  BY <1>1, <1>2, <1>3, IdleAssumption
  DEF PoolType, ConnectionExclusive, PoolBounded, Live
<1>7. Opened
  BY <1>1, <1>2, <1>3, NullAssumption DEF Opened
<1>8. PoolAccounting
  <2>1. Enough
    BY <1>2, <1>3, <1>5 DEF Enough, Counted
  <2>2. idle = <<first>> => Exact
    BY <1>2, <1>5 DEF Exact, Counted
  <2>3. ~miscounted => idle = <<first>>
    BY <1>2, Zenon
  <2> QED
    BY <2>1, <2>2, <2>3, Accounting, Zenon
<1>9. ExitType
  BY <1>2 DEF ExitType, Holders
<1>10. ExitKnown
  <2>1. \A c \in Callable : ~Live(c)
    BY <1>2 DEF Live
  <2> QED
    BY <2>1, <1>2, Zenon DEF ExitKnown
<1> QED
  BY <1>6, <1>7, <1>8, <1>9, <1>10, IInvParts, Zenon DEF Pool, Leaving

LEMMA StepIInv == IInv /\ [Next]_vars => IInv'
<1> SUFFICES ASSUME IInv, [Next]_vars PROVE IInv'
  OBVIOUS
<1>1. Pool /\ Leaving /\ PoolType /\ ExitType
  BY IInvParts, Zenon DEF Pool, Leaving
<1>2. Pool' /\ Leaving'
  <2>1. ASSUME NEW c \in Callable,
               IssuePaired(c) \/ \E l \in List : IssueList(c, l) \/ Overwrite(c, l)
        PROVE  Pool' /\ Leaving'
    <3>1. Issue(c)
      BY <2>1, Zenon DEF IssuePaired, IssueList, Overwrite
    <3> QED
      BY <2>1, <3>1, <1>1, IssuePool, IssueLeaving
  <2>2. ASSUME NEW c \in Callable, Thread(c)
        PROVE  Pool' /\ Leaving'
    BY <2>2, <1>1, ThreadPool, RunLeaving
  <2>3. ASSUME NEW c \in Callable, Consume(c)
        PROVE  Pool' /\ Leaving'
    BY <2>3, <1>1, ConsumePool, RunLeaving
  <2>4. CASE Signal \/ ExitCommand \/ ExitNicely \/ Shutdown \/ UNCHANGED vars
    BY <2>4, <1>1, ExitPool, ExitLeaving
  <2> QED
    BY <2>1, <2>2, <2>3, <2>4, Zenon DEF Next
<1>3. IInv' <=> Pool' /\ Leaving'
  <2>1. TypeOK' <=> PoolType' /\ ExitType'
    BY DEF TypeOK, PoolType, ExitType
  <2> QED
    BY <2>1, Zenon DEF IInv, Pool, Leaving
<1> QED
  BY <1>2, <1>3

\* Connections handed between the main loop and the threads without a lock stay
\* with one query or one place of the pool; the pool stays within its limit, and
\* m_NumConnections counts what is open; somebody answers for every callable.
THEOREM CallablesCorrect == Spec => []IInv
BY InitIInv, StepIInv, PTL DEF Spec

\* No two queries ever use one MYSQL handle, and none in use is in the pool.
THEOREM ExclusiveCorrect == Spec => []ConnectionExclusive
<1>1. IInv => ConnectionExclusive
  BY DEF IInv
<1> QED
  BY <1>1, CallablesCorrect, PTL

\* m_NumConnections never counts fewer connections than there are, nor more
\* unless one was never opened.
THEOREM AccountingCorrect == Spec => []PoolAccounting
<1>1. IInv => PoolAccounting
  BY Zenon DEF IInv
<1> QED
  BY <1>1, CallablesCorrect, PTL

\* A nice exit nobody cut short closes the database under no thread but those
\* whose pointer a refresh overwrote.
THEOREM NiceExitCorrect == Spec => []NiceExit
<1>1. IInv => NiceExit
  <2> SUFFICES ASSUME ExitKnown, down, ~forced, NEW c \in Callable, Live(c)
               PROVE  holder[c] = "lost"
    BY Zenon DEF IInv, NiceExit
  <2>1. holder[c] \in {"lost", "nobody"} /\ holder[c] /= "nobody"
    BY Zenon DEF ExitKnown
  <2> QED
    BY <2>1
<1> QED
  BY <1>1, CallablesCorrect, PTL
=============================================================================
