-------------------------- MODULE ConnectionProofs --------------------------
(***************************************************************************)
(* Proofs about Connection: guard agrees with its server about the login,  *)
(* says nothing the server does not expect, trusts no hostbot past the     *)
(* login it reported in, and spaces its attempts, for every delay and      *)
(* every limit.                                                            *)
(***************************************************************************)
EXTENDS Connection, SequenceTheorems, TLAPS

\* The kinds of messages do not overlap.
LEMMA Kinds ==
  /\ \A k \in 1..6 : Request(k) \in Requests /\ Request(k) \notin {Chat, Pong, Null}
  /\ \A k \in 1..5 : Yes(k) \in Answers /\ Yes(k) \notin {Ping, Event}
  /\ \A k \in Judged : No(k) \in Answers /\ No(k) \notin {Ping, Event}
  /\ Answers \cap {Ping, Event} = {} /\ Requests \cap {Chat, Pong, Null} = {}
  /\ \A k \in 1..5, j \in Judged : Yes(k) /= No(j)
  /\ \A j, k \in 1..6 : Request(j) = Request(k) => j = k
  /\ \A j, k \in 1..5 : Yes(j) = Yes(k) => j = k
  /\ \A j, k \in Judged : No(j) = No(k) => j = k
  /\ Ping /= Event /\ Chat \notin {Pong, Null}
  BY DEF Request, Yes, No, Requests, Answers, Ping, Pong, Null, Chat, Event, Judged

---------------------------------------------------------------------------
(* Sequences                                                               *)

LEMMA AppendFacts ==
  ASSUME NEW T, NEW S, NEW s \in Seq(T), NEW e \in T
  PROVE  /\ Append(s, e) \in Seq(T)
         /\ \A i \in DOMAIN Append(s, e) :
              (i \in DOMAIN s /\ Append(s, e)[i] = s[i]) \/ (i \notin DOMAIN s /\ Append(s, e)[i] = e)
         /\ NoneOf(S, s) => OneOf(S, Append(s, e))
         /\ e \notin S /\ OneOf(S, s) => OneOf(S, Append(s, e))
         /\ e \notin S /\ NoneOf(S, s) => NoneOf(S, Append(s, e))
<1>1. /\ Append(s, e) \in Seq(T) /\ Len(Append(s, e)) = Len(s) + 1
      /\ \A i \in 1..Len(s) : Append(s, e)[i] = s[i]
      /\ Append(s, e)[Len(s) + 1] = e
  OBVIOUS
<1>2. DOMAIN Append(s, e) = 1..(Len(s) + 1) /\ DOMAIN s = 1..Len(s) /\ Len(s) \in Nat
  BY <1>1
<1>3. \A i \in DOMAIN Append(s, e) :
        (i \in DOMAIN s /\ Append(s, e)[i] = s[i]) \/ (i = Len(s) + 1 /\ Append(s, e)[i] = e)
  BY <1>1, <1>2
<1>4. QED
  BY <1>1, <1>2, <1>3 DEF NoneOf, OneOf

LEMMA TailFacts ==
  ASSUME NEW T, NEW S, NEW s \in Seq(T), s /= <<>>
  PROVE  /\ Tail(s) \in Seq(T) /\ Head(s) \in T /\ 1 \in DOMAIN s /\ s[1] = Head(s)
         /\ \A i \in DOMAIN Tail(s) : i + 1 \in DOMAIN s /\ Tail(s)[i] = s[i + 1]
         /\ NoneOf(S, s) => NoneOf(S, Tail(s)) /\ Head(s) \notin S
         /\ OneOf(S, s) => OneOf(S, Tail(s))
         /\ OneOf(S, s) /\ Head(s) \in S => NoneOf(S, Tail(s))
<1>1. /\ Tail(s) \in Seq(T) /\ Head(s) \in T /\ Len(Tail(s)) = Len(s) - 1 /\ Len(s) \in Nat \ {0}
      /\ \A i \in 1..Len(Tail(s)) : Tail(s)[i] = s[i + 1]
      /\ Head(s) = s[1]
  OBVIOUS
<1>2. DOMAIN Tail(s) = 1..(Len(s) - 1) /\ DOMAIN s = 1..Len(s)
  BY <1>1
<1>3. \A i \in DOMAIN Tail(s) : i + 1 \in DOMAIN s /\ i \in Nat \ {0} /\ Tail(s)[i] = s[i + 1]
  BY <1>1, <1>2
<1>4. NoneOf(S, s) => NoneOf(S, Tail(s)) /\ Head(s) \notin S
  BY <1>1, <1>2, <1>3 DEF NoneOf
<1>5. OneOf(S, s) => OneOf(S, Tail(s))
  <2> SUFFICES ASSUME OneOf(S, s), NEW i \in DOMAIN Tail(s), NEW j \in DOMAIN Tail(s),
                      Tail(s)[i] \in S, Tail(s)[j] \in S
               PROVE  i = j
    BY DEF OneOf
  <2>1. i + 1 = j + 1
    BY <1>3 DEF OneOf
  <2>2. QED
    BY <2>1, <1>3
<1>6. OneOf(S, s) /\ Head(s) \in S => NoneOf(S, Tail(s))
  <2> SUFFICES ASSUME OneOf(S, s), Head(s) \in S, NEW i \in DOMAIN Tail(s), Tail(s)[i] \in S
               PROVE  FALSE
    BY DEF NoneOf
  <2>1. i + 1 = 1
    BY <1>1, <1>2, <1>3 DEF OneOf
  <2>2. QED
    BY <2>1, <1>3
<1>7. QED
  BY <1>1, <1>2, <1>3, <1>4, <1>5, <1>6

\* A part of t is moved behind s, as Recv does.
LEMMA MoveFacts ==
  ASSUME NEW T, NEW S, NEW s \in Seq(T), NEW t \in Seq(T), NEW n \in 1..Len(t)
  PROVE  LET a == s \o SubSeq(t, 1, n)
             b == SubSeq(t, n + 1, Len(t))
         IN  /\ a \in Seq(T) /\ b \in Seq(T)
             /\ \A i \in DOMAIN a : \/ i \in DOMAIN s /\ a[i] = s[i]
                                    \/ i - Len(s) \in DOMAIN t /\ a[i] = t[i - Len(s)]
             /\ \A i \in DOMAIN b : i + n \in DOMAIN t /\ b[i] = t[i + n]
             /\ NoneOf(S, t) /\ NoneOf(S, s) => NoneOf(S, a) /\ NoneOf(S, b)
             /\ OneOf(S, t) /\ NoneOf(S, s) => /\ OneOf(S, a) /\ OneOf(S, b)
                                               /\ NoneOf(S, a) \/ NoneOf(S, b)
<1> DEFINE a == s \o SubSeq(t, 1, n)
           b == SubSeq(t, n + 1, Len(t))
<1>1. Len(s) \in Nat /\ Len(t) \in Nat /\ n \in Nat /\ DOMAIN s = 1..Len(s) /\ DOMAIN t = 1..Len(t)
  OBVIOUS
<1>2. /\ SubSeq(t, 1, n) \in Seq(T) /\ Len(SubSeq(t, 1, n)) = n
      /\ \A i \in 1..n : SubSeq(t, 1, n)[i] = t[i]
  BY <1>1
<1>3. /\ b \in Seq(T) /\ Len(b) = Len(t) - n /\ DOMAIN b = 1..(Len(t) - n)
      /\ \A i \in 1..(Len(t) - n) : b[i] = t[i + n]
  <2>1. n + 1 \in Int /\ Len(t) \in Int /\ \A i \in (n + 1)..Len(t) : t[i] \in T
    BY <1>1
  <2>2. /\ b \in Seq(T) /\ Len(b) = (IF n + 1 <= Len(t) THEN Len(t) - (n + 1) + 1 ELSE 0)
        /\ \A i \in 1..(Len(t) - (n + 1) + 1) : b[i] = t[(n + 1) + i - 1]
    BY <2>1, SubSeqProperties
  <2> HIDE DEF b
  <2>3. Len(b) = Len(t) - n /\ DOMAIN b = 1..(Len(t) - n)
    <3> DEFINE l == Len(t)
    <3>1. l \in Nat /\ n \in 1..l
      BY <1>1
    <3>2. Len(b) = IF n + 1 <= l THEN l - (n + 1) + 1 ELSE 0
      BY <2>2
    <3> HIDE DEF l
    <3>3. Len(b) = l - n
      BY <3>1, <3>2
    <3> USE DEF l
    <3>4. DOMAIN b = 1..Len(b)
      BY <2>2
    <3>5. QED
      BY <3>3, <3>4
  <2>4. ASSUME NEW i \in 1..(Len(t) - n)
        PROVE  b[i] = t[i + n]
    <3>1. (n + 1) + i - 1 = i + n /\ i \in 1..(Len(t) - (n + 1) + 1)
      BY <1>1
    <3>2. QED
      BY <3>1, <2>2
  <2>5. QED
    BY <2>2, <2>3, <2>4
<1>4. /\ a \in Seq(T) /\ Len(a) = Len(s) + n /\ DOMAIN a = 1..(Len(s) + n)
      /\ \A i \in 1..Len(s) : a[i] = s[i]
      /\ \A i \in (Len(s) + 1)..(Len(s) + n) : a[i] = SubSeq(t, 1, n)[i - Len(s)]
  BY <1>1, <1>2
<1> HIDE DEF a, b
<1>5. \A i \in DOMAIN a : \/ i \in DOMAIN s /\ a[i] = s[i]
                          \/ i > Len(s) /\ i - Len(s) \in 1..n /\ a[i] = t[i - Len(s)]
  <2> TAKE i \in DOMAIN a
  <2>1. CASE i \in 1..Len(s)
    BY <2>1, <1>1, <1>4
  <2>2. CASE i \in (Len(s) + 1)..(Len(s) + n)
    BY <2>2, <1>1, <1>2, <1>4
  <2>3. QED
    BY <2>1, <2>2, <1>1, <1>4
<1>6. \A i \in DOMAIN b : i \in Nat \ {0} /\ i + n \in DOMAIN t /\ b[i] = t[i + n]
  BY <1>1, <1>3
<1>7. NoneOf(S, t) /\ NoneOf(S, s) => NoneOf(S, a) /\ NoneOf(S, b)
  BY <1>1, <1>5, <1>6 DEF NoneOf
<1>8. ASSUME OneOf(S, t), NoneOf(S, s)
      PROVE  OneOf(S, a) /\ OneOf(S, b) /\ (NoneOf(S, a) \/ NoneOf(S, b))
  <2>1. \A i \in DOMAIN a : a[i] \in S => i - Len(s) \in 1..n /\ i \in Nat /\ t[i - Len(s)] \in S
    BY <1>1, <1>4, <1>5, <1>8 DEF NoneOf
  <2>2. OneOf(S, a)
    <3> SUFFICES ASSUME NEW i \in DOMAIN a, NEW j \in DOMAIN a, a[i] \in S, a[j] \in S
                 PROVE  i = j
      BY DEF OneOf
    <3>1. i - Len(s) = j - Len(s)
      BY <1>1, <1>8, <2>1 DEF OneOf
    <3>2. QED
      BY <3>1, <2>1, <1>1
  <2>3. OneOf(S, b)
    <3> SUFFICES ASSUME NEW i \in DOMAIN b, NEW j \in DOMAIN b, b[i] \in S, b[j] \in S
                 PROVE  i = j
      BY DEF OneOf
    <3>1. i + n = j + n
      BY <1>6, <1>8 DEF OneOf
    <3>2. QED
      BY <3>1, <1>6, <1>1
  <2>4. ASSUME NEW i \in DOMAIN a, NEW j \in DOMAIN b, a[i] \in S, b[j] \in S
        PROVE  FALSE
    <3>1. i - Len(s) = j + n
      BY <1>1, <1>6, <1>8, <2>1, <2>4 DEF OneOf
    <3>2. QED
      BY <3>1, <2>1, <2>4, <1>6, <1>1
  <2>5. QED
    BY <2>2, <2>3, <2>4 DEF NoneOf
<1>9. \A i \in DOMAIN a : \/ i \in DOMAIN s /\ a[i] = s[i]
                          \/ i - Len(s) \in DOMAIN t /\ a[i] = t[i - Len(s)]
  BY <1>1, <1>5
<1>10. a \in Seq(T) /\ b \in Seq(T)
  BY <1>3, <1>4
<1> USE DEF a, b
<1>11. QED
  BY <1>6, <1>7, <1>8, <1>9, <1>10, Zenon

---------------------------------------------------------------------------
(* Types                                                                   *)

Sent  == Requests \cup {Chat, Pong, Null}
Heard == Answers \cup {Ping, Event}

Streams == toServer \in Seq(Sent) /\ packets \in Seq(Heard) /\ toClient \in Seq(Heard)

LEMMA EmptyFacts ==
  ASSUME NEW T, NEW S
  PROVE  <<>> \in Seq(T) /\ DOMAIN <<>> = {} /\ NoneOf(S, <<>>) /\ OneOf(S, <<>>)
  BY DEF NoneOf, OneOf

LEMMA StreamsStep ==
  ASSUME Streams, [Next]_vars
  PROVE  Streams'
<1> USE DEF Streams
<1>1. ASSUME NEW e \in Sent
      PROVE  Append(toServer, e) \in Seq(Sent)
  BY <1>1, AppendFacts
<1>2. ASSUME NEW e \in Heard
      PROVE  Append(toClient, e) \in Seq(Heard)
  BY <1>2, AppendFacts
<1>3. /\ packets /= <<>> => Tail(packets) \in Seq(Heard)
      /\ toServer /= <<>> => Tail(toServer) \in Seq(Sent)
  BY TailFacts
<1>4. /\ {Ping, Event} \subseteq Heard /\ {Chat, Pong, Null} \subseteq Sent
      /\ \A k \in 1..6 : Request(k) \in Sent
      /\ \A k \in 1..5 : Yes(k) \in Heard
      /\ \A k \in Judged : No(k) \in Heard
  BY Kinds DEF Sent, Heard
<1>5. CASE Check
  BY <1>1, <1>4, <1>5 DEF Check, Put
<1>6. CASE LostByError \/ Lost \/ ConnectTimedOut
  BY <1>6, EmptyFacts DEF LostByError, Lost, ConnectTimedOut, Away, ResetSocket
<1>7. CASE Connect \/ StayAway \/ StillConnecting \/ Processed \/ InfosLoaded \/ Announce
  BY <1>7 DEF Connect, StayAway, StillConnecting, Processed, InfosLoaded, Announce, stream
<1>8. CASE Connected
  BY <1>1, <1>4, <1>8 DEF Connected, Put
<1>9. CASE Recv
  <2>1. CASE UNCHANGED <<packets, toClient>>
    BY <2>1, <1>9 DEF Recv
  <2>2. ASSUME NEW n \in 1..Len(toClient),
               packets' = packets \o SubSeq(toClient, 1, n),
               toClient' = SubSeq(toClient, n + 1, Len(toClient))
        PROVE  Streams'
    <3>1. packets' \in Seq(Heard) /\ toClient' \in Seq(Heard)
      BY <2>2, MoveFacts
    <3>2. QED
      BY <3>1, <1>9 DEF Recv
  <2>3. QED
    BY <2>1, <2>2, <1>9 DEF Recv
<1>10. ASSUME NEW k \in 1..5, HandleYes(k)
       PROVE  Streams'
  <2>1. k + 1 \in 1..6
    OBVIOUS
  <2>2. packets' \in Seq(Heard) /\ toClient' = toClient
    BY <1>3, <1>10 DEF HandleYes, Handle
  <2>3. toServer' \in Seq(Sent)
    BY <1>1, <1>4, <1>10, <2>1 DEF HandleYes, Put, Hangup
  <2>4. QED
    BY <2>2, <2>3
<1>11. ASSUME NEW k \in 1..5, HandleNo(k)
       PROVE  Streams'
  BY <1>3, <1>11 DEF HandleNo, Handle, Hangup
<1>12. CASE HandlePing
  BY <1>1, <1>3, <1>4, <1>12 DEF HandlePing, Handle, Put
<1>13. CASE HandleEvent \/ Relay
  BY <1>1, <1>3, <1>4, <1>13 DEF HandleEvent, Relay, Obey, Handle, Put
<1>14. CASE Send
  <2>1. Append(toServer, Chat) \in Seq(Sent)
    BY <1>1, <1>4
  <2>2. Append(toServer, Null) \in Seq(Sent) /\ Append(Append(toServer, Chat), Null) \in Seq(Sent)
    BY <2>1, <1>4, AppendFacts
  <2>3. QED
    BY <1>14, <2>1, <2>2 DEF Send
<1>15. CASE ServerReads
  <2>1. toServer' \in Seq(Sent) /\ packets' = packets
    BY <1>3, <1>15 DEF ServerReads
  <2>2. Head(toServer) \in Sent
    BY <1>15, TailFacts DEF ServerReads
  <2>3. Head(toServer)[2] \in 0..6
    BY <2>2 DEF Sent, Requests, Request, Chat, Pong, Null
  <2> DEFINE k == Head(toServer)[2]
  <2>4. \/ toClient' = toClient
        \/ k \in 1..5 /\ toClient' = Append(toClient, Yes(k))
        \/ k \in Judged /\ toClient' = Append(toClient, No(k))
    BY <1>15, <2>3 DEF ServerReads
  <2> HIDE DEF k
  <2>5. QED
    BY <1>2, <1>4, <2>1, <2>4
<1>16. ASSUME NEW p \in {Ping, Event}, ServerSays(p)
       PROVE  Streams'
  BY <1>2, <1>4, <1>16 DEF ServerSays
<1>17. CASE ServerFails \/ GiveUp \/ Settle \/ Tick
  BY <1>17 DEF ServerFails, GiveUp, Settle, Tick, stream
<1>18. CASE UNCHANGED vars
  BY <1>18 DEF vars, stream
<1>19. QED
  BY <1>5, <1>6, <1>7, <1>8, <1>9, <1>10, <1>11, <1>12, <1>13, <1>14, <1>15, <1>16, <1>17, <1>18
  DEF Next, Turn, Branch, Process, Environment

Flags ==
  /\ waiting \in BOOLEAN /\ first \in BOOLEAN /\ LoggedIn \in BOOLEAN /\ InChat \in BOOLEAN
  /\ checked \in BOOLEAN /\ infos \in BOOLEAN /\ stable \in BOOLEAN

Numbers ==
  /\ queued \in 0..(Limit + 1) /\ wait \in Waits
  /\ disc \in 0..Delay /\ try \in 0..Delay /\ out \in 0..Period /\ null \in 0..Period
  /\ stage \in 0..6

Steps ==
  /\ sock \in {"idle", "connecting", "connected", "error"}
  /\ pc \in {"head", "branch", "process", "send"}
  /\ peer \in {"open", "refused", "closed", "gone", "reset"}
  /\ reported \in {"dead", "online", "away"}

LEMMA TypeParts == TypeOK <=> Streams /\ Flags /\ Numbers /\ Steps
  BY DEF TypeOK, Streams, Flags, Numbers, Steps, Sent, Heard

LEMMA FlagsStep ==
  ASSUME Flags, [Next]_vars
  PROVE  Flags'
<1> USE DEF Flags, link, login, bots, server
<1>1. CASE Check \/ InfosLoaded \/ Announce
  BY <1>1, Zenon DEF Check, InfosLoaded, Announce
<1>2. CASE LostByError \/ Lost \/ ConnectTimedOut
  BY <1>2, Zenon DEF LostByError, Lost, ConnectTimedOut, Away, ResetSocket, LoggedOff
<1>3. CASE Connect \/ StayAway \/ Connected \/ StillConnecting
  BY <1>3, Zenon DEF Connect, StayAway, Connected, StillConnecting
<1>4. CASE Recv \/ Processed \/ Send
  BY <1>4, Zenon DEF Recv, Processed, Send
<1>5. ASSUME NEW k \in 1..5, HandleYes(k) \/ HandleNo(k)
      PROVE  Flags'
  BY <1>5, Zenon DEF HandleYes, HandleNo, Hangup
<1>6. CASE HandlePing \/ HandleEvent \/ Relay
  BY <1>6, Zenon DEF HandlePing, HandleEvent, Relay
<1>7. CASE ServerReads \/ ServerFails \/ GiveUp \/ Settle \/ Tick
  BY <1>7, Zenon DEF ServerReads, ServerFails, GiveUp, Settle, Tick
<1>8. ASSUME NEW p \in {Ping, Event}, ServerSays(p)
      PROVE  Flags'
  BY <1>8, Zenon DEF ServerSays
<1>9. CASE UNCHANGED vars
  BY <1>9, Zenon DEF vars
<1>10. QED
  BY <1>1, <1>2, <1>3, <1>4, <1>5, <1>6, <1>7, <1>8, <1>9
  DEF Next, Turn, Branch, Process, Environment

LEMMA StepsStep ==
  ASSUME Steps, [Next]_vars
  PROVE  Steps'
<1> USE DEF Steps, link, server, bots
<1>1. CASE Check \/ InfosLoaded \/ Announce
  BY <1>1 DEF Check, InfosLoaded, Announce
<1>2. CASE LostByError \/ Lost \/ ConnectTimedOut
  BY <1>2 DEF LostByError, Lost, ConnectTimedOut, Away, ResetSocket, Spared
<1>3. CASE Connect \/ StayAway \/ Connected \/ StillConnecting
  BY <1>3 DEF Connect, StayAway, Connected, StillConnecting
<1>4. CASE Recv \/ Processed \/ Send
  BY <1>4 DEF Recv, Processed, Send
<1>5. ASSUME NEW k \in 1..5, HandleYes(k) \/ HandleNo(k)
      PROVE  Steps'
  BY <1>5 DEF HandleYes, HandleNo, Hangup
<1>6. CASE HandlePing \/ HandleEvent \/ Relay
  BY <1>6 DEF HandlePing, HandleEvent, Handle, Relay, Obey
<1>7. CASE ServerReads \/ ServerFails \/ GiveUp \/ Settle \/ Tick
  BY <1>7 DEF ServerReads, ServerFails, GiveUp, Settle, Tick
<1>8. ASSUME NEW p \in {Ping, Event}, ServerSays(p)
      PROVE  Steps'
  BY <1>8 DEF ServerSays
<1>9. CASE UNCHANGED vars
  BY <1>9 DEF vars
<1>10. QED
  BY <1>1, <1>2, <1>3, <1>4, <1>5, <1>6, <1>7, <1>8, <1>9
  DEF Next, Turn, Branch, Process, Environment

LEMMA NumbersStep ==
  ASSUME Streams, Numbers, [Next]_vars
  PROVE  Numbers'
<1> USE DEF Numbers, queue, clocks, server
<1>0. Limit \in Nat /\ Delay \in Nat /\ Period \in Nat /\ Waits \subseteq 0..Period
  BY TimeAssumption, LimitAssumption
<1>1. CASE Check \/ InfosLoaded \/ Announce
  BY <1>0, <1>1 DEF Check, InfosLoaded, Announce, QueueChat, Full
<1>2. CASE LostByError \/ Lost \/ ConnectTimedOut
  BY <1>0, <1>2 DEF LostByError, Lost, ConnectTimedOut, Away, ResetSocket, TimedOutAt
<1>3. CASE Connect \/ StayAway \/ Connected \/ StillConnecting
  <2>1. CASE Connect
    BY <1>0, <2>1 DEF Connect
  <2>2. CASE Connected
    BY <1>0, <2>2 DEF Connected, Emptied
  <2>3. CASE StayAway \/ StillConnecting
    BY <2>3 DEF StayAway, StillConnecting
  <2>4. QED
    BY <1>3, <2>1, <2>2, <2>3
<1>4. CASE Recv \/ Processed
  BY <1>4 DEF Recv, Processed
<1>5. CASE Send
  <2>1. CASE FromQueue
    BY <1>0, <1>5, <2>1 DEF Send, FromQueue, KeepAlive
  <2>2. CASE ~FromQueue
    BY <1>0, <1>5, <2>2 DEF Send, KeepAlive
  <2>3. QED
    BY <2>1, <2>2
<1>6. ASSUME NEW k \in 1..5, HandleYes(k) \/ HandleNo(k)
      PROVE  Numbers'
  BY <1>6 DEF HandleYes, HandleNo, Hangup
<1>7. CASE HandlePing \/ HandleEvent \/ Relay
  BY <1>0, <1>7 DEF HandlePing, HandleEvent, Relay, Obey, QueueChat, Full
<1>8. CASE ServerReads
  <2>1. Head(toServer) \in Sent
    BY <1>8, TailFacts DEF ServerReads, Streams
  <2>2. Head(toServer)[2] \in 0..6
    BY <2>1 DEF Sent, Requests, Request, Chat, Pong, Null
  <2>3. QED
    BY <1>8, <2>2 DEF ServerReads
<1>9. CASE ServerFails \/ GiveUp \/ Settle
  BY <1>9 DEF ServerFails, GiveUp, Settle
<1>10. CASE Tick
  BY <1>0, <1>10 DEF Tick, Older
<1>11. ASSUME NEW p \in {Ping, Event}, ServerSays(p)
       PROVE  Numbers'
  BY <1>11 DEF ServerSays
<1>12. CASE UNCHANGED vars
  BY <1>12 DEF vars
<1>13. QED
  BY <1>1, <1>2, <1>3, <1>4, <1>5, <1>6, <1>7, <1>8, <1>9, <1>10, <1>11, <1>12
  DEF Next, Turn, Branch, Process, Environment

LEMMA TypeStep ==
  ASSUME TypeOK, [Next]_vars
  PROVE  TypeOK'
BY StreamsStep, FlagsStep, NumbersStep, StepsStep
DEF TypeOK, Streams, Flags, Numbers, Steps, Sent, Heard

---------------------------------------------------------------------------
(* Fresh and Known: sockets and flags                                      *)

LEMMA FreshStep ==
  ASSUME IInv, [Next]_vars
  PROVE  Fresh'
<1> USE DEF IInv, Fresh, link, login, clocks, stream, server
<1>1. CASE Check
  BY <1>1 DEF Check
<1>2. CASE InfosLoaded \/ Announce
  BY <1>2 DEF InfosLoaded, Announce
<1>3. CASE LostByError \/ Lost
  BY <1>3, TypeParts DEF LostByError, Lost, Away, ResetSocket, LoggedOff, Numbers
<1>4. CASE Connect
  BY <1>4 DEF Connect
<1>5. CASE StayAway \/ StillConnecting
  BY <1>5 DEF StayAway, StillConnecting
<1>6. CASE Connected
  BY <1>6 DEF Connected
<1>7. CASE ConnectTimedOut
  BY <1>7, TypeParts DEF ConnectTimedOut, ResetSocket, TimedOutAt, Numbers
<1>8. CASE Recv
  BY <1>8 DEF Recv
<1>9. CASE Processed
  BY <1>9 DEF Processed
<1>10. CASE Send
  BY <1>10 DEF Send
<1>11. ASSUME NEW k \in 1..5, HandleYes(k) \/ HandleNo(k)
       PROVE  Fresh'
  BY <1>11 DEF HandleYes, HandleNo, Handle, Hangup
<1>12. CASE HandlePing \/ HandleEvent \/ Relay
  BY <1>12 DEF HandlePing, HandleEvent, Handle, Relay, Obey, Put
<1>13. CASE ServerReads
  BY <1>13 DEF ServerReads
<1>14. CASE ServerFails \/ GiveUp \/ Settle
  BY <1>14 DEF ServerFails, GiveUp, Settle
<1>15. CASE Tick
  <2>1. disc <= try => disc' <= try'
    BY <1>15, TypeParts, TimeAssumption DEF Tick, Older, Numbers
  <2>2. QED
    BY <1>15, <2>1 DEF Tick
<1>16. ASSUME NEW p \in {Ping, Event}, ServerSays(p)
       PROVE  Fresh'
  BY <1>16 DEF ServerSays
<1>17. CASE UNCHANGED vars
  BY <1>17 DEF vars
<1>18. QED
  BY <1>1, <1>2, <1>3, <1>4, <1>5, <1>6, <1>7, <1>8, <1>9, <1>10, <1>11, <1>12, <1>13, <1>14,
     <1>15, <1>16, <1>17 DEF Next, Turn, Branch, Process, Environment

\* An event in m_Packets tells of a finished login.
LEMMA EventLate ==
  ASSUME IInv, packets /= <<>>, Head(packets) = Event
  PROVE  LoggedIn
<1>1. 1 \in DOMAIN packets /\ packets[1] = Event
  BY TypeParts, TailFacts DEF IInv, Streams
<1>2. stage = 6
  BY <1>1 DEF IInv, Telling, SaidIn, Says
<1>3. QED
  BY <1>2 DEF IInv, Telling, ServerAgrees

LEMMA KnownStep ==
  ASSUME IInv, [Next]_vars
  PROVE  Known'
<1> USE DEF IInv, Known, link, login, bots, queue
<1>0. queued \in Nat
  BY TypeParts, LimitAssumption DEF Numbers
<1>1. CASE Check
  BY <1>1 DEF Check
<1>2. CASE InfosLoaded \/ Announce
  BY <1>0, <1>2 DEF InfosLoaded, Announce, QueueChat
<1>3. CASE LostByError \/ Lost
  BY <1>3 DEF LostByError, Lost, Away, ResetSocket, Spared
<1>4. CASE Connect \/ StayAway \/ StillConnecting
  BY <1>4 DEF Connect, StayAway, StillConnecting
<1>5. CASE Connected
  BY <1>5 DEF Connected, Emptied
<1>6. CASE ConnectTimedOut
  BY <1>6 DEF ConnectTimedOut, ResetSocket
<1>7. CASE Recv
  BY <1>7 DEF Recv
<1>8. CASE Processed
  BY <1>8 DEF Processed
<1>9. CASE Send
  BY <1>0, <1>9 DEF Send, FromQueue
<1>10. ASSUME NEW k \in 1..5, HandleYes(k) \/ HandleNo(k)
       PROVE  Known'
  <2>1. /\ pc = "process" /\ pc' /= "branch"
        /\ queued' = queued /\ reported' = reported /\ checked' = checked /\ infos' = infos
    BY <1>10 DEF HandleYes, HandleNo, Handle, Hangup
  <2>2. LoggedIn => LoggedIn'
    BY <1>10, Zenon DEF HandleYes, HandleNo, Hangup
  <2>3. QED
    BY <2>1, <2>2
<1>11. CASE HandlePing
  BY <1>11 DEF HandlePing, Handle
<1>12. CASE HandleEvent \/ Relay
  BY <1>0, <1>12, EventLate DEF HandleEvent, Handle, Relay, Obey, QueueChat
<1>13. CASE ServerReads
  BY <1>13 DEF ServerReads
<1>14. CASE ServerFails \/ GiveUp \/ Settle \/ Tick
  BY <1>14 DEF ServerFails, GiveUp, Settle, Tick
<1>15. ASSUME NEW p \in {Ping, Event}, ServerSays(p)
       PROVE  Known'
  BY <1>15 DEF ServerSays
<1>16. CASE UNCHANGED vars
  BY <1>16 DEF vars
<1>17. QED
  BY <1>1, <1>2, <1>3, <1>4, <1>5, <1>6, <1>7, <1>8, <1>9, <1>10, <1>11, <1>12, <1>13, <1>14,
     <1>15, <1>16 DEF Next, Turn, Branch, Process, Environment

---------------------------------------------------------------------------
(* OneUnderWay                                                             *)

LEMMA Weaker ==
  ASSUME NEW S, NEW s, NoneOf(S, s)
  PROVE  OneOf(S, s)
  BY DEF NoneOf, OneOf

LEMMA OnlyPings ==
  ASSUME IInv, pc /= "process"
  PROVE  NoneOf(Answers, packets)
  BY Kinds DEF IInv, OneUnderWay, NoneOf

\* When an answer is next in m_Packets it is the only thing of the login under way.
LEMMA AnswerAlone ==
  ASSUME IInv, packets /= <<>>, Head(packets) \in Answers
  PROVE  /\ NoneOf(Requests, toServer) /\ NoneOf(Answers, toClient) /\ NoneOf(Answers, Tail(packets))
         /\ Says(Head(packets), stage, LoggedIn, InChat)
<1>1. packets \in Seq(Heard) /\ OneOf(Answers, packets)
  BY TypeParts DEF IInv, Streams, OneUnderWay
<1>2. 1 \in DOMAIN packets /\ packets[1] = Head(packets) /\ NoneOf(Answers, Tail(packets))
  BY <1>1, TailFacts
<1>3. ~NoneOf(Answers, packets)
  BY <1>2 DEF NoneOf
<1>4. QED
  BY <1>2, <1>3 DEF IInv, OneUnderWay, Telling, SaidIn

\* And a request that the server reads is.
LEMMA RequestAlone ==
  ASSUME IInv, toServer /= <<>>, Head(toServer) \in Requests
  PROVE  /\ NoneOf(Requests, Tail(toServer)) /\ NoneOf(Answers, toClient) /\ NoneOf(Answers, packets)
         /\ Says(Head(toServer), stage, LoggedIn, InChat)
<1>1. toServer \in Seq(Sent) /\ OneOf(Requests, toServer)
  BY TypeParts DEF IInv, Streams, OneUnderWay
<1>2. 1 \in DOMAIN toServer /\ toServer[1] = Head(toServer) /\ NoneOf(Requests, Tail(toServer))
  BY <1>1, TailFacts
<1>3. ~NoneOf(Requests, toServer)
  BY <1>2 DEF NoneOf
<1>4. QED
  BY <1>2, <1>3 DEF IInv, OneUnderWay, Telling, SaidIn

\* Behind an answer that ends the connection wait only pings.
LEMMA PingsBehind ==
  ASSUME IInv, packets /= <<>>,
         Head(packets) = Yes(1) \/ \E k \in Judged : Head(packets) = No(k)
  PROVE  \A i \in DOMAIN Tail(packets) : Tail(packets)[i] = Ping
<1>1. Head(packets) \in Answers
  BY Kinds
<1>2. stage < 4
  BY <1>1, AnswerAlone, Kinds DEF Says, Judged
<1>3. \A i \in DOMAIN packets : packets[i] /= Event
  BY <1>2 DEF IInv, Telling, SaidIn, Says
<1>4. /\ packets \in Seq(Heard) /\ Tail(packets) \in Seq(Heard)
      /\ \A i \in DOMAIN Tail(packets) : Tail(packets)[i] /= Event
  BY <1>3, TypeParts, TailFacts DEF IInv, Streams
<1>5. \A i \in DOMAIN Tail(packets) : Tail(packets)[i] \in Heard /\ Tail(packets)[i] \notin Answers
  BY <1>1, <1>4, AnswerAlone DEF NoneOf
<1>6. QED
  BY <1>4, <1>5 DEF Heard

\* Which of the words of the server's side the head of its stream is.
LEMMA Reading ==
  ASSUME Streams, toServer /= <<>>
  PROVE  /\ Head(toServer) \in Sent
         /\ Head(toServer)[2] = 0 => Head(toServer) \notin Requests
         /\ Head(toServer)[2] /= 0 =>
              Head(toServer)[2] \in 1..6 /\ Head(toServer) = Request(Head(toServer)[2])
<1>1. Head(toServer) \in Sent
  BY TailFacts DEF Streams
<1>2. QED
  BY <1>1 DEF Sent, Requests, Request, Chat, Pong, Null

LEMMA UnderWayStep ==
  ASSUME IInv, [Next]_vars
  PROVE  OneUnderWay'
<1>1. /\ Streams
      /\ toServer \in Seq(Sent) /\ packets \in Seq(Heard) /\ toClient \in Seq(Heard)
  BY TypeParts DEF IInv, Streams
<1>2. /\ {Ping, Event} \subseteq Heard /\ {Chat, Pong, Null} \subseteq Sent
      /\ Ping \notin Answers /\ Event \notin Answers
      /\ Chat \notin Requests /\ Pong \notin Requests /\ Null \notin Requests
  BY Kinds DEF Sent, Heard
<1>3. OneUnderWay
  BY DEF IInv
<1>4. ASSUME NEW e \in {Chat, Pong, Null}, toServer' = Append(toServer, e),
             packets' = packets, toClient' = toClient, pc = "process" => pc' = "process" \/ packets = <<>>
      PROVE  OneUnderWay'
  <2>1. /\ OneOf(Requests, toServer) => OneOf(Requests, toServer')
        /\ NoneOf(Requests, toServer) => NoneOf(Requests, toServer')
    BY <1>1, <1>2, <1>4, AppendFacts
  <2>2. QED
    BY <2>1, <1>3, <1>4, EmptyFacts DEF OneUnderWay
<1>5. ASSUME UNCHANGED stream, packets' = packets,
             pc = "process" => pc' = "process" \/ packets = <<>>
      PROVE  OneUnderWay'
  BY <1>3, <1>5, EmptyFacts DEF OneUnderWay, stream
<1>6. ASSUME toServer' = <<>>, toClient' = <<>>, packets' = packets, pc /= "process"
      PROVE  OneUnderWay'
  BY <1>3, <1>6, EmptyFacts DEF OneUnderWay
<1>7. CASE Check
  BY <1>4, <1>5, <1>7 DEF Check, Put, stream
<1>8. CASE LostByError \/ Lost \/ ConnectTimedOut
  BY <1>6, <1>8 DEF LostByError, Lost, ConnectTimedOut, Away, ResetSocket
<1>9. CASE Connect \/ StayAway \/ StillConnecting \/ Processed \/ InfosLoaded \/ Announce
  BY <1>5, <1>9 DEF Connect, StayAway, StillConnecting, Processed, InfosLoaded, Announce
<1>10. CASE Connected
  <2>1. /\ toServer = <<>> /\ toClient = <<>> /\ pc /= "process"
        /\ toServer' = Append(toServer, Request(1)) /\ packets' = packets /\ toClient' = toClient
    BY <1>10 DEF Connected, Put, IInv, Fresh
  <2>2. OneOf(Requests, toServer')
    BY <1>1, <2>1, Kinds, EmptyFacts, AppendFacts DEF Sent
  <2>3. QED
    BY <2>1, <2>2, <1>3, OnlyPings, EmptyFacts DEF OneUnderWay
<1>11. CASE Recv
  <2>1. pc /= "process" /\ pc' = "process" /\ toServer' = toServer
    BY <1>11 DEF Recv
  <2>2. CASE UNCHANGED <<packets, toClient>>
    BY <2>1, <2>2, <1>3 DEF OneUnderWay
  <2>3. ASSUME NEW n \in 1..Len(toClient),
               packets' = packets \o SubSeq(toClient, 1, n),
               toClient' = SubSeq(toClient, n + 1, Len(toClient))
        PROVE  OneUnderWay'
    <3>1. NoneOf(Answers, packets) /\ OneOf(Answers, toClient)
      BY <2>1, <1>3, OnlyPings DEF OneUnderWay
    <3>2. /\ OneOf(Answers, packets') /\ OneOf(Answers, toClient')
          /\ NoneOf(Answers, packets') \/ NoneOf(Answers, toClient')
          /\ NoneOf(Answers, toClient) => NoneOf(Answers, packets') /\ NoneOf(Answers, toClient')
      BY <3>1, <1>1, <2>3, MoveFacts
    <3>3. QED
      BY <3>2, <2>1, <1>3 DEF OneUnderWay
  <2>4. QED
    BY <2>2, <2>3, <1>11 DEF Recv
<1>12. ASSUME NEW k \in 1..5, HandleYes(k)
       PROVE  OneUnderWay'
  <2>1. /\ packets /= <<>> /\ Head(packets) = Yes(k) /\ packets' = Tail(packets) /\ toClient' = toClient
        /\ Head(packets) \in Answers
    BY <1>12, Kinds DEF HandleYes, Handle
  <2>2. /\ NoneOf(Requests, toServer) /\ NoneOf(Answers, toClient')
        /\ NoneOf(Answers, packets')
    BY <2>1, AnswerAlone
  <2>3. CASE toServer' = Append(toServer, Request(k + 1)) /\ pc' = pc
    <3>1. k + 1 \in 1..6 /\ Request(k + 1) \in Sent
      BY Kinds DEF Sent
    <3>2. OneOf(Requests, toServer')
      BY <1>1, <2>2, <2>3, <3>1, AppendFacts
    <3>3. pc' = "process"
      BY <2>3, <1>12 DEF HandleYes, Handle
    <3>4. QED
      BY <2>2, <3>2, <3>3, Weaker DEF OneUnderWay
  <2>4. CASE k = 1 /\ toServer' = toServer
    <3>1. \A i \in DOMAIN packets' : packets'[i] = Ping
      BY <2>1, <2>4, PingsBehind
    <3>2. QED
      BY <2>2, <2>4, <3>1, Weaker DEF OneUnderWay
  <2>5. QED
    BY <2>3, <2>4, <1>12 DEF HandleYes, Hangup, Put
<1>13. ASSUME NEW k \in 1..5, HandleNo(k)
       PROVE  OneUnderWay'
  <2>1. /\ packets /= <<>> /\ Head(packets) = No(k) /\ packets' = Tail(packets) /\ toClient' = toClient
        /\ toServer' = toServer
    BY <1>13 DEF HandleNo, Handle, Hangup
  <2>2. Head(packets) \in Heard
    BY <1>1, <2>1, TailFacts
  <2>3. k \in Judged /\ Head(packets) \in Answers
    BY <2>1, <2>2, Kinds DEF Heard, Answers, No, Yes, Ping, Event, Judged
  <2>4. /\ NoneOf(Requests, toServer') /\ NoneOf(Answers, toClient')
        /\ NoneOf(Answers, packets')
    BY <2>1, <2>3, AnswerAlone
  <2>5. \A i \in DOMAIN packets' : packets'[i] = Ping
    BY <2>1, <2>3, PingsBehind
  <2>6. QED
    BY <2>4, <2>5, Weaker DEF OneUnderWay
<1>14. ASSUME packets /= <<>>, packets' = Tail(packets), toClient' = toClient,
              pc' = "process",
              toServer' = toServer \/ \E e \in {Chat, Pong} : toServer' = Append(toServer, e)
       PROVE  OneUnderWay'
  <2>1. /\ OneOf(Answers, packets) => OneOf(Answers, packets')
        /\ NoneOf(Answers, packets) => NoneOf(Answers, packets')
    BY <1>1, <1>14, TailFacts
  <2>2. /\ OneOf(Requests, toServer) => OneOf(Requests, toServer')
        /\ NoneOf(Requests, toServer) => NoneOf(Requests, toServer')
    <3>1. ASSUME NEW e \in {Chat, Pong}, toServer' = Append(toServer, e)
          PROVE  /\ OneOf(Requests, toServer) => OneOf(Requests, toServer')
                 /\ NoneOf(Requests, toServer) => NoneOf(Requests, toServer')
      BY <1>1, <1>2, <3>1, AppendFacts
    <3>2. QED
      BY <1>14, <3>1
  <2>3. QED
    BY <2>1, <2>2, <1>3, <1>14 DEF OneUnderWay
<1>15. CASE HandlePing
  BY <1>14, <1>15 DEF HandlePing, Handle, Put
<1>16. CASE HandleEvent \/ Relay
  <2>1. toServer' = toServer \/ toServer' = Append(toServer, Chat)
    BY <1>16 DEF HandleEvent, Relay, Obey, Put
  <2>2. CASE HandleEvent
    BY <1>14, <2>1, <2>2 DEF HandleEvent, Handle
  <2>3. CASE Relay
    <3>1. packets' = packets /\ toClient' = toClient /\ pc' = pc
      BY <2>3 DEF Relay
    <3>2. QED
      BY <1>4, <1>5, <2>1, <3>1 DEF stream
  <2>4. QED
    BY <1>16, <2>2, <2>3
<1>17. CASE Send
  <2>1. pc = "send" /\ packets' = packets /\ toClient' = toClient
    BY <1>17 DEF Send
  <2>2. \/ toServer' = toServer
        \/ \E e \in {Chat, Null} : toServer' = Append(toServer, e)
        \/ toServer' = Append(Append(toServer, Chat), Null)
    BY <1>17 DEF Send
  <2>3. /\ OneOf(Requests, toServer) => OneOf(Requests, toServer')
        /\ NoneOf(Requests, toServer) => NoneOf(Requests, toServer')
    <3>1. \A e \in {Chat, Null} :
            /\ Append(toServer, e) \in Seq(Sent)
            /\ OneOf(Requests, toServer) => OneOf(Requests, Append(toServer, e))
            /\ NoneOf(Requests, toServer) => NoneOf(Requests, Append(toServer, e))
      BY <1>1, <1>2, AppendFacts
    <3>2. LET t == Append(toServer, Chat)
          IN  /\ OneOf(Requests, t) => OneOf(Requests, Append(t, Null))
              /\ NoneOf(Requests, t) => NoneOf(Requests, Append(t, Null))
      BY <3>1, <1>2, AppendFacts
    <3>3. QED
      BY <3>1, <3>2, <2>2
  <2>4. QED
    BY <2>1, <2>3, <1>3 DEF OneUnderWay
<1>18. CASE ServerReads
  <2>1. toServer /= <<>> /\ toServer' = Tail(toServer) /\ packets' = packets /\ pc' = pc
    BY <1>18 DEF ServerReads
  <2> DEFINE k == Head(toServer)[2]
  <2>2. CASE k = 0
    <3>1. toClient' = toClient
      BY <1>18, <2>2 DEF ServerReads, Judged
    <3>2. /\ OneOf(Requests, toServer) => OneOf(Requests, toServer')
          /\ NoneOf(Requests, toServer) => NoneOf(Requests, toServer')
      BY <1>1, <2>1, TailFacts
    <3>3. QED
      BY <2>1, <3>1, <3>2, <1>3 DEF OneUnderWay
  <2>3. CASE k /= 0
    <3>1. k \in 1..6 /\ Head(toServer) = Request(k) /\ Head(toServer) \in Requests
      BY <1>1, <2>1, <2>3, Reading, Kinds
    <3>2. /\ NoneOf(Requests, toServer') /\ NoneOf(Answers, toClient)
          /\ NoneOf(Answers, packets)
      BY <2>1, <3>1, RequestAlone
    <3>3. \/ toClient' = toClient
          \/ k \in 1..5 /\ toClient' = Append(toClient, Yes(k))
          \/ k \in Judged /\ toClient' = Append(toClient, No(k))
      BY <1>18, <2>3, <3>1 DEF ServerReads
    <3> HIDE DEF k
    <3>4. OneOf(Answers, toClient')
      <4>1. ASSUME NEW e \in Heard, toClient' = Append(toClient, e)
            PROVE  OneOf(Answers, toClient')
        BY <1>1, <3>2, <4>1, AppendFacts
      <4>2. OneOf(Answers, toClient)
        BY <3>2, Weaker
      <4>3. /\ k \in 1..5 => Yes(k) \in Heard
            /\ k \in Judged => No(k) \in Heard
        BY Kinds DEF Heard
      <4>4. QED
        BY <3>3, <4>1, <4>2, <4>3
    <3>5. QED
      BY <2>1, <3>2, <3>4, <1>3, Weaker DEF OneUnderWay
  <2>4. QED
    BY <2>2, <2>3
<1>19. ASSUME NEW p \in {Ping, Event}, ServerSays(p)
       PROVE  OneUnderWay'
  <2>1. /\ OneOf(Answers, toClient) => OneOf(Answers, toClient')
        /\ NoneOf(Answers, toClient) => NoneOf(Answers, toClient')
    BY <1>1, <1>2, <1>19, AppendFacts DEF ServerSays
  <2>2. QED
    BY <2>1, <1>3, <1>19 DEF ServerSays, OneUnderWay
<1>20. CASE ServerFails \/ GiveUp \/ Settle \/ Tick
  BY <1>5, <1>20 DEF ServerFails, GiveUp, Settle, Tick
<1>21. CASE UNCHANGED vars
  BY <1>5, <1>21 DEF vars
<1>22. QED
  BY <1>7, <1>8, <1>9, <1>10, <1>11, <1>12, <1>13, <1>15, <1>16, <1>17, <1>18, <1>19, <1>20, <1>21
  DEF Next, Turn, Branch, Process, Environment

---------------------------------------------------------------------------
(* Telling and ServerAgrees                                                *)

Now(p)   == Says(p, stage, LoggedIn, InChat)
After(p) == Says(p, stage', LoggedIn', InChat')

LEMMA TellingNext ==
  Telling' <=> /\ \A i \in DOMAIN toServer' : After(toServer'[i])
               /\ \A i \in DOMAIN packets' : After(packets'[i])
               /\ \A i \in DOMAIN toClient' : After(toClient'[i])
               /\ stage' = 6 => InChat'
  BY DEF Telling, SaidIn, After

\* What is said stays true as long as the login does not fall back or go on.
LEMMA SaysKept ==
  ASSUME stage' = stage, LoggedIn => LoggedIn', InChat => InChat'
  PROVE  \A p : Now(p) => After(p)
  BY DEF Says, Now, After

\* Pings, answers to them and NULL packets say nothing, chat little.
LEMMA SaysLittle ==
  /\ After(Ping) /\ After(Pong) /\ After(Null)
  /\ stage' >= 4 => After(Chat)
  BY DEF Says, After, Ping, Pong, Null, Chat, Event, Request, Yes, No

LEMMA SaysOf ==
  /\ \A k \in 1..6 : stage' = k - 1 /\ (k >= 5 => LoggedIn') /\ (k = 6 => InChat') => After(Request(k))
  /\ \A k \in 1..5 : stage' = k /\ (k >= 5 => LoggedIn') => After(Yes(k))
  /\ \A k \in Judged : stage' = k - 1 => After(No(k))
  /\ stage' = 6 => After(Event)
  BY DEF Says, After, Ping, Pong, Null, Chat, Event, Request, Yes, No

LEMMA SaidAfter ==
  ASSUME \A p : Now(p) => After(p), NEW T, NEW s \in Seq(T), SaidIn(s)
  PROVE  /\ \A i \in DOMAIN s : After(s[i])
         /\ s /= <<>> => \A i \in DOMAIN Tail(s) : After(Tail(s)[i])
         /\ \A e \in T : After(e) => \A i \in DOMAIN Append(s, e) : After(Append(s, e)[i])
<1>1. \A i \in DOMAIN s : After(s[i])
  BY DEF SaidIn, Now
<1>2. ASSUME s /= <<>>, NEW i \in DOMAIN Tail(s)
      PROVE  After(Tail(s)[i])
  <2>1. i + 1 \in DOMAIN s /\ Tail(s)[i] = s[i + 1]
    BY <1>2, TailFacts
  <2>2. QED
    BY <1>1, <2>1
<1>3. ASSUME NEW e \in T, After(e), NEW i \in DOMAIN Append(s, e)
      PROVE  After(Append(s, e)[i])
  <2>1. (i \in DOMAIN s /\ Append(s, e)[i] = s[i]) \/ Append(s, e)[i] = e
    BY <1>3, AppendFacts
  <2>2. QED
    BY <1>1, <1>3, <2>1
<1>4. QED
  BY <1>1, <1>2, <1>3

LEMMA TellingStep ==
  ASSUME IInv, [Next]_vars
  PROVE  Telling'
<1>1. /\ toServer \in Seq(Sent) /\ packets \in Seq(Heard) /\ toClient \in Seq(Heard)
      /\ SaidIn(toServer) /\ SaidIn(packets) /\ SaidIn(toClient) /\ (stage = 6 => InChat)
  BY TypeParts DEF IInv, Streams, Telling
<1>2. /\ {Ping, Event} \subseteq Heard /\ {Chat, Pong, Null} \subseteq Sent
      /\ \A k \in 1..6 : Request(k) \in Sent
      /\ \A k \in 1..5 : Yes(k) \in Heard
      /\ \A k \in Judged : No(k) \in Heard
  BY Kinds DEF Sent, Heard
<1>3. LoggedIn => stage >= 4
  BY DEF IInv, ServerAgrees
<1> DEFINE Kept == stage' = stage /\ (LoggedIn => LoggedIn') /\ (InChat => InChat')
<1>4. ASSUME Kept
      PROVE  /\ \A i \in DOMAIN toServer : After(toServer[i])
             /\ \A i \in DOMAIN packets : After(packets[i])
             /\ \A i \in DOMAIN toClient : After(toClient[i])
             /\ toServer /= <<>> => \A i \in DOMAIN Tail(toServer) : After(Tail(toServer)[i])
             /\ packets /= <<>> => \A i \in DOMAIN Tail(packets) : After(Tail(packets)[i])
             /\ \A e \in Sent : After(e) =>
                  \A i \in DOMAIN Append(toServer, e) : After(Append(toServer, e)[i])
             /\ \A e \in Heard : After(e) =>
                  \A i \in DOMAIN Append(toClient, e) : After(Append(toClient, e)[i])
             /\ stage' = 6 => InChat'
  <2>1. \A p : Now(p) => After(p)
    BY <1>4, SaysKept
  <2>2. QED
    BY <1>1, <1>4, <2>1, SaidAfter
<1> HIDE DEF Kept
<1>5. ASSUME UNCHANGED <<stream, packets, login, stage>>
      PROVE  Telling'
  <2>1. Kept
    BY <1>5 DEF Kept, login
  <2>2. QED
    BY <1>4, <1>5, <2>1, TellingNext DEF stream
<1>6. ASSUME toServer' = <<>>, toClient' = <<>>, packets' = packets, pc /= "process", stage' = 0
      PROVE  Telling'
  <2>1. \A i \in DOMAIN packets : packets[i] = Ping
    BY <1>6 DEF IInv, OneUnderWay
  <2>2. QED
    BY <1>6, <2>1, TellingNext, SaysLittle, EmptyFacts
<1>7. CASE Check
  <2>1. Kept /\ packets' = packets /\ toClient' = toClient
    BY <1>7 DEF Check, Kept, login, server
  <2>2. toServer' = toServer \/ (toServer' = Append(toServer, Chat) /\ LoggedIn)
    BY <1>7 DEF Check, Put
  <2>3. LoggedIn => After(Chat)
    BY <1>3, <2>1, SaysLittle DEF Kept
  <2>4. QED
    BY <1>2, <1>4, <2>1, <2>2, <2>3, TellingNext
<1>8. CASE LostByError \/ Lost \/ ConnectTimedOut
  BY <1>6, <1>8 DEF LostByError, Lost, ConnectTimedOut, Away, ResetSocket
<1>9. CASE Connect \/ StayAway \/ StillConnecting \/ Processed \/ InfosLoaded \/ Announce
  BY <1>5, <1>9 DEF Connect, StayAway, StillConnecting, Processed, InfosLoaded, Announce, server
<1>10. CASE Connected
  <2>1. /\ Kept /\ packets' = packets /\ toClient' = toClient
        /\ toServer' = Append(toServer, Request(1)) /\ stage' = 0
    BY <1>10 DEF Connected, Kept, login, Put, IInv, Fresh
  <2>2. After(Request(1))
    BY <2>1, SaysOf
  <2>3. QED
    BY <1>2, <1>4, <2>1, <2>2, TellingNext
<1>11. CASE Recv
  <2>1. Kept /\ toServer' = toServer
    BY <1>11 DEF Recv, Kept, login, server
  <2>2. CASE UNCHANGED <<packets, toClient>>
    BY <2>1, <2>2, <1>4, TellingNext
  <2>3. ASSUME NEW n \in 1..Len(toClient),
               packets' = packets \o SubSeq(toClient, 1, n),
               toClient' = SubSeq(toClient, n + 1, Len(toClient))
        PROVE  Telling'
    <3>1. /\ \A i \in DOMAIN packets' :
               \/ i \in DOMAIN packets /\ packets'[i] = packets[i]
               \/ i - Len(packets) \in DOMAIN toClient /\ packets'[i] = toClient[i - Len(packets)]
          /\ \A i \in DOMAIN toClient' : i + n \in DOMAIN toClient /\ toClient'[i] = toClient[i + n]
      <4> DEFINE a == packets \o SubSeq(toClient, 1, n)
                 c == SubSeq(toClient, n + 1, Len(toClient))
      <4>1. /\ \A i \in DOMAIN a :
                 \/ i \in DOMAIN packets /\ a[i] = packets[i]
                 \/ i - Len(packets) \in DOMAIN toClient /\ a[i] = toClient[i - Len(packets)]
            /\ \A i \in DOMAIN c : i + n \in DOMAIN toClient /\ c[i] = toClient[i + n]
            /\ NoneOf(Answers, toClient) /\ NoneOf(Answers, packets) => NoneOf(Answers, a) /\ NoneOf(Answers, c)
        BY <1>1, MoveFacts
      <4>2. packets' = a /\ toClient' = c
        BY <2>3
      <4> HIDE DEF a, c
      <4>3. QED
        BY <4>1, <4>2
    <3>2. /\ \A i \in DOMAIN packets' : After(packets'[i])
          /\ \A i \in DOMAIN toClient' : After(toClient'[i])
      BY <3>1, <2>1, <1>4
    <3>3. QED
      BY <3>2, <2>1, <1>4, TellingNext
  <2>4. QED
    BY <2>2, <2>3, <1>11 DEF Recv
<1>12. ASSUME NEW k \in 1..5, HandleYes(k)
       PROVE  Telling'
  <2>1. /\ packets /= <<>> /\ Head(packets) = Yes(k) /\ packets' = Tail(packets) /\ toClient' = toClient
        /\ stage' = stage /\ Head(packets) \in Answers
    BY <1>12, Kinds DEF HandleYes, Handle, server
  <2>2. Now(Yes(k))
    BY <2>1, AnswerAlone DEF Now
  <2>3. stage = k /\ (k = 5 => LoggedIn)
    BY <2>2 DEF Now, Says
  <2>4. Kept
    <3>1. (LoggedIn => LoggedIn') /\ (InChat => InChat')
      <4>1. CASE LoggedIn' = (LoggedIn \/ k = 4) /\ InChat' = (InChat \/ k = 5)
        BY <4>1, Zenon
      <4>2. CASE UNCHANGED login
        BY <4>2 DEF login
      <4>3. QED
        BY <1>12, <4>1, <4>2, Zenon DEF HandleYes, Hangup
    <3>2. QED
      BY <2>1, <3>1, Zenon DEF Kept
  <2>5. CASE toServer' = Append(toServer, Request(k + 1)) /\ LoggedIn' = (LoggedIn \/ k = 4)
             /\ InChat' = (InChat \/ k = 5)
    <3>1. k >= 4 => LoggedIn'
      <4>1. k >= 4 => k = 4 \/ k = 5
        OBVIOUS
      <4>2. k = 4 \/ k = 5 => LoggedIn'
        BY <2>3, <2>5, Zenon
      <4>3. QED
        BY <4>1, <4>2
    <3>2. k + 1 \in 1..6 /\ stage' = (k + 1) - 1 /\ (k + 1 >= 5 => LoggedIn') /\ (k + 1 = 6 => InChat')
      BY <2>1, <2>3, <2>5, <3>1
    <3>3. After(Request(k + 1))
      BY <3>2, SaysOf
    <3>4. Request(k + 1) \in Sent
      BY <1>2, <3>2
    <3>5. QED
      BY <1>4, <2>1, <2>4, <2>5, <3>3, <3>4, TellingNext
  <2>6. CASE toServer' = toServer
    BY <1>4, <2>1, <2>4, <2>6, TellingNext
  <2>7. QED
    BY <2>5, <2>6, <1>12 DEF HandleYes, Hangup, Put
<1>13. ASSUME NEW k \in 1..5, HandleNo(k)
       PROVE  Telling'
  <2>1. /\ packets /= <<>> /\ packets' = Tail(packets) /\ toClient' = toClient
        /\ toServer' = toServer /\ Kept
    BY <1>13 DEF HandleNo, Handle, Hangup, Kept, login, server
  <2>2. QED
    BY <1>4, <2>1, TellingNext
<1>14. CASE HandlePing \/ HandleEvent \/ Relay
  <2>1. /\ packets' = packets \/ (packets /= <<>> /\ packets' = Tail(packets))
        /\ toClient' = toClient /\ Kept
    BY <1>14 DEF HandlePing, HandleEvent, Handle, Relay, Kept, login, server
  <2>2. \/ toServer' = toServer
        \/ toServer' = Append(toServer, Pong)
        \/ toServer' = Append(toServer, Chat) /\ LoggedIn
    BY <1>14 DEF HandlePing, HandleEvent, Relay, Obey, Put
  <2>3. After(Pong) /\ (LoggedIn => After(Chat))
    BY <1>3, <2>1, SaysLittle DEF Kept
  <2>4. QED
    BY <1>2, <1>4, <2>1, <2>2, <2>3, TellingNext
<1>15. CASE Send
  <2>1. Kept /\ packets' = packets /\ toClient' = toClient
    BY <1>15 DEF Send, Kept, login, server
  <2>2. queued \in Nat
    BY TypeParts, LimitAssumption DEF IInv, Numbers
  <2>3. FromQueue => LoggedIn
    BY <1>15, <2>2 DEF Send, FromQueue, IInv, Known
  <2> DEFINE t == Append(toServer, Chat)
  <2>4. \/ toServer' = toServer
        \/ toServer' = Append(toServer, Null)
        \/ LoggedIn /\ toServer' = t
        \/ LoggedIn /\ toServer' = Append(t, Null)
    BY <1>15, <2>3 DEF Send
  <2>5. After(Null) /\ (LoggedIn => After(Chat))
    BY <1>3, <2>1, SaysLittle DEF Kept
  <2>6. LoggedIn => \A i \in DOMAIN t : After(t[i])
    BY <1>2, <1>4, <2>1, <2>5
  <2>7. LoggedIn => \A i \in DOMAIN Append(t, Null) : After(Append(t, Null)[i])
    <3>1. t \in Seq(Sent) /\ Null \in Sent
      BY <1>1, <1>2
    <3> HIDE DEF t
    <3>2. \A i \in DOMAIN Append(t, Null) :
            (i \in DOMAIN t /\ Append(t, Null)[i] = t[i]) \/ Append(t, Null)[i] = Null
      BY <3>1, AppendFacts
    <3>3. QED
      BY <3>2, <2>5, <2>6
  <2> HIDE DEF t
  <2>8. \A i \in DOMAIN toServer' : After(toServer'[i])
    BY <1>2, <1>4, <2>1, <2>4, <2>5, <2>6, <2>7
  <2>9. QED
    BY <1>4, <2>1, <2>8, TellingNext
<1>16. CASE ServerReads
  <2>1. /\ toServer /= <<>> /\ toServer' = Tail(toServer) /\ packets' = packets /\ Welcome(Head(toServer))
        /\ LoggedIn' = LoggedIn /\ InChat' = InChat
    BY <1>16 DEF ServerReads, login
  <2> DEFINE k == Head(toServer)[2]
  <2>2. CASE k = 0
    <3>1. toClient' = toClient /\ Kept
      BY <1>16, <2>1, <2>2 DEF ServerReads, Judged, Kept
    <3>2. QED
      BY <2>1, <3>1, <1>4, TellingNext
  <2>3. CASE k /= 0
    <3>1. k \in 1..6 /\ Head(toServer) = Request(k) /\ Head(toServer) \in Requests
      BY <1>1, <2>1, <2>3, Reading, Kinds DEF Streams
    <3>2. /\ NoneOf(Requests, Tail(toServer)) /\ NoneOf(Answers, toClient)
          /\ NoneOf(Answers, packets) /\ Now(Request(k))
      BY <2>1, <3>1, RequestAlone DEF Now
    <3>3. \/ stage' = k /\ k < 6 /\ toClient' = Append(toClient, Yes(k))
          \/ stage' = k /\ k = 6 /\ toClient' = toClient
          \/ stage' = stage /\ k \in Judged /\ toClient' = Append(toClient, No(k))
      BY <1>16, <2>3, <3>1 DEF ServerReads
    <3> HIDE DEF k
    <3>4. stage = k - 1 /\ (k >= 5 => LoggedIn) /\ (k = 6 => InChat)
      BY <3>1, <3>2 DEF Now, Says
    <3>5. CASE stage' = stage
      <4>1. Kept /\ k \in Judged /\ toClient' = Append(toClient, No(k))
        BY <2>1, <3>1, <3>3, <3>4, <3>5 DEF Kept
      <4>2. After(No(k)) /\ No(k) \in Heard
        BY <1>2, <4>1, <3>4, <3>5, SaysOf
      <4>3. QED
        BY <2>1, <4>1, <4>2, <1>4, TellingNext
    <3>6. CASE stage' = k
      <4>1. toClient' = toClient \/ (k \in 1..5 /\ toClient' = Append(toClient, Yes(k)))
        BY <3>1, <3>3, <3>4, <3>6
      <4>2. k \in 1..5 => After(Yes(k)) /\ Yes(k) \in Heard
        BY <1>2, <2>1, <3>4, <3>6, SaysOf
      <4>3. \A p \in Sent : p \notin Requests /\ Now(p) => After(p)
        BY <3>1, <3>4, <3>6, SaysLittle DEF Sent, Now, Says
      <4>4. \A p \in Heard : p \notin Answers /\ Now(p) => After(p)
        BY <3>1, <3>4, SaysLittle DEF Heard, Now, Says
      <4>5. \A i \in DOMAIN toServer' : After(toServer'[i])
        <5>1. /\ Tail(toServer) \in Seq(Sent)
              /\ \A i \in DOMAIN Tail(toServer) : i + 1 \in DOMAIN toServer /\ Tail(toServer)[i] = toServer[i + 1]
          BY <1>1, <2>1, TailFacts
        <5>2. \A i \in DOMAIN Tail(toServer) : Tail(toServer)[i] \in Sent /\ Now(Tail(toServer)[i])
          BY <5>1, <1>1 DEF SaidIn, Now
        <5>3. QED
          BY <5>2, <2>1, <3>2, <4>3 DEF NoneOf
      <4>6. \A i \in DOMAIN packets : After(packets[i])
        BY <1>1, <3>2, <4>4 DEF NoneOf, SaidIn, Now
      <4>7. \A i \in DOMAIN toClient : After(toClient[i])
        BY <1>1, <3>2, <4>4 DEF NoneOf, SaidIn, Now
      <4>8. \A i \in DOMAIN toClient' : After(toClient'[i])
        <5>1. ASSUME NEW e \in Heard, After(e), NEW i \in DOMAIN Append(toClient, e)
              PROVE  After(Append(toClient, e)[i])
          BY <5>1, <1>1, <4>7, AppendFacts
        <5>2. QED
          BY <4>1, <4>2, <4>7, <5>1
      <4>9. QED
        BY <2>1, <3>4, <3>6, <4>5, <4>6, <4>8, TellingNext
    <3>7. QED
      BY <3>3, <3>5, <3>6
  <2>4. QED
    BY <2>2, <2>3
<1>17. ASSUME NEW p \in {Ping, Event}, ServerSays(p)
       PROVE  Telling'
  <2>1. /\ Kept /\ packets' = packets /\ toServer' = toServer /\ toClient' = Append(toClient, p)
        /\ p = Event => stage' = 6
    BY <1>17, Kinds DEF ServerSays, Kept, login, server
  <2>2. After(p)
    BY <2>1, SaysOf, SaysLittle
  <2>3. QED
    BY <1>2, <1>4, <2>1, <2>2, TellingNext
<1>18. CASE ServerFails \/ GiveUp \/ Settle \/ Tick
  BY <1>5, <1>18 DEF ServerFails, GiveUp, Settle, Tick, server
<1>19. CASE UNCHANGED vars
  BY <1>5, <1>19 DEF vars, server
<1>20. QED
  BY <1>7, <1>8, <1>9, <1>10, <1>11, <1>12, <1>13, <1>14, <1>15, <1>16, <1>17, <1>18, <1>19
  DEF Next, Turn, Branch, Process, Environment

\* What the server expects.
LEMMA WelcomeOf ==
  /\ \A k \in 1..6 : Welcome(Request(k)) <=> stage = k - 1
  /\ Welcome(Chat) <=> stage >= 4
  /\ Welcome(Pong) /\ Welcome(Null)
<1>1. ASSUME NEW k \in 1..6
      PROVE  Welcome(Request(k)) <=> stage = k - 1
  BY DEF Welcome, Request
<1>2. Welcome(Chat) <=> stage >= 4
  BY DEF Welcome, Chat
<1>3. Welcome(Pong)
  BY DEF Welcome, Pong
<1>4. Welcome(Null)
  BY DEF Welcome, Null
<1>5. QED
  BY <1>1, <1>2, <1>3, <1>4

LEMMA AgreesStep ==
  ASSUME IInv, [Next]_vars
  PROVE  ServerAgrees'
<1>1. ServerAgrees /\ stage \in 0..6
  BY TypeParts DEF IInv, Numbers
<1>2. ASSUME UNCHANGED <<login, stage>>
      PROVE  ServerAgrees'
  BY <1>1, <1>2 DEF ServerAgrees, login
<1>3. CASE LostByError \/ Lost \/ ConnectTimedOut
  BY <1>3 DEF LostByError, Lost, ConnectTimedOut, Away, ResetSocket, LoggedOff, login,
              ServerAgrees, IInv, Fresh
<1>4. CASE Check \/ InfosLoaded \/ Announce \/ Connect \/ StayAway \/ Connected \/ StillConnecting
  BY <1>2, <1>4 DEF Check, InfosLoaded, Announce, Connect, StayAway, Connected, StillConnecting, server
<1>5. CASE Recv \/ HandlePing \/ HandleEvent \/ Relay \/ Processed \/ Send
  BY <1>2, <1>5 DEF Recv, HandlePing, HandleEvent, Relay, Processed, Send, server
<1>6. ASSUME NEW k \in 1..5, HandleYes(k)
      PROVE  ServerAgrees'
  <2>1. packets /= <<>> /\ Head(packets) = Yes(k) /\ Head(packets) \in Answers /\ stage' = stage
    BY <1>6, Kinds DEF HandleYes, Handle, server
  <2>2. stage = k /\ (k = 5 => LoggedIn)
    BY <2>1, AnswerAlone DEF Says
  <2>3. CASE UNCHANGED login
    BY <1>2, <2>1, <2>3
  <2>4. CASE LoggedIn' = (LoggedIn \/ k = 4) /\ InChat' = (InChat \/ k = 5)
    <3>1. LoggedIn' => LoggedIn \/ k = 4
      BY <2>4, Zenon
    <3>2. InChat' => LoggedIn' /\ (InChat \/ k = 5)
      BY <1>1, <2>2, <2>4, Zenon DEF ServerAgrees
    <3>3. QED
      BY <1>1, <2>1, <2>2, <3>1, <3>2 DEF ServerAgrees
  <2>5. QED
    BY <1>6, <2>3, <2>4 DEF HandleYes, Hangup
<1>7. ASSUME NEW k \in 1..5, HandleNo(k)
      PROVE  ServerAgrees'
  BY <1>2, <1>7 DEF HandleNo, Hangup, server
<1>8. CASE ServerReads
  <2>1. Streams /\ toServer /= <<>> /\ Welcome(Head(toServer)) /\ UNCHANGED login
    BY <1>8, TypeParts DEF ServerReads, IInv
  <2>2. CASE stage' = stage
    BY <1>2, <2>1, <2>2
  <2>3. CASE Head(toServer)[2] /= 0 /\ stage' = Head(toServer)[2]
    <3>1. Head(toServer)[2] \in 1..6 /\ Head(toServer) = Request(Head(toServer)[2])
      BY <2>1, <2>3, Reading
    <3>2. stage = Head(toServer)[2] - 1
      BY <3>1, <2>1, WelcomeOf
    <3>3. QED
      BY <1>1, <2>1, <2>3, <3>1, <3>2 DEF ServerAgrees, login
  <2>4. QED
    BY <1>8, <2>2, <2>3 DEF ServerReads
<1>9. ASSUME NEW p \in {Ping, Event}, ServerSays(p)
      PROVE  ServerAgrees'
  BY <1>2, <1>9 DEF ServerSays, server
<1>10. CASE ServerFails \/ GiveUp \/ Settle \/ Tick
  BY <1>2, <1>10 DEF ServerFails, GiveUp, Settle, Tick, server
<1>11. CASE UNCHANGED vars
  BY <1>2, <1>11 DEF vars, server
<1>12. QED
  BY <1>3, <1>4, <1>5, <1>6, <1>7, <1>8, <1>9, <1>10, <1>11
  DEF Next, Turn, Branch, Process, Environment

---------------------------------------------------------------------------
(* The theorems                                                            *)

LEMMA IInvInit == Init => IInv
<1> SUFFICES ASSUME Init
             PROVE  IInv
  OBVIOUS
<1>1. Streams /\ OneUnderWay /\ Telling
  BY EmptyFacts DEF Init, Streams, OneUnderWay, Telling, SaidIn
<1>2. Flags /\ Steps
  BY DEF Init, Flags, Steps
<1>3. Numbers
  <2>1. Limit \in Nat /\ Delay \in Nat /\ Period \in Nat
    BY TimeAssumption, LimitAssumption
  <2>2. QED
    BY <2>1 DEF Init, Numbers
<1>4. Fresh /\ Known /\ ServerAgrees
  BY DEF Init, Fresh, Known, ServerAgrees
<1>5. QED
  BY <1>1, <1>2, <1>3, <1>4, TypeParts DEF IInv

LEMMA IInvStep == IInv /\ [Next]_vars => IInv'
<1> SUFFICES ASSUME IInv, [Next]_vars
             PROVE  IInv'
  OBVIOUS
<1>1. TypeOK'
  BY TypeStep DEF IInv
<1>2. QED
  BY <1>1, FreshStep, UnderWayStep, TellingStep, KnownStep, AgreesStep DEF IInv

\* The invariant of the link: in every order of failures, packets and turns the login,
\* its packets and the flags of guard move in step, whatever m_Packets and
\* m_OutPackets keep of earlier connections.
THEOREM ConnectionCorrect == Spec => []IInv
<1>1. QED
  BY IInvInit, IInvStep, PTL DEF Spec

\* Guard believes to be logged in, or in the chat, only where its server granted it.
THEOREM ServerAgreesCorrect == Spec => []ServerAgrees
<1>1. IInv => ServerAgrees
  BY DEF IInv
<1>2. QED
  BY <1>1, ConnectionCorrect, PTL

\* The server never gets a request out of order, nor chat before the login.
THEOREM PoliteCorrect == Spec => []Polite
<1>1. IInv => Polite
  <2> SUFFICES ASSUME IInv, toServer /= <<>>
               PROVE  Welcome(Head(toServer))
    BY DEF Polite
  <2>1. Head(toServer) \in Sent /\ 1 \in DOMAIN toServer /\ toServer[1] = Head(toServer)
    BY TypeParts, TailFacts DEF IInv, Streams
  <2>2. Says(Head(toServer), stage, LoggedIn, InChat)
    BY <2>1 DEF IInv, Telling, SaidIn
  <2>3. CASE Head(toServer) \in Requests
    <3>1. PICK k \in 1..6 : Head(toServer) = Request(k)
      BY <2>3 DEF Requests
    <3>2. QED
      BY <2>2, <3>1, WelcomeOf DEF Says
  <2>4. CASE Head(toServer) = Chat
    BY <2>2, <2>4, WelcomeOf DEF Says
  <2>5. CASE Head(toServer) \in {Pong, Null}
    BY <2>5, WelcomeOf
  <2>6. QED
    BY <2>1, <2>3, <2>4, <2>5 DEF Sent
<1>2. QED
  BY <1>1, ConnectionCorrect, PTL

\* No hostbot keeps a state it reported during a login that was lost, by whisper or by UDP,
\* although the branch of an error resets the pool only when it had been checked.
THEOREM DeadWhileAwayCorrect == Spec => []DeadWhileAway
<1>1. IInv => DeadWhileAway
  BY DEF IInv, Known, DeadWhileAway
<1>2. QED
  BY <1>1, ConnectionCorrect, PTL

\* Attempts to connect are Delay seconds apart, also when the first was refused, timed out
\* or broke during the login.
THEOREM AttemptsSpacedCorrect == Spec => AttemptsSpaced
<1>1. IInv /\ [Next]_vars => [~waiting' /\ waiting => first \/ try >= Delay]_vars
  <2> SUFFICES ASSUME IInv, Next, waiting, ~waiting', ~first
               PROVE  try >= Delay
    OBVIOUS
  <2>1. CASE Connect
    BY <2>1, TypeParts, TimeAssumption DEF Connect, IInv, Fresh, Numbers
  <2>2. CASE ~Connect
    <3>1. pc \notin {"process", "send"}
      BY DEF IInv, Fresh
    <3>2. sock = "idle"
      BY DEF IInv, Fresh
    <3>3. QED
      BY <2>2, <3>1, <3>2
      DEF Next, Turn, Branch, Process, Environment, Check, InfosLoaded, Announce, LostByError, Lost,
          StayAway, Connected, StillConnecting, ConnectTimedOut, Away, Recv, HandleYes, HandleNo,
          HandlePing, HandleEvent, Handle, Relay, Processed, Send, ServerReads, ServerSays, ServerFails,
          GiveUp, Settle, Tick, link
  <2>3. QED
    BY <2>1, <2>2
<1>2. QED
  BY <1>1, ConnectionCorrect, PTL DEF Spec, AttemptsSpaced
=============================================================================
