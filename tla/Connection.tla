----------------------------- MODULE Connection -----------------------------
(***************************************************************************)
(* The link of a CBNET to its Battle.net or PvPGN server: connecting,      *)
(* logging in, chatting through a queue that avoids flooding, losing the   *)
(* connection and coming back (guard/bnet.cpp, socket.cpp).                *)
(*                                                                         *)
(* A turn of CBNET::Update is a check of the hostbots, results of the      *)
(* database, and then exactly one branch by the state of the socket; the   *)
(* branch of a connected socket receives, processes packet by packet and   *)
(* sends.  A turn takes milliseconds and meets the outside only where it   *)
(* receives and sends: time and the server go on between two turns, and a  *)
(* connection may break within one.  Commands that come by UDP are obeyed  *)
(* between two turns as well, whatever the socket and the login are.       *)
(***************************************************************************)
EXTENDS Integers, SequencesExt

CONSTANTS
  Delay,       \* 30: seconds from a disconnection to the next attempt
  Timeout,     \* 15: seconds an attempt may take
  Period,      \* 60: seconds of silence before a NULL packet
  Waits,       \* {1, 3.5, 4}: seconds to wait after a small, medium or big message
  Limit,       \* 10: a queue of more messages takes no other
  StreamBound  \* bound of the model on what others add to the streams and the queue

ASSUME TimeAssumption ==
  /\ {Delay, Timeout, Period} \subseteq Nat \ {0} /\ Timeout <= Delay
  /\ Waits \subseteq 0..Period /\ Waits /= {}
ASSUME LimitAssumption == {Limit, StreamBound} \subseteq Nat

VARIABLES
  sock,      \* m_Socket: "idle", "connecting", "connected" or "error"
  waiting,   \* m_WaitingToConnect
  first,     \* m_FirstConnect
  LoggedIn,  \* m_LoggedIn
  InChat,    \* m_InChat
  checked,   \* m_HostbotsChecked
  infos,     \* m_Infos is not empty
  reported,  \* the state guard has of a hostbot: "dead", or reported with guard
             \* "online" or "away"
  packets,   \* m_Packets
  queued,    \* the length of m_OutPackets
  wait,      \* what m_LastOutPacketSize makes of WaitTicks
  pc,        \* the step of Update that comes next
  disc,      \* seconds since m_LastDisconnectedTime, up to Delay
  try,       \* seconds since m_LastConnectionAttemptTime, up to Delay
  out,       \* seconds since m_LastOutPacketTicks, up to Period
  null,      \* seconds since m_LastNullTime, up to Period
  toServer,  \* what was put into the socket and the server has not read
  toClient,  \* what the server sent and guard has not received
  stage,     \* how many requests of the login the server has granted
  peer,      \* the server's end: "open", "refused", "closed", "gone" or "reset"
  stable     \* from now on the network and the server do not fail

link   == <<sock, waiting, first>>
login  == <<LoggedIn, InChat>>
bots   == <<checked, infos, reported>>
queue  == <<queued, wait>>
clocks == <<disc, try, out, null>>
stream == <<toServer, toClient>>
server == <<stage, peer, stable>>
vars   == <<link, login, bots, packets, queue, pc, clocks, stream, server>>

\* The login: SID_AUTH_INFO, AUTH_CHECK, AUTH_ACCOUNTLOGON, ..LOGONPROOF, ENTERCHAT
\* and JOINCHANNEL.  Each but the last is answered, the three in Judged by yes or no.
Request(k) == <<"request", k>>
Yes(k)     == <<"yes", k>>
No(k)      == <<"no", k>>
Judged     == 2..4
Ping  == <<"ping", 0>>
Pong  == <<"pong", 0>>
Null  == <<"null", 0>>
Chat  == <<"chat", 0>>
Event == <<"event", 0>>

Room == queued + Len(packets) + Len(toClient) + Len(toServer) < StreamBound

Put(p) == toServer' = Append(toServer, p)

---------------------------------------------------------------------------
(* The head of Update                                                      *)

\* Once after a login every hostbot is asked for its state.
Check ==
  /\ pc = "head"
  /\ pc' = "branch"
  /\ IF ~checked /\ LoggedIn /\ infos
     THEN checked' = TRUE /\ Put(Chat)
     ELSE UNCHANGED <<checked, toServer>>
  /\ UNCHANGED <<link, login, infos, reported, packets, queue, clocks, toClient, server>>

\* A list of infos arrives, or the list is found empty.
InfosLoaded ==
  /\ pc = "branch"
  /\ infos' = ~infos
  /\ UNCHANGED <<link, login, checked, reported, packets, queue, pc, clocks, stream, server>>

\* QueueChatCommand, which does nothing before the login.
MutFull == queued > Limit + 1
Full == queued > Limit

QueueChat == queued' = IF LoggedIn /\ ~Full THEN queued + 1 ELSE queued

\* A timer of Update announces something.
Announce ==
  /\ pc = "branch"
  /\ Room
  /\ QueueChat
  /\ UNCHANGED <<link, login, bots, packets, wait, pc, clocks, stream, server>>

\* ProcessChatEvent: nothing comes of a command, it is answered through the queue or
\* past it, or a hostbot, known by its level, reports its state.
Obey ==
  \/ UNCHANGED <<queued, toServer, reported>>
  \/ QueueChat /\ UNCHANGED <<toServer, reported>>
  \/ LoggedIn /\ Put(Chat) /\ UNCHANGED <<queued, reported>>
  \/ /\ infos
     /\ reported' = IF LoggedIn THEN "online" ELSE "away"
     /\ UNCHANGED <<queued, toServer>>

\* CGHost::Update, after every CBNET::Update: a line that came by UDP is made a whisper
\* of the name it begins with, past m_Packets and in any state of the socket.
Relay ==
  /\ pc = "head"
  /\ Room
  /\ Obey
  /\ UNCHANGED <<link, login, checked, infos, packets, wait, pc, clocks, toClient, server>>

---------------------------------------------------------------------------
(* Losing the connection                                                   *)

\* CTCPClient::Reset makes a new socket; the server's old end is of no interest.
ResetSocket ==
  /\ sock' = "idle"
  /\ toServer' = <<>> /\ toClient' = <<>>
  /\ stage' = 0 /\ peer' = "open"

MutLoggedOff == LoggedIn
LoggedOff == FALSE

\* What both branches of a disconnection do besides the hostbots.
Away ==
  /\ ResetSocket
  /\ disc' = 0
  /\ LoggedIn' = LoggedOff /\ InChat' = FALSE
  /\ waiting' = TRUE
  /\ pc' = "head"
  /\ UNCHANGED <<first, infos, packets, queue, try, out, null, stable>>

\* After an error the hostbots are reset only if they were checked.
MutSpared == reported
Spared == IF checked THEN "dead" ELSE reported

LostByError ==
  /\ pc = "branch" /\ sock = "error"
  /\ Away
  /\ checked' = FALSE
  /\ reported' = Spared

Lost ==
  /\ pc = "branch" /\ sock = "idle" /\ ~waiting
  /\ Away
  /\ checked' = FALSE /\ reported' = "dead"

---------------------------------------------------------------------------
(* Connecting                                                              *)

\* A name that does not resolve or an address that cannot be bound is an error.
Connect ==
  /\ pc = "branch" /\ sock = "idle" /\ waiting
  /\ first \/ disc >= Delay
  /\ first' = FALSE /\ waiting' = FALSE
  /\ try' = 0
  /\ sock' \in IF stable THEN {"connecting"} ELSE {"connecting", "error"}
  /\ pc' = "head"
  /\ UNCHANGED <<login, bots, packets, queue, disc, out, null, stream, server>>

StayAway ==
  /\ pc = "branch" /\ sock = "idle" /\ waiting
  /\ ~first /\ disc < Delay
  /\ pc' = "head"
  /\ UNCHANGED <<link, login, bots, packets, queue, clocks, stream, server>>

MutEmptied == queued
Emptied == 0

\* CheckConnect: a refused attempt makes the socket writable as well.
Connected ==
  /\ pc = "branch" /\ sock = "connecting"
  /\ sock' = "connected"
  /\ Put(Request(1))
  /\ null' = 0 /\ out' = 0
  /\ queued' = Emptied
  /\ peer' \in IF stable THEN {"open"} ELSE {"open", "reset"}
  /\ pc' = "head"
  /\ UNCHANGED <<waiting, first, login, bots, packets, wait, disc, try, toClient, stage, stable>>

MutTimedOutAt == disc
TimedOutAt == 0

\* Neither connected nor out of time, out of time, or select fails.
StillConnecting ==
  /\ pc = "branch" /\ sock = "connecting" /\ ~stable
  /\ try < Timeout
  /\ sock' \in {"connecting", "error"}
  /\ pc' = "head"
  /\ UNCHANGED <<waiting, first, login, bots, packets, queue, clocks, stream, server>>

ConnectTimedOut ==
  /\ pc = "branch" /\ sock = "connecting" /\ ~stable
  /\ try >= Timeout
  /\ ResetSocket
  /\ disc' = TimedOutAt
  /\ waiting' = TRUE
  /\ pc' = "head"
  /\ UNCHANGED <<first, login, bots, packets, queue, try, out, null, stable>>

---------------------------------------------------------------------------
(* Connected: receive and process                                          *)

\* DoRecv and ExtractPackets: any part of what has come, or the end of it.
Recv ==
  /\ pc = "branch" /\ sock = "connected"
  /\ pc' = "process"
  /\ \/ /\ peer = "reset" /\ sock' = "error"
        /\ UNCHANGED <<packets, toClient>>
     \/ /\ peer = "closed" /\ toClient = <<>> /\ sock' = "idle"
        /\ UNCHANGED <<packets, toClient>>
     \/ /\ peer \notin {"reset", "closed"} /\ toClient = <<>>
        /\ UNCHANGED <<sock, packets, toClient>>
     \/ /\ peer /= "reset"
        /\ \E n \in 1..Len(toClient) :
             /\ packets' = packets \o SubSeq(toClient, 1, n)
             /\ toClient' = SubSeq(toClient, n + 1, Len(toClient))
        /\ UNCHANGED sock
  /\ UNCHANGED <<waiting, first, login, bots, queue, clocks, toServer, server>>

\* Handlers of the next packet; every one of them takes it from m_Packets.
Handle(p) ==
  /\ pc = "process" /\ packets /= <<>> /\ Head(packets) = p
  /\ packets' = Tail(packets)

\* Disconnect and return: the packets behind this one stay in m_Packets.
Hangup ==
  /\ sock' = IF sock = "connected" THEN "idle" ELSE sock
  /\ pc' = "send"
  /\ UNCHANGED <<login, toServer>>

\* The answer to request k: the next request goes out.  The keys of the game are
\* hashed on the first answer, which fails with a wrong path or key.
HandleYes(k) ==
  /\ Handle(Yes(k))
  /\ \/ /\ LoggedIn' = (LoggedIn \/ k = 4)
        /\ InChat' = (InChat \/ k = 5)
        /\ Put(Request(k + 1))
        /\ UNCHANGED <<sock, pc>>
     \/ k = 1 /\ ~stable /\ Hangup
  /\ UNCHANGED <<waiting, first, bots, queue, clocks, toClient, server>>

HandleNo(k) ==
  /\ Handle(No(k))
  /\ Hangup
  /\ UNCHANGED <<waiting, first, bots, queue, clocks, toClient, server>>

HandlePing ==
  /\ Handle(Ping)
  /\ Put(Pong)
  /\ UNCHANGED <<link, login, bots, queue, pc, clocks, toClient, server>>

HandleEvent ==
  /\ Handle(Event)
  /\ Obey
  /\ UNCHANGED <<link, login, checked, infos, wait, pc, clocks, toClient, server>>

Processed ==
  /\ pc = "process" /\ packets = <<>>
  /\ pc' = "send"
  /\ UNCHANGED <<link, login, bots, packets, queue, clocks, stream, server>>

---------------------------------------------------------------------------
(* Connected: send                                                         *)

\* One message of the queue if the last was long enough ago, a NULL packet after
\* a minute without either, and DoSend.  NULL packets the server has not read are
\* kept as one.
FromQueue == queued > 0 /\ out >= wait

MutKeepAlive(age) == null >= Period /\ age >= Period /\ queued > 0
KeepAlive(age) == null >= Period /\ age >= Period

Send ==
  /\ pc = "send"
  /\ pc' = "head"
  /\ IF FromQueue
     THEN queued' = queued - 1 /\ out' = 0 /\ wait' \in Waits
     ELSE UNCHANGED <<queued, out, wait>>
  /\ LET chat == IF FromQueue THEN Append(toServer, Chat) ELSE toServer
     IN  IF KeepAlive(out')
         THEN /\ null' = 0
              /\ toServer' = IF Contains(chat, Null) THEN chat ELSE Append(chat, Null)
         ELSE toServer' = chat /\ UNCHANGED null
  /\ sock' = IF sock = "connected" /\ peer = "reset" THEN "error" ELSE sock
  /\ UNCHANGED <<waiting, first, login, bots, packets, disc, try, toClient, server>>

---------------------------------------------------------------------------
(* The server, the network and time                                        *)

\* What the server does not expect it does not answer.
Welcome(p) ==
  CASE p[1] = "request" -> stage = p[2] - 1
    [] p[1] = "chat" -> stage >= 4
    [] p[1] \in {"pong", "null"} -> TRUE

ServerReads ==
  /\ pc = "head" /\ sock = "connected" /\ peer = "open"
  /\ toServer /= <<>> /\ Welcome(Head(toServer))
  /\ toServer' = Tail(toServer)
  /\ LET k == Head(toServer)[2]
     IN  \/ /\ k = 0 /\ UNCHANGED <<toClient, stage, peer>>
         \/ /\ k /= 0
            /\ stage' = k
            /\ toClient' = IF k < 6 THEN Append(toClient, Yes(k)) ELSE toClient
            /\ UNCHANGED peer
         \/ /\ k \in Judged /\ ~stable
            /\ toClient' = Append(toClient, No(k))
            /\ peer' = "refused"
            /\ UNCHANGED stage
  /\ UNCHANGED <<link, login, bots, packets, queue, pc, clocks, stable>>

ServerSays(p) ==
  /\ pc = "head" /\ sock = "connected" /\ peer \in {"open", "refused"} /\ Room
  /\ (p = Ping /\ stage >= 1) \/ (p = Event /\ stage = 6)
  /\ toClient' = Append(toClient, p)
  /\ UNCHANGED <<link, login, bots, packets, queue, pc, clocks, toServer, server>>

\* Closed, or cut without a word; a cut is noticed only by who has something to send.
ServerFails ==
  /\ pc \in {"head", "send"}
  /\ sock = "connected" /\ ~stable /\ peer \in {"open", "refused"}
  /\ peer' \in {"closed", "gone", "reset"}
  /\ UNCHANGED <<link, login, bots, packets, queue, pc, clocks, stream, stage, stable>>

GiveUp ==
  /\ pc \in {"head", "send"}
  /\ sock = "connected" /\ peer = "gone" /\ toServer /= <<>>
  /\ peer' = "reset"
  /\ UNCHANGED <<link, login, bots, packets, queue, pc, clocks, stream, stage, stable>>

Settle ==
  /\ pc = "head"
  /\ ~stable /\ stable' = TRUE
  /\ UNCHANGED <<link, login, bots, packets, queue, pc, clocks, stream, stage, peer>>

Older(t, cap) == IF t < cap THEN t + 1 ELSE t

Tick ==
  /\ pc = "head"
  /\ disc' = Older(disc, Delay) /\ try' = Older(try, Delay)
  /\ out' = Older(out, Period) /\ null' = Older(null, Period)
  /\ UNCHANGED <<link, login, bots, packets, queue, pc, stream, server>>

---------------------------------------------------------------------------
\* The clocks start at the epoch.
Init ==
  /\ sock = "idle" /\ waiting = TRUE /\ first = TRUE
  /\ LoggedIn = FALSE /\ InChat = FALSE
  /\ checked = FALSE /\ infos = FALSE /\ reported = "dead"
  /\ packets = <<>> /\ queued = 0 /\ wait \in Waits
  /\ pc = "head"
  /\ disc = Delay /\ try = Delay /\ out = Period /\ null = Period
  /\ toServer = <<>> /\ toClient = <<>>
  /\ stage = 0 /\ peer = "open" /\ stable = FALSE

Branch ==
  \/ LostByError \/ Lost \/ Connect \/ StayAway
  \/ Connected \/ StillConnecting \/ ConnectTimedOut
  \/ Recv

Process ==
  \/ \E k \in 1..5 : HandleYes(k) \/ HandleNo(k)
  \/ HandlePing \/ HandleEvent \/ Processed

Turn == Check \/ Branch \/ Process \/ Send

Environment ==
  \/ ServerReads \/ ServerSays(Ping) \/ ServerSays(Event)
  \/ ServerFails \/ GiveUp \/ Settle
  \/ Tick

Next == Turn \/ InfosLoaded \/ Announce \/ Relay \/ Environment

Spec == Init /\ [][Next]_vars

\* The loop of main never stops turning, time passes, a server that is there
\* reads what it is sent, and TCP gives up on one that is not.
Fairness == WF_vars(Turn) /\ SF_vars(Tick) /\ SF_vars(ServerReads) /\ SF_vars(GiveUp)

FairSpec == Spec /\ Fairness

---------------------------------------------------------------------------
(* Properties                                                              *)

Requests == {Request(k) : k \in 1..6}
Answers  == {Yes(k) : k \in 1..5} \cup {No(k) : k \in Judged}

\* Flags, clocks, streams and steps have the values of the code, and the queue
\* never holds more than one message above its limit.
TypeOK ==
  /\ sock \in {"idle", "connecting", "connected", "error"}
  /\ {waiting, first, LoggedIn, InChat, checked, infos, stable} \subseteq BOOLEAN
  /\ reported \in {"dead", "online", "away"}
  /\ toServer \in Seq(Requests \cup {Chat, Pong, Null})
  /\ packets \in Seq(Answers \cup {Ping, Event}) /\ toClient \in Seq(Answers \cup {Ping, Event})
  /\ queued \in 0..(Limit + 1) /\ wait \in Waits
  /\ pc \in {"head", "branch", "process", "send"}
  /\ disc \in 0..Delay /\ try \in 0..Delay /\ out \in 0..Period /\ null \in 0..Period
  /\ stage \in 0..6 /\ peer \in {"open", "refused", "closed", "gone", "reset"}

\* A new connection begins with nothing said, granted or believed, and is tried for no
\* sooner than the delay after the attempt before.
Fresh ==
  /\ waiting => sock = "idle"
  /\ pc \in {"process", "send"} => ~waiting /\ sock /= "connecting"
  /\ waiting \/ sock = "connecting" =>
       stage = 0 /\ toServer = <<>> /\ toClient = <<>> /\ ~LoggedIn /\ ~InChat
  /\ waiting /\ ~first => disc <= try

NoneOf(S, s) == \A i \in DOMAIN s : s[i] \notin S
OneOf(S, s)  == \A i, j \in DOMAIN s : s[i] \in S /\ s[j] \in S => i = j

\* At most one request or answer is under way, and what was left in m_Packets are pings.
OneUnderWay ==
  /\ OneOf(Requests, toServer) /\ OneOf(Answers, packets) /\ OneOf(Answers, toClient)
  /\ NoneOf(Requests, toServer) \/ (NoneOf(Answers, packets) /\ NoneOf(Answers, toClient))
  /\ NoneOf(Answers, packets) \/ NoneOf(Answers, toClient)
  /\ pc /= "process" => \A i \in DOMAIN packets : packets[i] = Ping

\* What is under way says how far the login is: n requests are granted, and guard
\* believes to be logged in, or in the chat.
Says(p, n, in, chatting) ==
  /\ \A k \in 1..6 : p = Request(k) => n = k - 1 /\ (k >= 5 => in) /\ (k = 6 => chatting)
  /\ \A k \in 1..5 : p = Yes(k) => n = k /\ (k >= 5 => in)
  /\ \A k \in Judged : p = No(k) => n = k - 1
  /\ p = Chat => n >= 4
  /\ p = Event => n = 6

SaidIn(s) == \A i \in DOMAIN s : Says(s[i], stage, LoggedIn, InChat)
Telling == SaidIn(toServer) /\ SaidIn(packets) /\ SaidIn(toClient) /\ (stage = 6 => InChat)

\* Messages queue only after the login, and a hostbot that reported during it is checked
\* before the branch of an error comes.
Known ==
  /\ queued > 0 /\ (sock = "connected" \/ pc \in {"process", "send"}) => LoggedIn
  /\ reported = "online" => LoggedIn /\ (checked \/ (pc /= "branch" /\ infos))

\* Guard believes to be logged in, or in the chat, only where the server of the
\* present connection has granted it, whatever packets, sockets and flags are
\* left over from earlier connections.
ServerAgrees == (LoggedIn => stage >= 4) /\ (InChat => LoggedIn /\ stage >= 5)

\* The server gets the requests of the login in their order and no chat before
\* it, although messages queue while the connection comes and goes, and the
\* queue is emptied without a look at m_LoggedIn.
Polite == sock = "connected" /\ toServer /= <<>> => Welcome(Head(toServer))

\* The state a hostbot reported during a login, by whisper or by UDP, is not trusted past
\* that login, although the branch of an error spares a pool that was not checked.  What
\* comes by UDP while guard is away is believed, by that branch into the next login.
DeadWhileAway == ~LoggedIn => reported /= "online"

\* Why the three hold: the login, its packets and its flags move in step.
IInv == TypeOK /\ Fresh /\ OneUnderWay /\ Telling /\ Known /\ ServerAgrees

\* Two attempts to connect are Delay seconds apart, however the first of them
\* ended, or the server bans the address for a while.
AttemptsSpaced == [][~waiting' /\ waiting => first \/ try >= Delay]_vars

\* In the chat, and not only in its own belief.
Online == InChat /\ sock = "connected" /\ peer = "open" /\ stage = 6

\* As soon as network and server stop failing guard comes back to the channel and
\* stays there, also if the last failure was a cut that only NULL packets find.
ComesBack == <>stable => <>[]Online
=============================================================================
