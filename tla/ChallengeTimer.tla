-------------------------- MODULE ChallengeTimer --------------------------
(***************************************************************************)
(* The timer of a challenge that waits for its draft (CBNET::Update, ex,   *)
(* challenge, startpick and ResetChallenge in guard/bnet.cpp).  What the   *)
(* commands do to the rest of the challenge is in Challenge.tla.           *)
(***************************************************************************)
EXTENDS Integers

CONSTANTS
  First,   \* 300 seconds: the first half
  Warn,    \* 540 seconds: from here on ex is allowed
  Over,    \* 600 seconds: the time is up
  Extend,  \* 300 seconds
  MaxLag   \* seconds Update may be held up, by DelayMs for instance

ASSUME TimeAssumption ==
  /\ {First, Warn, Over, Extend, MaxLag} \subseteq Nat
  /\ 0 < First /\ First < Warn /\ Warn + MaxLag < Over /\ 0 < Extend /\ Extend <= Over - MaxLag

VARIABLES
  Challenge,  \* m_Challenge
  Timers,     \* m_ChallengeTimers
  Spam,       \* m_ChallengeTimersRemainSpam
  Extended,   \* m_ChallengeTimerExtended
  elapsed,    \* GetTime() - m_ChallengeTime
  lag         \* seconds since the last Update

vars == <<Challenge, Timers, Spam, Extended, elapsed, lag>>

\* The constructor leaves m_ChallengeTimerExtended uninitialized.
Init ==
  /\ Challenge = FALSE /\ Timers = FALSE /\ Spam = 0 /\ Extended \in BOOLEAN
  /\ elapsed = Over + 1 /\ lag = 0

\* challenge notes the time even if it then finds nobody to challenge; if it
\* starts a challenge it resets what the previous one left, and the timer runs.
MutStopped == Extended
Stopped == FALSE

StartChallenge ==
  /\ ~Challenge
  /\ elapsed' = 0
  /\ \/ /\ Challenge' = TRUE /\ Timers' = TRUE
        /\ Spam' = 0 /\ Extended' = Stopped
     \/ UNCHANGED <<Challenge, Timers, Spam, Extended>>
  /\ UNCHANGED lag

StartPick ==
  /\ Timers
  /\ Timers' = FALSE
  /\ UNCHANGED <<Challenge, Spam, Extended, elapsed, lag>>

\* refuse, abort, a captain leaving, the ok of a hosted game: ResetChallenge
EndChallenge ==
  /\ Challenge
  /\ Challenge' = FALSE /\ Timers' = FALSE
  /\ Spam' = 0 /\ Extended' = Stopped
  /\ UNCHANGED <<elapsed, lag>>

\* ex, by a captain or an access level above 2
Ex ==
  /\ Extended
  /\ Extended' = FALSE
  /\ Spam' = 0
  /\ elapsed' = elapsed - Extend
  /\ UNCHANGED <<Challenge, Timers, lag>>

\* The timer in Update, first match first.
MutRestarted == Spam
Restarted == 0
TimeUp == elapsed > Over
LastMinute == elapsed > Warn /\ Spam = 1
Half == elapsed > First /\ Spam = 0

\* Nothing is aborted when the time is up: the second half starts again.
Update ==
  /\ lag' = 0
  /\ \/ /\ Challenge /\ Timers /\ TimeUp
        /\ Extended' = FALSE /\ Spam' = Restarted /\ elapsed' = elapsed - Extend
     \/ /\ Challenge /\ Timers /\ ~TimeUp /\ LastMinute
        /\ Extended' = TRUE /\ Spam' = Spam + 1 /\ UNCHANGED elapsed
     \/ /\ Challenge /\ Timers /\ ~TimeUp /\ ~LastMinute /\ Half
        /\ Spam' = Spam + 1 /\ UNCHANGED <<Extended, elapsed>>
     \/ /\ ~(Challenge /\ Timers /\ (TimeUp \/ LastMinute \/ Half))
        /\ UNCHANGED <<Extended, Spam, elapsed>>
  /\ UNCHANGED <<Challenge, Timers>>

\* A second passes.  The time of a timer that does not run is not followed past
\* the end.
Tick ==
  /\ lag < MaxLag
  /\ lag' = lag + 1
  /\ elapsed' = IF Timers \/ elapsed <= Over THEN elapsed + 1 ELSE elapsed
  /\ UNCHANGED <<Challenge, Timers, Spam, Extended>>

Users == StartChallenge \/ StartPick \/ EndChallenge \/ Ex
Next == Users \/ Update \/ Tick

Spec == Init /\ [][Next]_vars

\* The main loop and the clock go on; users need not do anything.
FairSpec == Spec /\ WF_vars(Update) /\ WF_vars(Tick)

---------------------------------------------------------------------------
(* Properties                                                              *)

\* Flags, the phase of the timer and the delay of the main loop keep their ranges:
\* the phase never passes the second warning.
TypeOK ==
  /\ Challenge \in BOOLEAN /\ Timers \in BOOLEAN /\ Extended \in BOOLEAN
  /\ Spam \in 0..2
  /\ elapsed \in Int /\ lag \in 0..MaxLag

\* During a challenge ex is allowed only when its last minute has begun, and
\* never because of an earlier challenge, or of what the uninitialized flag
\* happened to be.
ExOnlyLate == Challenge /\ Extended => elapsed > Warn

\* While a timer runs the last minute comes, and ex is allowed, again and again
\* until the draft starts or the challenge ends.
WindowComes == []<>(Extended \/ ~Timers)
===========================================================================
