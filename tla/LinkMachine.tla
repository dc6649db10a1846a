---------------------------- MODULE LinkMachine ----------------------------
(***************************************************************************)
(* The WiFi link to one logger: transport/src/link/machine.rs.             *)
(*                                                                         *)
(* LinkMachine is pure.  It is fed inputs one at a time and answers with   *)
(* the actions its driver must perform.  Here one TLA+ action is one call  *)
(* of `handle`, together with the effect of the actions it returns on the  *)
(* driver: the timer that is armed, the network request that is held, the  *)
(* pings in flight.  The driver and the platform's network binder are not  *)
(* part of the repository; they are modelled from the contract documented  *)
(* on Action and Input, and are as late as a real driver is: a timer that  *)
(* fired before it was disarmed is still delivered, a ping may be answered *)
(* after its network is gone, the binder may report anything at any time.  *)
(***************************************************************************)
EXTENDS Naturals

CONSTANTS
    VerifyAttempts,   \* LinkConfig::verify_attempts
    HeartbeatMisses,  \* LinkConfig::heartbeat_misses
    BackoffLen,       \* LinkConfig::backoff.len()
    MaxRequests,      \* LinkConfig::max_requests; 0 stands for None
    MaxPings          \* bound: pings in flight

ASSUME ConfigAssumption ==
    /\ VerifyAttempts \in Nat \ {0}
    /\ HeartbeatMisses \in Nat \ {0}
    /\ BackoffLen \in Nat
    /\ MaxRequests \in Nat
    /\ MaxPings \in Nat \ {0}

VARIABLES
    st, attempt, pings, misses,  \* LinkState and the counters it carries
    wanted, handedOff,           \* the two booleans kept beside it
    timer,                       \* driver: the one timer that is armed
    fired,                       \* driver: firings not delivered yet
    requested,                   \* driver: a network request is held
    pingsOut,                    \* driver: pings not answered yet
    handoffs                     \* history: /handoff calls since WiFi mode was entered

machineVars == <<st, attempt, pings, misses, wanted, handedOff>>
vars == <<machineVars, timer, fired, requested, pingsOut, handoffs>>

Timers == {"RequestTimeout", "PingRetry", "Heartbeat", "Backoff"}
States == {"unlinked", "requesting", "verifying", "linked", "backoff", "failed"}

Init ==
    /\ st = "unlinked" /\ attempt = 0 /\ pings = 0 /\ misses = 0
    /\ wanted = FALSE /\ handedOff = FALSE
    /\ timer = "none" /\ fired = {}
    /\ requested = FALSE /\ pingsOut = 0
    /\ handoffs = 0

---------------------------------------------------------------------------
(* The transitions the arms of the table share, each with the driver's     *)
(* part of the actions it returns.                                         *)

\* request(a): Action::Request and its timer.
EnterRequesting(a) ==
    /\ st' = "requesting" /\ attempt' = a /\ pings' = 0 /\ misses' = 0
    /\ timer' = "RequestTimeout"
    /\ requested' = TRUE

\* Action::Release on the way into a state that is not trying to link.
Release(s, a, t) ==
    /\ st' = s /\ attempt' = a /\ pings' = 0 /\ misses' = 0
    /\ timer' = t
    /\ requested' = FALSE

\* Mutant of MayRetry: the request cap counts from 0.
MayRetryPastCap(a) ==
    /\ a < BackoffLen
    /\ MaxRequests > 0 => a < MaxRequests

MayRetry(a) ==
    /\ a < BackoffLen
    /\ MaxRequests > 0 => a + 1 < MaxRequests

\* verify_attempts and heartbeat_misses count the ping that just failed.
LastTry(n, limit) == n + 1 >= limit

FailAttempt ==
    \/ MayRetry(attempt) /\ Release("backoff", attempt, "Backoff")
    \/ ~ MayRetry(attempt) /\ Release("failed", 0, "none")

\* Mutant of Leave: the network request is kept.
LeaveHoldingRequest ==
    /\ st' = "unlinked" /\ attempt' = 0 /\ pings' = 0 /\ misses' = 0
    /\ timer' = "none"
    /\ UNCHANGED requested

Leave == Release("unlinked", 0, "none")

---------------------------------------------------------------------------
(* The device's mode, the user, the other operations over the link.        *)

WifiModeEntered ==
    /\ st \in {"unlinked", "failed"}
    /\ wanted' = TRUE /\ handedOff' = FALSE /\ handoffs' = 0
    /\ EnterRequesting(0)
    /\ UNCHANGED <<fired, pingsOut>>

\* Mutant of StillWanted: leaving WiFi mode keeps the desired state.
StillWantedAfterLeaving == wanted

StillWanted == FALSE

WifiModeLeft ==
    /\ st # "unlinked"
    /\ wanted' = StillWanted
    /\ Leave
    /\ UNCHANGED <<handedOff, fired, pingsOut, handoffs>>

UserRetry ==
    /\ st \in {"unlinked", "failed"} /\ wanted
    /\ EnterRequesting(0)
    /\ UNCHANGED <<wanted, handedOff, fired, pingsOut, handoffs>>

OpSucceeded ==
    /\ st = "linked"
    /\ misses' = 0
    /\ timer' = "Heartbeat"
    /\ UNCHANGED <<st, attempt, pings, wanted, handedOff, fired, requested,
                   pingsOut, handoffs>>

---------------------------------------------------------------------------
(* The network binder.                                                     *)

Available ==
    /\ st = "requesting" /\ pingsOut < MaxPings
    /\ st' = "verifying" /\ pings' = 0
    /\ timer' = "none"
    /\ pingsOut' = pingsOut + 1
    /\ UNCHANGED <<attempt, misses, wanted, handedOff, fired, requested,
                   handoffs>>

\* Input::Lost and Input::Unavailable take the same arm in every state.
NetworkGone ==
    /\ \/ st \in {"requesting", "verifying"} /\ FailAttempt
       \/ st = "linked" /\ EnterRequesting(0)
    /\ UNCHANGED <<wanted, handedOff, fired, pingsOut, handoffs>>

---------------------------------------------------------------------------
(* Timers: the driver's clock, then the delivery of what fired.            *)

Expire ==
    /\ timer # "none" /\ timer \notin fired
    /\ fired' = fired \cup {timer}
    /\ timer' = "none"
    /\ UNCHANGED <<machineVars, requested, pingsOut, handoffs>>

RequestTimedOut ==
    /\ st = "requesting"
    /\ FailAttempt
    /\ UNCHANGED <<wanted, handedOff, pingsOut, handoffs>>

\* Mutant of NextAttempt: every backoff is followed by a first attempt.
NextAttemptIsFirst == 0

NextAttempt == attempt + 1

BackoffOver ==
    /\ st = "backoff"
    /\ EnterRequesting(NextAttempt)
    /\ UNCHANGED <<wanted, handedOff, pingsOut, handoffs>>

Ping ==
    /\ pingsOut < MaxPings
    /\ pingsOut' = pingsOut + 1
    /\ UNCHANGED <<machineVars, timer, requested, handoffs>>

TimerMatters(t) ==
    \/ t = "RequestTimeout" /\ st = "requesting"
    \/ t = "Backoff" /\ st = "backoff"
    \/ t = "PingRetry" /\ st = "verifying"
    \/ t = "Heartbeat" /\ st = "linked"

IgnoreTimer ==
    UNCHANGED <<machineVars, timer, requested, pingsOut, handoffs>>

DeliverTimer(t) ==
    /\ t \in fired
    /\ fired' = fired \ {t}
    /\ \/ t = "RequestTimeout" /\ RequestTimedOut
       \/ t = "Backoff" /\ BackoffOver
       \/ t \in {"PingRetry", "Heartbeat"} /\ TimerMatters(t) /\ Ping
       \/ ~ TimerMatters(t) /\ IgnoreTimer

---------------------------------------------------------------------------
(* Ping answers.                                                           *)

\* Mutant of HandoffDue: every verification hands off.
HandoffAlwaysDue == st = "verifying"

HandoffDue == st = "verifying" /\ ~ handedOff

\* check_ping accepts the answer.
PingOk ==
    /\ st \in {"verifying", "linked"}
    /\ st' = "linked" /\ attempt' = 0 /\ pings' = 0 /\ misses' = 0
    /\ timer' = "Heartbeat"
    /\ handedOff' = (handedOff \/ st = "verifying")
    /\ handoffs' = IF HandoffDue THEN handoffs + 1 ELSE handoffs
    /\ UNCHANGED <<wanted, requested>>

\* check_ping finds another logger, or a protocol this app does not speak.
PingRefused ==
    /\ st \in {"verifying", "linked"}
    /\ Release("failed", 0, "none")
    /\ UNCHANGED <<wanted, handedOff, handoffs>>

\* Mutant of RetryTimer: a missed heartbeat does not arm the next one.
RetryTimerForgotten == IF st = "verifying" THEN "PingRetry" ELSE timer

RetryTimer == IF st = "verifying" THEN "PingRetry" ELSE "Heartbeat"

PingFailed ==
    /\ \/ /\ st = "verifying" /\ ~ LastTry(pings, VerifyAttempts)
          /\ pings' = pings + 1 /\ timer' = RetryTimer
          /\ UNCHANGED <<st, attempt, misses, requested>>
       \/ /\ st = "verifying" /\ LastTry(pings, VerifyAttempts)
          /\ FailAttempt
       \/ /\ st = "linked" /\ ~ LastTry(misses, HeartbeatMisses)
          /\ misses' = misses + 1 /\ timer' = RetryTimer
          /\ UNCHANGED <<st, attempt, pings, requested>>
       \/ /\ st = "linked" /\ LastTry(misses, HeartbeatMisses)
          /\ EnterRequesting(0)
    /\ UNCHANGED <<wanted, handedOff, handoffs>>

\* An answer to a ping of a state the machine has left.
PingIgnored ==
    /\ st \notin {"verifying", "linked"}
    /\ UNCHANGED <<machineVars, timer, requested, handoffs>>

AnswerPing ==
    /\ pingsOut > 0
    /\ pingsOut' = pingsOut - 1
    /\ UNCHANGED fired
    /\ PingOk \/ PingRefused \/ PingFailed \/ PingIgnored

---------------------------------------------------------------------------
Next ==
    \/ WifiModeEntered
    \/ WifiModeLeft
    \/ UserRetry
    \/ OpSucceeded
    \/ Available
    \/ NetworkGone
    \/ Expire
    \/ \E t \in Timers : DeliverTimer(t)
    \/ AnswerPing

Spec == Init /\ [][Next]_vars

(* The driver's clock runs, what fired is delivered, a ping is answered or *)
(* times out.  Nothing is assumed of the device, the user or the binder.   *)
Fairness ==
    /\ WF_vars(Expire)
    /\ \A t \in Timers : WF_vars(DeliverTimer(t))
    /\ WF_vars(AnswerPing)

FairSpec == Spec /\ Fairness

---------------------------------------------------------------------------
(* Properties.                                                             *)

FlagsTyped ==
    wanted \in BOOLEAN /\ handedOff \in BOOLEAN /\ requested \in BOOLEAN

(* Every counter stays inside its budget: request numbers run to the       *)
(* length of the backoff list, ping counters stay below their limits.      *)
TypeOK ==
    /\ st \in States
    /\ attempt \in 0 .. BackoffLen
    /\ pings \in 0 .. VerifyAttempts - 1
    /\ misses \in 0 .. HeartbeatMisses - 1
    /\ timer \in Timers \cup {"none"}
    /\ fired \subseteq Timers
    /\ FlagsTyped
    /\ pingsOut \in 0 .. MaxPings
    /\ handoffs \in Nat

Pending(t) == timer = t \/ t \in fired

(* The link is never stranded: in every state that is waiting for          *)
(* something, the timer or the ping that will move it on is still to come, *)
(* whatever stale timers and late answers were delivered in between.       *)
NeverStranded ==
    /\ st = "requesting" => Pending("RequestTimeout")
    /\ st = "verifying" => Pending("PingRetry") \/ pingsOut > 0
    /\ st = "linked" => Pending("Heartbeat") \/ pingsOut > 0
    /\ st = "backoff" => Pending("Backoff")

(* The platform's network request is held exactly while the machine is     *)
(* trying to link or linked: never leaked after it gave up (the device     *)
(* would stay attached to the logger's access point), never missing.       *)
RequestHeldWhileTrying ==
    requested <=> st \in {"requesting", "verifying", "linked"}

(* A machine that is trying, linked or has given up is wanted; one that is *)
(* not wanted is unlinked, so UserRetry can never revive a link the device *)
(* has left.                                                               *)
ActiveOnlyWhenWanted == wanted <=> st # "unlinked"

(* /handoff is sent at most once between two entries into WiFi mode, and a *)
(* linked machine has sent it.                                             *)
HandoffOncePerSession ==
    /\ handoffs <= 1
    /\ st = "linked" => handoffs = 1

(* The platform's cap on requests: attempts in a row that never reach the  *)
(* linked state stop at max_requests.                                      *)
RequestsInARowCapped ==
    MaxRequests > 0 /\ st \in {"requesting", "verifying"}
        => attempt < MaxRequests

(* The inductive strengthening: a machine that backs off has the attempt   *)
(* left that it backs off for, and handed_off counts the hand-off.         *)
BackoffHasNext == st = "backoff" => MayRetry(attempt)
HandoffCounted ==
    /\ handoffs = IF handedOff THEN 1 ELSE 0
    /\ st = "linked" => handedOff

IInv ==
    /\ TypeOK
    /\ NeverStranded
    /\ RequestHeldWhileTrying
    /\ ActiveOnlyWhenWanted
    /\ HandoffCounted
    /\ BackoffHasNext
    /\ RequestsInARowCapped

(* A link that is wanted settles: it links, gives up or is left, however   *)
(* often the network comes and goes meanwhile.                             *)
Settles ==
    st \in {"requesting", "verifying", "backoff"}
        ~> st \in {"linked", "failed", "unlinked"}
=============================================================================
